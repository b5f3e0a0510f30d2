----------------------- MODULE DiscoveredRolesProofs -----------------------
(***************************************************************************)
(* Why a lead is ready only with words the server has read, why a role     *)
(* that was applied for keeps its record and why a receipt covers its      *)
(* role, whatever the roles, the scans and the verdicts under way, and     *)
(* however long ago each of them took its snapshot.                        *)
(***************************************************************************)
EXTENDS DiscoveredRoles, TLAPS

-----------------------------------------------------------------------------
(* The inductive invariant *)

(* Words that the server vouches for are the employer's, and were read.    *)
Sound(c) ==
    c.serverVerified /\ c.verified =>
        c.lead = Official(RoleOf(c.lead)) /\ <<RoleOf(c.lead), c.text>> \in fetched

Backed(l, x) ==
    x.state = "ready" =>
        /\ l = Official(RoleOf(l)) /\ x.verified /\ ~x.pending
        /\ <<RoleOf(l), x.text>> \in fetched

(* A scan that is about to expire a lead may find it resolved, but not     *)
(* pending and young again.                                                *)
ScanSound(x) ==
    /\ x.pc \in {"expiring", "resolving"} => x.listing \in Listings
    /\ x.pc = "expiring" =>
        LET l == Names(x.listing)
        IN  lead[l] # None /\ (lead[l].state = "pending" => lead[l].old)
    /\ x.pc = "saving" => x.candidate \in Candidates /\ Sound(x.candidate)

(* What a verdict applies for is stored. *)
ReviewSound(x) ==
    /\ x.pc = "resolving" => x.listing \in Listings
    /\ x.pc = "saving" => x.candidate \in Candidates /\ Sound(x.candidate)
    /\ x.pc = "applying" => x.candidate \in Candidates /\ lead[x.candidate.lead] # None

RolesKept ==
    /\ TypeOK
    /\ ReadyWasVerified
    /\ \A s \in Scans : ScanSound(scan[s])
    /\ \A w \in Reviews : ReviewSound(review[w])

-----------------------------------------------------------------------------
(* What a step may do to the leads *)

(* The record of a stored lead: once applied for it stays, and it becomes  *)
(* ready, or expires after its week.                                       *)
Kept(l, x) ==
    /\ x \in LeadRecords /\ Backed(l, x)
    /\ app[l] \notin {"none", "skipped"} =>
        x.text = lead[l].text /\ x.fit = lead[l].fit /\ x.state = lead[l].state
    /\ x.state # lead[l].state =>
        \/ x.state = "ready"
        \/ x.state = "expired" /\ lead[l].state = "pending" /\ lead[l].old /\ app[l] = "none"
    /\ x.state = "pending" /\ lead[l].old => x.old

(* A new lead is not an official posting that a receipt stands for. *)
Added(l, x) ==
    /\ x \in LeadRecords /\ Backed(l, x)
    /\ ~(l = Official(RoleOf(l)) /\ Board(RoleOf(l)) \in receipts)

LeadsKept ==
    /\ lead' \in [Leads -> LeadRecords \cup {None}]
    /\ \A l \in Leads :
        IF lead[l] # None THEN lead'[l] # None /\ Kept(l, lead'[l])
        ELSE lead'[l] # None => Added(l, lead'[l])


-----------------------------------------------------------------------------
(* Records *)

LEMMA LeadShape ==
    ASSUME NEW l \in Leads
    PROVE  /\ RoleOf(l) \in Roles /\ l[2] \in Identities /\ l = <<RoleOf(l), l[2]>>
           /\ l = Official(RoleOf(l)) \/ l = Board(RoleOf(l))
BY DEF Leads, RoleOf, Identities, Official, Board

LEMMA LeadNames ==
    /\ \A r \in Roles : Official(r) \in Leads /\ Board(r) \in Leads /\ Official(r) # Board(r)
    /\ \A r \in Roles : RoleOf(Official(r)) = r /\ RoleOf(Board(r)) = r
    /\ \A x \in Listings : x.role \in Roles /\ Names(x) \in Leads
BY DEF Leads, RoleOf, Identities, Official, Board, Names, Listings

LEMMA NewCalls ==
    /\ NoScan \in ScanCalls /\ NoScan.pc = "idle"
    /\ NoReview \in ReviewCalls /\ NoReview.pc = "idle"
BY DiscoveryAssumption DEF DiscoveryAssumption, NoScan, ScanCalls, NoReview, ReviewCalls, Versions

LEMMA CandidateTyped ==
    ASSUME NEW l \in Leads, NEW verified \in BOOLEAN, NEW v \in Versions
    PROVE  /\ Candidate(l, verified, v) \in Candidates
           /\ Candidate(l, verified, v).lead = l
           /\ Candidate(l, verified, v).verified = verified
           /\ Candidate(l, verified, v).text = v
BY DEF Candidate, Candidates, NoFit, Fits

LEMMA ReviewedTyped ==
    ASSUME NEW l \in Leads, NEW verified \in BOOLEAN, NEW v \in Versions,
           NEW verdict \in {"relevant", "irrelevant"}, NEW serverVerified \in BOOLEAN
    PROVE  LET c == Reviewed(l, verified, v, verdict, serverVerified)
           IN  /\ c \in Candidates /\ c.lead = l /\ c.text = v
               /\ c.verified = verified /\ c.serverVerified = serverVerified
BY DEF Reviewed, Candidates, NoFit, Fits

-----------------------------------------------------------------------------
(* addOpportunity *)

LEMMA NewIsAdded ==
    ASSUME NEW c \in Candidates, Sound(c), Matching(c) = {}, lead[c.lead] = None,
           \A l \in receipts : l \in Leads /\ lead[l] # None
    PROVE  Added(c.lead, NewLead(c))
<1>1. NewLead(c) \in LeadRecords
    BY DEF NewLead, Candidates, LeadRecords, States
<1>2. Backed(c.lead, NewLead(c))
    BY DEF Backed, NewLead, Sound, Candidates
<1>3. ASSUME c.lead = Official(RoleOf(c.lead)), Board(RoleOf(c.lead)) \in receipts
      PROVE  FALSE
    <2>1. RoleOf(Board(RoleOf(c.lead))) = RoleOf(c.lead)
        BY DEF RoleOf, Board
    <2>2. Board(RoleOf(c.lead)) \in Matching(c)
        BY <1>3, <2>1 DEF Matching
    <2> QED
        BY <2>2
<1> QED
    BY <1>1, <1>2, <1>3 DEF Added

(* Each change that a candidate makes to a stored record. *)
LEMMA PromotionKeeps ==
    ASSUME NEW l \in Leads, NEW c \in Candidates, Sound(c), lead[l] \in LeadRecords,
           Backed(l, lead[l]), Promotes(l, c)
    PROVE  Kept(l, Promoted(lead[l], c)) /\ app[l] \in {"none", "skipped"}
<1> DEFINE x == Promoted(lead[l], c)
<1>1. x \in LeadRecords
    BY DEF Promoted, LeadRecords, States, Candidates
<1>2. x.state = "ready" /\ x.verified = TRUE /\ x.pending = FALSE /\ x.text = c.text
    BY DEF Promoted, LeadRecords
<1>3. app[l] \in {"none", "skipped"}
    BY DEF Promotes, CleanSkips
<1>4. l = c.lead /\ l = Official(RoleOf(l)) /\ c.serverVerified /\ c.verified
    BY DEF Promotes, SameOfficial
<1>5. Backed(l, x)
    BY <1>2, <1>4 DEF Backed, Sound
<1> HIDE DEF x
<1>6. Kept(l, x)
    BY <1>1, <1>2, <1>3, <1>5 DEF Kept
<1> QED
    BY <1>3, <1>6 DEF x

LEMMA VerdictKeeps ==
    ASSUME NEW l \in Leads, NEW c \in Candidates, Sound(c), lead[l] \in LeadRecords,
           NEW old, Kept(l, old), RecordsVerdict(l, c)
    PROVE  Kept(l, WithVerdict(l, old, c))
<1> DEFINE x == WithVerdict(l, old, c)
<1>1. old \in LeadRecords /\ app[l] = "none"
    BY DEF Kept, RecordsVerdict
<1>2. CASE c.serverVerified /\ c.verified /\ SameOfficial(l, c)
    <2>1. x \in LeadRecords
        BY <1>1, <1>2 DEF WithVerdict, LeadRecords, States, Candidates
    <2>2. x.state = "ready" /\ x.verified = TRUE /\ x.pending = FALSE /\ x.text = c.text
        BY <1>1, <1>2 DEF WithVerdict, LeadRecords
    <2>3. l = c.lead /\ l = Official(RoleOf(l))
        BY <1>2 DEF SameOfficial
    <2>4. Backed(l, x)
        BY <1>2, <2>2, <2>3 DEF Backed, Sound
    <2> HIDE DEF x
    <2>5. Kept(l, x)
        BY <1>1, <2>1, <2>2, <2>4 DEF Kept
    <2> QED
        BY <2>5 DEF x
<1>3. CASE ~(c.serverVerified /\ c.verified /\ SameOfficial(l, c))
    <2>1. x = [old EXCEPT !.fit = c.fit]
        BY <1>3 DEF WithVerdict
    <2>2. x \in LeadRecords
        BY <1>1, <2>1 DEF LeadRecords, Candidates
    <2>3. /\ x.state = old.state /\ x.verified = old.verified /\ x.pending = old.pending
          /\ x.text = old.text /\ x.old = old.old
        BY <1>1, <2>1 DEF LeadRecords
    <2> HIDE DEF x
    <2>4. Kept(l, x)
        BY <1>1, <2>2, <2>3 DEF Kept, Backed
    <2> QED
        BY <2>4 DEF x
<1> QED
    BY <1>2, <1>3

LEMMA UntouchedKeeps ==
    ASSUME NEW l \in Leads, lead[l] \in LeadRecords, Backed(l, lead[l])
    PROVE  Kept(l, lead[l])
BY DEF Kept

LEMMA MergeKeeps ==
    ASSUME NEW l \in Leads, NEW c \in Candidates, Sound(c), lead[l] \in LeadRecords,
           Backed(l, lead[l])
    PROVE  Kept(l, Merged(l, c))
<1> DEFINE seen == IF Promotes(l, c) THEN Promoted(lead[l], c) ELSE lead[l]
<1>1. Kept(l, seen)
    BY PromotionKeeps, UntouchedKeeps
<1>2. Merged(l, c) = IF RecordsVerdict(l, c) THEN WithVerdict(l, seen, c) ELSE seen
    BY DEF Merged
<1> HIDE DEF seen
<1> QED
    BY <1>1, <1>2, VerdictKeeps

(* What a candidate is the same role as is stored, under its role. *)
LEMMA ExistingIsStored ==
    ASSUME TypeOK, NEW c \in Candidates, Matching(c) # {}
    PROVE  Existing(c) \in Leads /\ lead[Existing(c)] # None
<1>1. c.lead \in Leads
    BY DEF Candidates
<1>2. PICK l \in Leads : lead[l] # None /\ (l = c.lead \/ c.lead = Official(RoleOf(l)))
    BY DEF Matching
<1>3. RoleOf(l) = RoleOf(c.lead)
    BY <1>2 DEF Official, RoleOf
<1>4. CASE Cardinality(Matching(c)) = 2
    <2> DEFINE r == RoleOf(c.lead)
    <2>1. r \in Roles /\ l = <<r, l[2]>> /\ l[2] \in Identities
        BY <1>1, <1>2, <1>3, LeadShape
    <2>2. first[r] # None
        BY <1>2, <2>1 DEF TypeOK
    <2>3. first[r] \in Identities /\ lead[<<r, first[r]>>] # None
        BY <2>1, <2>2 DEF TypeOK
    <2> QED
        BY <1>4, <2>1, <2>3 DEF Existing, Leads
<1>5. CASE Cardinality(Matching(c)) # 2
    <2>1. Existing(c) \in Matching(c)
        BY <1>5 DEF Existing
    <2> QED
        BY <2>1 DEF Matching
<1> QED
    BY <1>4, <1>5

FirstKept ==
    /\ first \in [Roles -> Identities \cup {None}]
    /\ \A r \in Roles :
        IF first[r] = None THEN \A i \in Identities : lead[<<r, i>>] = None
        ELSE lead[<<r, first[r]>>] # None

LEMMA AddKeeps ==
    ASSUME RolesKept, NEW c \in Candidates, Sound(c), AddOpportunity(c)
    PROVE  LeadsKept /\ FirstKept' /\ Stored(c) \in Leads /\ lead'[Stored(c)] # None
<1>1. /\ lead \in [Leads -> LeadRecords \cup {None}] /\ None \notin LeadRecords
      /\ FirstKept /\ None \notin Identities
    BY NoneAssumption DEF RolesKept, TypeOK, FirstKept, NoneAssumption
<1>2. \A l \in Leads : lead[l] # None => lead[l] \in LeadRecords /\ Backed(l, lead[l])
    BY <1>1 DEF RolesKept, ReadyWasVerified, Backed
<1>3. \A l \in Leads : lead[l] # None => Kept(l, lead[l])
    BY <1>2, UntouchedKeeps
<1>4. CASE Matching(c) # {}
    <2> DEFINE l == Existing(c)
               x == Merged(l, c)
    <2>1. l \in Leads /\ lead[l] # None
        BY <1>4, ExistingIsStored DEF RolesKept
    <2>2. Kept(l, x)
        BY <1>2, <2>1, MergeKeeps
    <2>3. lead' = [lead EXCEPT ![l] = x] /\ first' = first /\ Stored(c) = l
        BY <1>4 DEF AddOpportunity, Stored
    <2> HIDE DEF l, x
    <2>4. x \in LeadRecords /\ x # None
        BY <1>1, <2>2 DEF Kept
    <2>5. LeadsKept
        BY <1>1, <1>3, <2>1, <2>2, <2>3, <2>4 DEF LeadsKept
    <2>6. FirstKept'
        BY <1>1, <2>1, <2>3, <2>4 DEF FirstKept, Leads
    <2> QED
        BY <1>1, <2>1, <2>3, <2>4, <2>5, <2>6
<1>5. CASE Matching(c) = {}
    <2> DEFINE l == c.lead
               x == NewLead(c)
    <2>1. l \in Leads
        BY DEF Candidates
    <2>2. lead[l] = None
        BY <1>5, <2>1 DEF Matching
    <2>3. \A m \in receipts : m \in Leads /\ lead[m] # None
        BY DEF RolesKept, TypeOK
    <2>4. Added(l, x)
        BY <1>5, <2>2, <2>3, NewIsAdded
    <2>5. /\ lead' = [lead EXCEPT ![l] = x] /\ Stored(c) = l
          /\ first' = [first EXCEPT ![RoleOf(l)] = IF @ = None THEN l[2] ELSE @]
        BY <1>5 DEF AddOpportunity, Stored
    <2>6. RoleOf(l) \in Roles /\ l[2] \in Identities /\ l = <<RoleOf(l), l[2]>>
        BY <2>1, LeadShape
    <2> HIDE DEF l, x
    <2>7. x \in LeadRecords /\ x # None
        BY <1>1, <2>4 DEF Added
    <2>8. LeadsKept
        BY <1>1, <1>3, <2>1, <2>2, <2>4, <2>5, <2>7 DEF LeadsKept
    <2>9. FirstKept'
        <3>1. first' \in [Roles -> Identities \cup {None}]
            BY <1>1, <2>5, <2>6 DEF FirstKept
        <3>2. ASSUME NEW r \in Roles, r # RoleOf(l)
              PROVE  first'[r] = first[r] /\ \A i \in Identities : lead'[<<r, i>>] = lead[<<r, i>>]
            BY <1>1, <2>1, <2>5, <2>6, <3>2 DEF FirstKept, Leads
        <3>3. ASSUME NEW r \in Roles, r # RoleOf(l)
              PROVE  IF first'[r] = None THEN \A i \in Identities : lead'[<<r, i>>] = None
                     ELSE lead'[<<r, first'[r]>>] # None
            BY <1>1, <3>1, <3>2, <3>3 DEF FirstKept
        <3>4. first'[RoleOf(l)] # None /\ lead'[<<RoleOf(l), first'[RoleOf(l)]>>] # None
            <4>1. CASE first[RoleOf(l)] = None
                BY <1>1, <2>1, <2>5, <2>6, <2>7, <4>1 DEF FirstKept
            <4>2. CASE first[RoleOf(l)] # None
                BY <1>1, <2>1, <2>5, <2>6, <2>7, <4>2 DEF FirstKept, Leads
            <4> QED
                BY <4>1, <4>2
        <3> QED
            BY <3>1, <3>3, <3>4 DEF FirstKept
    <2> QED
        BY <1>1, <2>1, <2>5, <2>7, <2>8, <2>9
<1> QED
    BY <1>4, <1>5

-----------------------------------------------------------------------------
(* What every step keeps *)

WorldKept ==
    /\ text \in [Roles -> Versions]
    /\ app \in [Leads -> Applications]
    /\ \A l \in Leads : app[l] # "none" => lead[l] # None
    /\ receipts \subseteq {l \in Leads : app[l] = "submitted"}
    /\ fetched \subseteq Roles \X Versions
    /\ calls \in 0..MaxCalls

(* A step touches one call at most, and leaves it sound. *)
ScansStep ==
    \/ scan' = scan
    \/ \E s \in Scans, x \in ScanCalls : scan' = [scan EXCEPT ![s] = x] /\ ScanSound(x)'

ReviewsStep ==
    \/ review' = review
    \/ \E w \in Reviews, x \in ReviewCalls : review' = [review EXCEPT ![w] = x] /\ ReviewSound(x)'

LEMMA LeadsStay ==
    ASSUME RolesKept, UNCHANGED lead
    PROVE  LeadsKept
<1>1. lead \in [Leads -> LeadRecords \cup {None}]
    BY DEF RolesKept, TypeOK
<1>2. \A l \in Leads : lead[l] # None => lead[l] \in LeadRecords /\ Backed(l, lead[l])
    BY <1>1 DEF RolesKept, ReadyWasVerified, Backed
<1> QED
    BY <1>1, <1>2, UntouchedKeeps DEF LeadsKept

LEMMA FirstStays ==
    ASSUME RolesKept, UNCHANGED <<lead, first>>
    PROVE  FirstKept'
BY DEF RolesKept, TypeOK, FirstKept

LEMMA WorldStays ==
    ASSUME RolesKept, LeadsKept, UNCHANGED <<app, receipts>>,
           text' \in [Roles -> Versions], fetched' \subseteq Roles \X Versions,
           calls' \in 0..MaxCalls
    PROVE  WorldKept'
BY DEF RolesKept, TypeOK, LeadsKept, WorldKept

LEMMA Typed ==
    ASSUME RolesKept
    PROVE  /\ text \in [Roles -> Versions] /\ fetched \subseteq Roles \X Versions
           /\ calls \in 0..MaxCalls /\ (calls < MaxCalls => calls + 1 \in 0..MaxCalls)
           /\ \A s \in Scans : scan[s] \in ScanCalls /\ ScanSound(scan[s])
           /\ \A w \in Reviews : review[w] \in ReviewCalls /\ ReviewSound(review[w])
BY DiscoveryAssumption DEF DiscoveryAssumption, RolesKept, TypeOK

(* A call that a step does not touch stays sound. *)
LEMMA ScanCarries ==
    ASSUME RolesKept, LeadsKept, fetched \subseteq fetched', NEW x, ScanSound(x)
    PROVE  ScanSound(x)'
<1>1. ASSUME x.pc = "expiring"
      PROVE  LET l == Names(x.listing)
             IN  lead'[l] # None /\ (lead'[l].state = "pending" => lead'[l].old)
    <2> DEFINE l == Names(x.listing)
    <2>1. l \in Leads
        BY <1>1, LeadNames DEF ScanSound
    <2>2. lead[l] # None /\ (lead[l].state = "pending" => lead[l].old)
        BY <1>1 DEF ScanSound
    <2>3. lead'[l] # None /\ Kept(l, lead'[l])
        BY <2>1, <2>2 DEF LeadsKept
    <2> QED
        BY <2>2, <2>3 DEF Kept
<1> QED
    BY <1>1 DEF ScanSound, Sound

LEMMA ReviewCarries ==
    ASSUME RolesKept, LeadsKept, fetched \subseteq fetched', NEW x, ReviewSound(x)
    PROVE  ReviewSound(x)'
<1>1. ASSUME x.pc = "applying"
      PROVE  lead'[x.candidate.lead] # None
    BY <1>1 DEF ReviewSound, LeadsKept, Candidates
<1> QED
    BY <1>1 DEF ReviewSound, Sound

LEMMA StepKeeps ==
    ASSUME RolesKept, LeadsKept, FirstKept', WorldKept', fetched \subseteq fetched',
           ScansStep, ReviewsStep
    PROVE  RolesKept'
<1>1. scan' \in [Scans -> ScanCalls] /\ \A s \in Scans : ScanSound(scan[s])'
    <2>1. scan \in [Scans -> ScanCalls]
        BY DEF RolesKept, TypeOK
    <2>2. ASSUME NEW t \in Scans, scan'[t] = scan[t]
          PROVE  ScanSound(scan[t])'
        <3>1. PICK y : y = scan[t]
            OBVIOUS
        <3>2. ScanSound(y)
            BY <3>1 DEF RolesKept
        <3>3. ScanSound(y)'
            BY <3>2, ScanCarries
        <3> QED
            BY <2>2, <3>1, <3>3 DEF ScanSound, Sound
    <2>3. CASE scan' = scan
        BY <2>1, <2>2, <2>3
    <2>4. ASSUME NEW s \in Scans, NEW x \in ScanCalls,
                 scan' = [scan EXCEPT ![s] = x], ScanSound(x)'
          PROVE  scan' \in [Scans -> ScanCalls] /\ \A t \in Scans : ScanSound(scan[t])'
        <3>1. scan'[s] = x /\ \A t \in Scans : t # s => scan'[t] = scan[t]
            BY <2>1, <2>4
        <3>2. ScanSound(scan[s])'
            BY <2>4, <3>1 DEF ScanSound, Sound
        <3> QED
            BY <2>1, <2>2, <2>4, <3>1, <3>2
    <2> QED
        BY <2>3, <2>4 DEF ScansStep
<1>2. review' \in [Reviews -> ReviewCalls] /\ \A w \in Reviews : ReviewSound(review[w])'
    <2>1. review \in [Reviews -> ReviewCalls]
        BY DEF RolesKept, TypeOK
    <2>2. ASSUME NEW t \in Reviews, review'[t] = review[t]
          PROVE  ReviewSound(review[t])'
        <3>1. PICK y : y = review[t]
            OBVIOUS
        <3>2. ReviewSound(y)
            BY <3>1 DEF RolesKept
        <3>3. ReviewSound(y)'
            BY <3>2, ReviewCarries
        <3> QED
            BY <2>2, <3>1, <3>3 DEF ReviewSound, Sound
    <2>3. CASE review' = review
        BY <2>1, <2>2, <2>3
    <2>4. ASSUME NEW w \in Reviews, NEW x \in ReviewCalls,
                 review' = [review EXCEPT ![w] = x], ReviewSound(x)'
          PROVE  review' \in [Reviews -> ReviewCalls] /\ \A t \in Reviews : ReviewSound(review[t])'
        <3>1. review'[w] = x /\ \A t \in Reviews : t # w => review'[t] = review[t]
            BY <2>1, <2>4
        <3>2. ReviewSound(review[w])'
            BY <2>4, <3>1 DEF ReviewSound, Sound
        <3> QED
            BY <2>1, <2>2, <2>4, <3>1, <3>2
    <2> QED
        BY <2>3, <2>4 DEF ReviewsStep
<1>3. TypeOK'
    BY <1>1, <1>2 DEF TypeOK, WorldKept, FirstKept, LeadsKept
<1>4. ReadyWasVerified'
    <2>1. ASSUME NEW l \in Leads, lead'[l] # None
          PROVE  Backed(l, lead'[l])
        BY <2>1 DEF LeadsKept, Kept, Added
    <2> QED
        BY <2>1 DEF ReadyWasVerified, Backed
<1> QED
    BY <1>1, <1>2, <1>3, <1>4 DEF RolesKept

-----------------------------------------------------------------------------
(* Scans *)

LEMMA ScanBeginsKeeps ==
    ASSUME RolesKept, NEW s \in Scans, ScanBegins(s)
    PROVE  LeadsKept /\ RolesKept'
<1>1. LeadsKept /\ FirstKept'
    BY LeadsStay, FirstStays DEF ScanBegins
<1>2. WorldKept'
    BY <1>1, Typed, WorldStays DEF ScanBegins
<1>3. ScansStep
    <2>1. PICK x \in Listings :
            scan' = [scan EXCEPT ![s] =
              [NoScan EXCEPT !.pc = IF PendingExpired(x) THEN "expiring" ELSE "resolving",
                             !.listing = x, !.known = Known(TRUE)]]
        BY DEF ScanBegins
    <2> DEFINE y == [NoScan EXCEPT !.pc = IF PendingExpired(x) THEN "expiring" ELSE "resolving",
                                   !.listing = x, !.known = Known(TRUE)]
    <2>2. Known(TRUE) \subseteq Leads
        <3>1. \A l \in receipts : Official(RoleOf(l)) \in Leads
            BY LeadNames, LeadShape DEF RolesKept, TypeOK
        <3>2. \A m \in {<<RoleOf(l), "official">> : l \in receipts} : m \in Leads
            BY <3>1 DEF Official
        <3> QED
            BY <3>2 DEF Known
    <2>3. y \in ScanCalls /\ y.listing = x /\ y.pc \in {"expiring", "resolving"}
        BY <2>2, NewCalls DEF NoScan, ScanCalls
    <2>4. y.pc = "expiring" => PendingExpired(x)
        <3>1. y.pc = IF PendingExpired(x) THEN "expiring" ELSE "resolving"
            BY DEF NoScan
        <3> QED
            BY <3>1
    <2>5. PICK z : z = y
        OBVIOUS
    <2> HIDE DEF y
    <2>6. PendingExpired(x) =>
            lead[Names(x)] # None /\ (lead[Names(x)].state = "pending" => lead[Names(x)].old)
        BY DEF PendingExpired
    <2>7. lead' = lead
        BY DEF ScanBegins
    <2>8. ScanSound(z)'
        BY <2>3, <2>4, <2>5, <2>6, <2>7 DEF ScanSound
    <2>9. scan' = [scan EXCEPT ![s] = z] /\ z \in ScanCalls
        BY <2>1, <2>3, <2>5 DEF y
    <2> QED
        BY <2>8, <2>9 DEF ScansStep
<1> QED
    BY <1>1, <1>2, <1>3, StepKeeps DEF ScanBegins, ReviewsStep

LEMMA IdleScanIsSound ==
    ASSUME NEW s \in Scans, scan' = [scan EXCEPT ![s] = NoScan]
    PROVE  ScansStep
<1>1. ScanSound(NoScan)'
    BY NewCalls DEF ScanSound
<1> QED
    BY <1>1, NewCalls DEF ScansStep

LEMMA ScanExpiresKeeps ==
    ASSUME RolesKept, NEW s \in Scans, ScanExpires(s)
    PROVE  LeadsKept /\ RolesKept'
<1> DEFINE l == Names(scan[s].listing)
<1>1. l \in Leads /\ lead[l] # None /\ (lead[l].state = "pending" => lead[l].old)
    BY Typed, LeadNames DEF ScanSound, ScanExpires
<1>2. lead \in [Leads -> LeadRecords \cup {None}] /\ lead[l] \in LeadRecords /\ None \notin LeadRecords
    BY <1>1, NoneAssumption DEF RolesKept, TypeOK, NoneAssumption
<1>3. \/ UNCHANGED lead
      \/ /\ lead[l].state = "pending" /\ app[l] = "none"
         /\ lead' = [lead EXCEPT ![l].state = "expired"]
    BY DEF ScanExpires, MarkExpired
<1>4. LeadsKept /\ FirstKept'
    <2>1. CASE UNCHANGED lead
        BY <2>1, LeadsStay, FirstStays DEF ScanExpires
    <2>2. ASSUME lead[l].state = "pending", app[l] = "none",
                 lead' = [lead EXCEPT ![l].state = "expired"]
          PROVE  LeadsKept /\ FirstKept'
        <3> DEFINE x == [lead[l] EXCEPT !.state = "expired"]
        <3>1. x \in LeadRecords /\ x.state = "expired"
            BY <1>2 DEF LeadRecords, States
        <3>2. lead' = [lead EXCEPT ![l] = x]
            BY <2>2
        <3> HIDE DEF x, l
        <3>3. Kept(l, x)
            BY <1>1, <2>2, <3>1 DEF Kept, Backed
        <3>4. \A m \in Leads \ {l} : lead'[m] = lead[m] /\ (lead[m] # None => Kept(m, lead[m]))
            BY <1>2, <3>2, UntouchedKeeps DEF RolesKept, ReadyWasVerified, Backed
        <3>5. LeadsKept
            BY <1>1, <1>2, <3>1, <3>2, <3>3, <3>4 DEF LeadsKept
        <3>6. \A m \in Leads : lead'[m] = None <=> lead[m] = None
            BY <1>1, <1>2, <3>1, <3>2
        <3>7. first' = first /\ FirstKept
            BY DEF ScanExpires, RolesKept, TypeOK, FirstKept
        <3>8. FirstKept'
            BY <3>6, <3>7 DEF FirstKept, Leads
        <3> QED
            BY <3>5, <3>8
    <2> QED
        BY <1>3, <2>1, <2>2
<1>5. WorldKept'
    BY <1>4, Typed, WorldStays DEF ScanExpires
<1>6. ScansStep
    BY IdleScanIsSound DEF ScanExpires
<1> QED
    BY <1>4, <1>5, <1>6, StepKeeps DEF ScanExpires, ReviewsStep

LEMMA ScanResolvesKeeps ==
    ASSUME RolesKept, NEW s \in Scans, ScanResolves(s)
    PROVE  LeadsKept /\ RolesKept'
<1>1. LeadsKept /\ FirstKept'
    BY LeadsStay, FirstStays DEF ScanResolves
<1>2. scan[s].listing \in Listings
    BY Typed DEF ScanSound, ScanResolves
<1>3. PICK c \in Resolutions(scan[s].listing) :
        /\ \/ scan' = [scan EXCEPT ![s] = NoScan]
           \/ scan' = [scan EXCEPT ![s] = [NoScan EXCEPT !.pc = "saving", !.candidate = c]]
        /\ fetched' = IF c.verified THEN fetched \cup {<<RoleOf(c.lead), c.text>>} ELSE fetched
    BY DEF ScanResolves
<1>4. c \in Candidates /\ (c.verified => c.lead = Official(RoleOf(c.lead)))
    <2> DEFINE x == scan[s].listing
    <2>1. x.role \in Roles /\ Names(x) \in Leads /\ text[x.role] \in Versions
          /\ Official(x.role) \in Leads /\ RoleOf(Official(x.role)) = x.role
        BY <1>2, LeadNames, Typed
    <2>2. \/ c = Candidate(Names(x), FALSE, text[x.role])
          \/ c = Candidate(Official(x.role), TRUE, text[x.role])
        BY DEF Resolutions
    <2>3. CASE c = Candidate(Names(x), FALSE, text[x.role])
        BY <2>1, <2>3, CandidateTyped
    <2>4. CASE c = Candidate(Official(x.role), TRUE, text[x.role])
        <3>1. c \in Candidates /\ c.lead = Official(x.role)
            BY <2>1, <2>4, CandidateTyped
        <3>2. RoleOf(c.lead) = x.role
            BY <2>1, <3>1
        <3> QED
            BY <3>1, <3>2
    <2> QED
        BY <2>2, <2>3, <2>4
<1>5. RoleOf(c.lead) \in Roles /\ c.text \in Versions
    BY <1>4, LeadShape DEF Candidates
<1>6. fetched \subseteq fetched' /\ fetched' \subseteq Roles \X Versions
    BY <1>3, <1>5, Typed
<1>7. WorldKept'
    BY <1>1, <1>6, Typed, WorldStays DEF ScanResolves
<1>8. ScansStep
    <2>1. CASE scan' = [scan EXCEPT ![s] = NoScan]
        BY <2>1, IdleScanIsSound
    <2>2. CASE scan' = [scan EXCEPT ![s] = [NoScan EXCEPT !.pc = "saving", !.candidate = c]]
        <3> DEFINE y == [NoScan EXCEPT !.pc = "saving", !.candidate = c]
        <3>1. y \in ScanCalls /\ y.pc = "saving" /\ y.candidate = c
            BY <1>4, NewCalls DEF NoScan, ScanCalls
        <3> HIDE DEF y
        <3>2. ScanSound(y)'
            BY <1>3, <1>4, <3>1 DEF ScanSound, Sound
        <3> QED
            BY <2>2, <3>1, <3>2 DEF ScansStep, y
    <2> QED
        BY <1>3, <2>1, <2>2
<1> QED
    BY <1>1, <1>6, <1>7, <1>8, StepKeeps DEF ScanResolves, ReviewsStep

LEMMA ScanSavesKeeps ==
    ASSUME RolesKept, NEW s \in Scans, ScanSaves(s)
    PROVE  LeadsKept /\ RolesKept'
<1>1. scan[s].candidate \in Candidates /\ Sound(scan[s].candidate)
    BY Typed DEF ScanSound, ScanSaves
<1>2. LeadsKept /\ FirstKept'
    BY <1>1, AddKeeps DEF ScanSaves
<1>3. WorldKept'
    BY <1>2, Typed, WorldStays DEF ScanSaves
<1>4. ScansStep
    BY IdleScanIsSound DEF ScanSaves
<1> QED
    BY <1>2, <1>3, <1>4, StepKeeps DEF ScanSaves, ReviewsStep

-----------------------------------------------------------------------------
(* Verdicts *)

(* The two shapes of a verdict that goes on. *)
LEMMA SavingReview ==
    ASSUME NEW c \in Candidates
    PROVE  LET y == [NoReview EXCEPT !.pc = "saving", !.candidate = c]
           IN  y \in ReviewCalls /\ y.pc = "saving" /\ y.candidate = c
BY NewCalls DEF NoReview, ReviewCalls

LEMMA SavingReviewStep ==
    ASSUME NEW w \in Reviews, NEW c \in Candidates, Sound(c), fetched \subseteq fetched',
           review' = [review EXCEPT ![w] = [NoReview EXCEPT !.pc = "saving", !.candidate = c]]
    PROVE  ReviewsStep
<1> DEFINE y == [NoReview EXCEPT !.pc = "saving", !.candidate = c]
<1>1. y \in ReviewCalls /\ y.pc = "saving" /\ y.candidate = c
    BY SavingReview
<1>2. review' = [review EXCEPT ![w] = y]
    OBVIOUS
<1> HIDE DEF y
<1>3. ReviewSound(y)'
    BY <1>1 DEF ReviewSound, Sound
<1> QED
    BY <1>1, <1>2, <1>3 DEF ReviewsStep

LEMMA IdleReviewIsSound ==
    ASSUME NEW w \in Reviews, review' = [review EXCEPT ![w] = NoReview]
    PROVE  ReviewsStep
<1>1. ReviewSound(NoReview)'
    BY NewCalls DEF ReviewSound
<1> QED
    BY <1>1, NewCalls DEF ReviewsStep

LEMMA ReviewBeginsKeeps ==
    ASSUME RolesKept, NEW w \in Reviews, ReviewBegins(w)
    PROVE  LeadsKept /\ RolesKept'
<1>1. LeadsKept /\ FirstKept'
    BY LeadsStay, FirstStays DEF ReviewBegins
<1>2. WorldKept'
    BY <1>1, Typed, WorldStays DEF ReviewBegins
<1>3. ReviewsStep
    <2>1. PICK x \in Listings, v \in Versions, verdict \in {"relevant", "irrelevant"} :
            review' = [review EXCEPT ![w] =
              IF verdict = "irrelevant"
              THEN [NoReview EXCEPT !.pc = "saving",
                                    !.candidate = Reviewed(Names(x), FALSE, v, verdict, FALSE)]
              ELSE [NoReview EXCEPT !.pc = "resolving", !.listing = x, !.text = v]]
        BY DEF ReviewBegins
    <2>2. CASE verdict = "irrelevant"
        <3> DEFINE c == Reviewed(Names(x), FALSE, v, verdict, FALSE)
        <3>1. c \in Candidates /\ c.serverVerified = FALSE
            BY LeadNames, ReviewedTyped
        <3>2. review' = [review EXCEPT ![w] = [NoReview EXCEPT !.pc = "saving", !.candidate = c]]
            BY <2>1, <2>2
        <3> HIDE DEF c
        <3>3. fetched \subseteq fetched' /\ Sound(c)
            BY <3>1 DEF Sound, ReviewBegins
        <3> QED
            BY <3>1, <3>2, <3>3, SavingReviewStep
    <2>3. CASE verdict # "irrelevant"
        <3> DEFINE y == [NoReview EXCEPT !.pc = "resolving", !.listing = x, !.text = v]
        <3>1. y \in ReviewCalls /\ y.pc = "resolving" /\ y.listing = x
            BY NewCalls DEF NoReview, ReviewCalls
        <3>2. review' = [review EXCEPT ![w] = y]
            BY <2>1, <2>3
        <3> HIDE DEF y
        <3>3. ReviewSound(y)'
            BY <3>1 DEF ReviewSound
        <3> QED
            BY <3>1, <3>2, <3>3 DEF ReviewsStep
    <2> QED
        BY <2>2, <2>3
<1> QED
    BY <1>1, <1>2, <1>3, StepKeeps DEF ReviewBegins, ScansStep

LEMMA ReviewResolvesKeeps ==
    ASSUME RolesKept, NEW w \in Reviews, ReviewResolves(w)
    PROVE  LeadsKept /\ RolesKept'
<1>1. LeadsKept /\ FirstKept'
    BY LeadsStay, FirstStays DEF ReviewResolves
<1> DEFINE x == review[w].listing
           v == review[w].text
           b == Reviewed(Names(x), FALSE, v, "relevant", FALSE)
           o == Reviewed(Official(x.role), TRUE, v, "relevant", TRUE)
<1>2. /\ x.role \in Roles /\ Names(x) \in Leads /\ v \in Versions
      /\ Official(x.role) \in Leads /\ RoleOf(Official(x.role)) = x.role
      /\ text[x.role] \in Versions
    <2>1. x \in Listings
        BY Typed DEF ReviewSound, ReviewResolves
    <2> QED
        BY <2>1, LeadNames, Typed DEF ReviewCalls
<1>3. \/ /\ review' = [review EXCEPT ![w] = [NoReview EXCEPT !.pc = "saving", !.candidate = b]]
         /\ UNCHANGED fetched
      \/ /\ fetched' = fetched \cup {<<x.role, text[x.role]>>} /\ text[x.role] = v
         /\ review' = [review EXCEPT ![w] = [NoReview EXCEPT !.pc = "saving", !.candidate = o]]
      \/ review' = [review EXCEPT ![w] = NoReview] /\ UNCHANGED fetched
    BY DEF ReviewResolves
<1>4. b \in Candidates /\ b.serverVerified = FALSE
    BY <1>2, ReviewedTyped, SMTT(30), ZenonT(40)
<1>5. o \in Candidates /\ o.lead = Official(x.role) /\ o.text = v
    <2>1. o.lead = Official(x.role) /\ o.text = v
        BY DEF Reviewed
    <2>2. o \in Candidates
        BY <1>2, ReviewedTyped
    <2> QED
        BY <2>1, <2>2
<1> HIDE DEF b, o, x, v
<1>6. ReviewsStep /\ fetched \subseteq fetched' /\ fetched' \subseteq Roles \X Versions
    <2>1. CASE /\ review' = [review EXCEPT ![w] = [NoReview EXCEPT !.pc = "saving", !.candidate = b]]
               /\ UNCHANGED fetched
        <3>1. PICK c \in Candidates : c = b
            BY <1>4
        <3>2. Sound(c)
            BY <1>4, <3>1 DEF Sound
        <3> QED
            BY <2>1, <3>1, <3>2, SavingReviewStep, Typed
    <2>2. CASE /\ fetched' = fetched \cup {<<x.role, text[x.role]>>} /\ text[x.role] = v
               /\ review' = [review EXCEPT ![w] = [NoReview EXCEPT !.pc = "saving", !.candidate = o]]
        <3>1. PICK y : y = [NoReview EXCEPT !.pc = "saving", !.candidate = o]
            OBVIOUS
        <3>2. y \in ReviewCalls /\ y.pc = "saving" /\ y.candidate = o
            BY <1>5, <3>1, SavingReview
        <3>3. PICK c \in Candidates : c = o
            BY <1>5
        <3>4. c.lead = Official(RoleOf(c.lead)) /\ <<RoleOf(c.lead), c.text>> \in fetched'
            BY <1>2, <1>5, <2>2, <3>3
        <3>5. ReviewSound(y)'
            BY <3>2, <3>3, <3>4 DEF ReviewSound, Sound
        <3>6. ReviewsStep
            BY <2>2, <3>1, <3>2, <3>5 DEF ReviewsStep
        <3> QED
            BY <1>2, <2>2, <3>6, Typed
    <2>3. CASE review' = [review EXCEPT ![w] = NoReview] /\ UNCHANGED fetched
        BY <2>3, IdleReviewIsSound, Typed
    <2> QED
        BY <1>3, <2>1, <2>2, <2>3
<1>7. WorldKept'
    BY <1>1, <1>6, Typed, WorldStays DEF ReviewResolves
<1> QED
    BY <1>1, <1>6, <1>7, StepKeeps DEF ReviewResolves, ScansStep

LEMMA ReviewSavesKeeps ==
    ASSUME RolesKept, NEW w \in Reviews, ReviewSaves(w)
    PROVE  LeadsKept /\ RolesKept'
<1>1. PICK c : c = review[w].candidate
    OBVIOUS
<1>2. c \in Candidates /\ Sound(c) /\ AddOpportunity(c)
    BY <1>1, Typed DEF ReviewSound, ReviewSaves
<1>3. LeadsKept /\ FirstKept' /\ Stored(c) \in Leads /\ lead'[Stored(c)] # None
    BY <1>2, AddKeeps
<1>4. WorldKept'
    BY <1>3, Typed, WorldStays DEF ReviewSaves
<1>5. ReviewsStep
    <2>1. CASE review' = [review EXCEPT ![w] = NoReview]
        BY <2>1, IdleReviewIsSound
    <2>2. CASE review' = [review EXCEPT ![w] =
                 [NoReview EXCEPT !.pc = "applying", !.candidate = [c EXCEPT !.lead = Stored(c)]]]
        <3>1. PICK d : d = [c EXCEPT !.lead = Stored(c)]
            OBVIOUS
        <3>2. d \in Candidates /\ d.lead = Stored(c)
            BY <1>2, <1>3, <3>1 DEF Candidates
        <3> DEFINE y == [NoReview EXCEPT !.pc = "applying", !.candidate = d]
        <3>3. y \in ReviewCalls /\ y.pc = "applying" /\ y.candidate = d
            BY <3>2, NewCalls DEF NoReview, ReviewCalls
        <3>4. review' = [review EXCEPT ![w] = y]
            BY <2>2, <3>1
        <3> HIDE DEF y
        <3>5. ReviewSound(y)'
            BY <1>3, <3>2, <3>3 DEF ReviewSound
        <3> QED
            BY <3>3, <3>4, <3>5 DEF ReviewsStep
    <2> QED
        BY <1>1, <2>1, <2>2 DEF ReviewSaves
<1> QED
    BY <1>3, <1>4, <1>5, StepKeeps DEF ReviewSaves, ScansStep

(* An application is for a stored lead, and changes no other. *)
LEMMA ApplyKeeps ==
    ASSUME RolesKept, NEW l \in Leads, lead[l] # None, Apply(l),
           UNCHANGED <<text, lead, receipts, fetched, calls>>
    PROVE  WorldKept'
<1>1. app \in [Leads -> Applications] /\ receipts \subseteq {m \in Leads : app[m] = "submitted"}
    BY DEF RolesKept, TypeOK
<1>2. app' \in [Leads -> Applications] /\ \A m \in Leads : m # l => app'[m] = app[m]
    BY <1>1 DEF Apply, Applications
<1>3. app[l] # "none" => app'[l] = app[l]
    BY <1>1 DEF Apply
<1> QED
    BY <1>1, <1>2, <1>3 DEF RolesKept, TypeOK, WorldKept

LEMMA ReviewAppliesKeeps ==
    ASSUME RolesKept, NEW w \in Reviews, ReviewApplies(w)
    PROVE  LeadsKept /\ RolesKept'
<1> DEFINE l == review[w].candidate.lead
<1>1. l \in Leads /\ lead[l] # None
    BY Typed DEF ReviewSound, ReviewApplies, Candidates
<1>2. LeadsKept /\ FirstKept'
    BY LeadsStay, FirstStays DEF ReviewApplies
<1>3. WorldKept'
    BY <1>1, ApplyKeeps DEF ReviewApplies
<1>4. ReviewsStep
    BY IdleReviewIsSound DEF ReviewApplies
<1> QED
    BY <1>2, <1>3, <1>4, StepKeeps DEF ReviewApplies, ScansStep

-----------------------------------------------------------------------------
(* The owner, the queue and the world *)

LEMMA PostLeadKeeps ==
    ASSUME RolesKept, PostLead
    PROVE  LeadsKept /\ RolesKept'
<1>1. PICK l \in Leads, pending \in BOOLEAN, verified \in BOOLEAN :
        AddOpportunity([Candidate(l, verified, text[RoleOf(l)]) EXCEPT
                          !.pending = pending, !.serverVerified = FALSE])
    BY DEF PostLead
<1>2. PICK c : c = [Candidate(l, verified, text[RoleOf(l)]) EXCEPT
                          !.pending = pending, !.serverVerified = FALSE]
    OBVIOUS
<1>3. text[RoleOf(l)] \in Versions
    BY LeadShape, Typed
<1>4. PICK d \in Candidates : d = Candidate(l, verified, text[RoleOf(l)])
    BY <1>3, CandidateTyped
<1>5. c = [d EXCEPT !.pending = pending, !.serverVerified = FALSE]
    BY <1>2, <1>4
<1>6. c \in Candidates /\ c.serverVerified = FALSE
    BY <1>5 DEF Candidates
<1>7. LeadsKept /\ FirstKept'
    BY <1>1, <1>2, <1>6, AddKeeps DEF Sound
<1>8. WorldKept'
    BY <1>7, Typed, WorldStays DEF PostLead
<1> QED
    BY <1>7, <1>8, StepKeeps DEF PostLead, ScansStep, ReviewsStep

LEMMA OwnerAppliesKeeps ==
    ASSUME RolesKept, OwnerApplies
    PROVE  LeadsKept /\ RolesKept'
<1>1. LeadsKept /\ FirstKept'
    BY LeadsStay, FirstStays DEF OwnerApplies
<1>2. WorldKept'
    BY ApplyKeeps DEF OwnerApplies
<1> QED
    BY <1>1, <1>2, StepKeeps DEF OwnerApplies, ScansStep, ReviewsStep

LEMMA FinishKeeps ==
    ASSUME RolesKept, Finish
    PROVE  LeadsKept /\ RolesKept'
<1>1. LeadsKept /\ FirstKept'
    BY LeadsStay, FirstStays DEF Finish
<1>2. WorldKept'
    <2>1. PICK l \in Leads, outcome \in {"skipped", "uncertain", "submitted"} :
            /\ app[l] \in {"live", "uncertain"}
            /\ app' = [app EXCEPT ![l] = outcome]
            /\ receipts' = receipts \/ (outcome = "submitted" /\ receipts' = receipts \cup {l})
        BY DEF Finish
    <2>2. app \in [Leads -> Applications] /\ receipts \subseteq {m \in Leads : app[m] = "submitted"}
        BY DEF RolesKept, TypeOK
    <2>3. app' \in [Leads -> Applications] /\ app'[l] = outcome
          /\ \A m \in Leads : m # l => app'[m] = app[m]
        BY <2>1, <2>2 DEF Applications
    <2>4. receipts' \subseteq {m \in Leads : app'[m] = "submitted"}
        BY <2>1, <2>2, <2>3
    <2>5. \A m \in Leads : app'[m] # "none" => lead[m] # None
        BY <2>1, <2>3 DEF RolesKept, TypeOK
    <2> QED
        BY <2>3, <2>4, <2>5, Typed DEF WorldKept, Finish
<1> QED
    BY <1>1, <1>2, StepKeeps DEF Finish, ScansStep, ReviewsStep

LEMMA EditPostingKeeps ==
    ASSUME RolesKept, EditPosting
    PROVE  LeadsKept /\ RolesKept'
<1>1. LeadsKept /\ FirstKept'
    BY LeadsStay, FirstStays DEF EditPosting
<1>2. text' \in [Roles -> Versions]
    BY Typed, DiscoveryAssumption DEF EditPosting, Versions, DiscoveryAssumption
<1>3. WorldKept'
    BY <1>1, <1>2, Typed, WorldStays DEF EditPosting
<1> QED
    BY <1>1, <1>3, StepKeeps DEF EditPosting, ScansStep, ReviewsStep

LEMMA LeadAgesKeeps ==
    ASSUME RolesKept, LeadAges
    PROVE  LeadsKept /\ RolesKept'
<1>1. PICK l \in Leads : lead[l] # None /\ lead' = [lead EXCEPT ![l].old = TRUE]
    BY DEF LeadAges
<1>2. lead \in [Leads -> LeadRecords \cup {None}] /\ lead[l] \in LeadRecords /\ None \notin LeadRecords
    BY <1>1, NoneAssumption DEF RolesKept, TypeOK, NoneAssumption
<1>3. LeadsKept /\ FirstKept'
    <2> DEFINE x == [lead[l] EXCEPT !.old = TRUE]
    <2>1. /\ x \in LeadRecords /\ x.state = lead[l].state /\ x.text = lead[l].text
          /\ x.fit = lead[l].fit /\ x.verified = lead[l].verified
          /\ x.pending = lead[l].pending /\ x.old = TRUE
        BY <1>2 DEF LeadRecords
    <2>2. lead' = [lead EXCEPT ![l] = x]
        BY <1>1
    <2> HIDE DEF x
    <2>3. \A m \in Leads : lead[m] # None => Backed(m, lead[m])
        BY DEF RolesKept, ReadyWasVerified, Backed
    <2>4. Kept(l, x)
        BY <1>1, <2>1, <2>3 DEF Kept, Backed
    <2>5. \A m \in Leads \ {l} : lead'[m] = lead[m] /\ (lead[m] # None => Kept(m, lead[m]))
        BY <1>2, <2>2, <2>3, UntouchedKeeps
    <2>6. LeadsKept
        BY <1>1, <1>2, <2>1, <2>2, <2>4, <2>5 DEF LeadsKept
    <2>7. \A m \in Leads : lead'[m] = None <=> lead[m] = None
        BY <1>1, <1>2, <2>1, <2>2
    <2>8. first' = first /\ FirstKept
        BY DEF LeadAges, RolesKept, TypeOK, FirstKept
    <2>9. FirstKept'
        BY <2>7, <2>8 DEF FirstKept, Leads
    <2> QED
        BY <2>6, <2>9
<1>4. WorldKept'
    BY <1>3, Typed, WorldStays DEF LeadAges
<1> QED
    BY <1>3, <1>4, StepKeeps DEF LeadAges, ScansStep, ReviewsStep

-----------------------------------------------------------------------------
(* The invariant *)

LEMMA RolesInit == Init => RolesKept
<1> SUFFICES ASSUME Init
             PROVE  RolesKept
    OBVIOUS
<1>1. \A l \in Leads : lead[l] \in {None, ClosedLead}
    BY DEF Init
<1>2. ClosedLead \in LeadRecords /\ ClosedLead.state = "closed"
    BY DiscoveryAssumption
    DEF DiscoveryAssumption, ClosedLead, LeadRecords, States, Versions, Fits
<1>3. text \in [Roles -> Versions] /\ calls \in 0..MaxCalls
    BY DiscoveryAssumption DEF Init, DiscoveryAssumption, Versions
<1>4. FirstKept
    <2>1. first \in [Roles -> Identities \cup {None}]
        BY DEF Init, Identities
    <2>2. ASSUME NEW r \in Roles
          PROVE  IF first[r] = None THEN \A i \in Identities : lead[<<r, i>>] = None
                 ELSE lead[<<r, first[r]>>] # None
        BY NoneAssumption DEF Init, Identities, NoneAssumption, Official, Board
    <2> QED
        BY <2>1, <2>2 DEF FirstKept
<1>5. lead \in [Leads -> LeadRecords \cup {None}] /\ app \in [Leads -> Applications]
    BY <1>2 DEF Init, Applications
<1>6. TypeOK
    BY <1>3, <1>4, <1>5, NewCalls DEF Init, TypeOK, FirstKept
<1>7. ReadyWasVerified
    BY <1>1, <1>2 DEF ReadyWasVerified
<1>8. /\ \A s \in Scans : ScanSound(scan[s])
      /\ \A w \in Reviews : ReviewSound(review[w])
    BY NewCalls DEF Init, ScanSound, ReviewSound
<1> QED
    BY <1>6, <1>7, <1>8 DEF RolesKept

LEMMA RolesNext ==
    ASSUME RolesKept, [Next]_vars
    PROVE  LeadsKept /\ RolesKept'
<1>1. CASE \E s \in Scans : ScanBegins(s) \/ ScanExpires(s) \/ ScanResolves(s) \/ ScanSaves(s)
    BY <1>1, ScanBeginsKeeps, ScanExpiresKeeps, ScanResolvesKeeps, ScanSavesKeeps
<1>2. CASE \E w \in Reviews :
             ReviewBegins(w) \/ ReviewResolves(w) \/ ReviewSaves(w) \/ ReviewApplies(w)
    BY <1>2, ReviewBeginsKeeps, ReviewResolvesKeeps, ReviewSavesKeeps, ReviewAppliesKeeps
<1>3. CASE PostLead \/ OwnerApplies \/ Finish \/ EditPosting \/ LeadAges
    BY <1>3, PostLeadKeeps, OwnerAppliesKeeps, FinishKeeps, EditPostingKeeps, LeadAgesKeeps
<1>4. CASE UNCHANGED vars
    <2>1. LeadsKept
        BY <1>4, LeadsStay DEF vars
    <2>2. RolesKept'
        BY <1>4 DEF vars, RolesKept, TypeOK, ReadyWasVerified, ScanSound, ReviewSound, Sound
    <2> QED
        BY <2>1, <2>2
<1> QED
    BY <1>1, <1>2, <1>3, <1>4 DEF Next

(* The invariant above holds of every state: every call under way decided  *)
(* from a snapshot of any age, yet what it is about to save is sound.      *)
THEOREM RolesAreKept == Spec => []RolesKept
<1>1. RolesKept /\ [Next]_vars => RolesKept'
    BY RolesNext
<1> QED
    BY RolesInit, <1>1, PTL DEF Spec

(* The records of leads, applications, scans and verdicts always are of    *)
(* their types, an application is for a stored lead, and the lead stored   *)
(* first of a role is there.                                               *)
THEOREM TypesAreKept == Spec => []TypeOK
<1>1. RolesKept => TypeOK
    BY DEF RolesKept
<1> QED
    BY <1>1, RolesAreKept, PTL

(* A lead is ready only under the employer's link, with words the server   *)
(* itself has read there (src/service.js addOpportunity).                  *)
THEOREM ReadyIsVerified == Spec => []ReadyWasVerified
<1>1. RolesKept => ReadyWasVerified
    BY DEF RolesKept
<1> QED
    BY <1>1, RolesAreKept, PTL

-----------------------------------------------------------------------------
(* What steps may do *)

(* What is being applied for, was sent or may have been sent keeps its     *)
(* words, its verdict and its state.                                       *)
THEOREM SettledRolesAreKept == Spec => SettledRolesStay
<1>1. ASSUME RolesKept, [Next]_vars
      PROVE  \A l \in Leads :
               app[l] \notin {"none", "skipped"} =>
                 /\ lead'[l].text = lead[l].text /\ lead'[l].fit = lead[l].fit
                 /\ lead'[l].state = lead[l].state
    <2> TAKE l \in Leads
    <2> HAVE app[l] \notin {"none", "skipped"}
    <2>1. lead[l] # None
        BY <1>1 DEF RolesKept, TypeOK
    <2>2. Kept(l, lead'[l])
        BY <1>1, <2>1, RolesNext DEF LeadsKept
    <2> QED
        BY <2>2 DEF Kept
<1> QED
    BY <1>1, RolesAreKept, PTL DEF Spec, SettledRolesStay

(* A lead expires after its week, while pending and not applied for, and   *)
(* only a verified posting brings it back.                                 *)
THEOREM ExpiredLeadsComeBackVerified == Spec => ExpiredLeads
<1>1. ASSUME RolesKept, [Next]_vars
      PROVE  \A l \in Leads : lead[l] # None /\ lead'[l].state # lead[l].state =>
               /\ lead'[l].state = "expired" =>
                    lead[l].state = "pending" /\ lead[l].old /\ app[l] = "none"
               /\ lead[l].state = "expired" => lead'[l].state = "ready"
    <2> TAKE l \in Leads
    <2> HAVE lead[l] # None /\ lead'[l].state # lead[l].state
    <2>1. Kept(l, lead'[l])
        BY <1>1, RolesNext DEF LeadsKept
    <2> QED
        BY <2>1 DEF Kept
<1> QED
    BY <1>1, RolesAreKept, PTL DEF Spec, ExpiredLeads

(* Once a receipt ends on the employer's posting, no call stores that      *)
(* posting as one more lead that could be applied for again.               *)
THEOREM ReceiptStandsForItsRole == Spec => ReceiptCoversRole
<1>1. ASSUME RolesKept, [Next]_vars
      PROVE  \A r \in Roles :
               Board(r) \in receipts /\ lead[Official(r)] = None => lead'[Official(r)] = None
    <2> TAKE r \in Roles
    <2> HAVE Board(r) \in receipts /\ lead[Official(r)] = None
    <2>1. Official(r) \in Leads /\ RoleOf(Official(r)) = r
        BY LeadNames
    <2> QED
        BY <1>1, <2>1, RolesNext DEF LeadsKept, Added
<1> QED
    BY <1>1, RolesAreKept, PTL DEF Spec, ReceiptCoversRole
=============================================================================
