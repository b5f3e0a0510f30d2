--------------------------- MODULE DiscoveredRoles ---------------------------
(***************************************************************************)
(* The stored leads of one profile and the calls that write them: a scan   *)
(* that saves what it found (src/discovery/service.js), the agent's        *)
(* verdict on one listing (considerCandidate), the owner's own links       *)
(* (src/service.js) and the queue that turns a lead into an application.   *)
(*                                                                         *)
(* A scan decides from the snapshot it took at its start, asks providers   *)
(* and employers, and saves minutes later; a verdict waits for the         *)
(* employer's page between its check and its save.  Only the transaction   *)
(* of addOpportunity sees the leads as they are by then.                   *)
(*                                                                         *)
(* The same job can be stored under a board's link and under the           *)
(* employer's official one; nothing but a redirect, a provider's hint or a *)
(* receipt relates the two.                                                *)
(*                                                                         *)
(* Left out: scores and preferences (a choice of the step that applies     *)
(* them), request budgets (ScanRequests), and the back-off that delays the *)
(* next look at a lead seen again: a listing may always go unseen.         *)
(***************************************************************************)
EXTENDS Naturals, FiniteSets

CONSTANTS
    Roles,     \* jobs some employer may have posted
    Kinds,     \* the kinds of listing that exist, of AllKinds
    Scans,     \* scans that may be under way at once
    Reviews,   \* verdicts that may be under way at once
    Texts,     \* bound: how often an employer may rewrite a posting, plus one
    MaxCalls,  \* bound: how many scans, verdicts and posted leads there are
    Legacy,    \* whether an earlier release left a closed lead behind
    None

(* "feed" rows come from the employer's own board, "keyed" ones from a     *)
(* provider that names the employer's link, "aggregator" ones carry a      *)
(* board's link that a redirect may turn into the employer's.              *)
AllKinds == {"feed", "aggregator", "keyed"}

ASSUME DiscoveryAssumption ==
    /\ Kinds \subseteq AllKinds
    /\ Texts \in Nat \ {0}
    /\ MaxCalls \in Nat
    /\ Legacy \in BOOLEAN

Versions == 1..Texts

(* A lead is stored under an official identity or under a board's link. *)
Identities == {"official", "board"}
Leads == Roles \X Identities
RoleOf(l) == l[1]

(* A listing names its role by the employer's link or by the board's own. *)
Listings == [role : Roles, kind : Kinds]
Names(x) == <<x.role, IF x.kind \in {"feed", "keyed"} THEN "official" ELSE "board">>

VARIABLES
    text,       \* the version of each posting its employer shows
    lead,       \* the opportunities collection
    first,      \* which lead of a role was stored first
    app,        \* the application of each lead
    receipts,   \* board leads whose receipt ends on the official posting
    scan,       \* the scans under way
    review,     \* the verdicts under way
    fetched,    \* history: the official postings the server itself has read
    calls       \* how many calls have begun

vars == <<text, lead, first, app, receipts, scan, review, fetched, calls>>

-----------------------------------------------------------------------------
(* Records *)

NoFit == [verdict |-> "none", text |-> 0]
Fits == {NoFit} \cup [verdict : {"relevant", "irrelevant"}, text : Versions]

(* "closed" is a lead an earlier release closed for a reason that may pass. *)
States == {"none", "pending", "ready", "expired", "closed"}

LeadRecords ==
    [state : States, pending : BOOLEAN, verified : BOOLEAN, text : Versions, fit : Fits, old : BOOLEAN]

Applications == {"none", "live", "skipped", "uncertain", "submitted"}

(* What a call is about to save. *)
Candidates ==
    [lead : Leads, verified : BOOLEAN, pending : BOOLEAN, text : Versions, fit : Fits,
     serverVerified : BOOLEAN, reviewed : BOOLEAN]

Candidate(l, verified, v) ==
    [lead |-> l, verified |-> verified, pending |-> ~verified, text |-> v, fit |-> NoFit,
     serverVerified |-> TRUE, reviewed |-> FALSE]

Reviewed(l, verified, v, verdict, serverVerified) ==
    [lead |-> l, verified |-> verified, pending |-> ~verified, text |-> v,
     fit |-> [verdict |-> verdict, text |-> v],
     serverVerified |-> serverVerified, reviewed |-> TRUE]

ASSUME NoneAssumption == None \notin Roles \cup Identities \cup LeadRecords

ScanCalls ==
    [pc : {"idle", "expiring", "resolving", "saving"}, listing : Listings \cup {None},
     known : SUBSET Leads, candidate : Candidates \cup {None}]

ReviewCalls ==
    [pc : {"idle", "resolving", "saving", "applying"}, listing : Listings \cup {None},
     text : Versions, candidate : Candidates \cup {None}]

NoScan == [pc |-> "idle", listing |-> None, known |-> {}, candidate |-> None]
NoReview == [pc |-> "idle", listing |-> None, text |-> 1, candidate |-> None]

-----------------------------------------------------------------------------
(* What is known of a role *)

(* No receipt, no unknown outcome: an earlier application changes nothing. *)
CleanSkips(l) == app[l] \in {"none", "skipped"}

(* The links of stored leads that count as handled, unresolved ones and    *)
(* closed ones that may reopen excepted, with the links receipts end on.   *)
Known(withIrrelevant) ==
    {l \in Leads :
        /\ lead[l] # None
        /\ \/ app[l] # "none"
           \/ lead[l].fit.verdict = "irrelevant" /\ withIrrelevant
           \/ lead[l].fit.verdict # "irrelevant" /\ ~lead[l].pending /\ lead[l].verified
        /\ ~(lead[l].state = "closed" /\ CleanSkips(l))}
    \cup {<<RoleOf(l), "official">> : l \in receipts}

UnchangedIrrelevant(l, v) ==
    lead[l] # None /\ lead[l].fit = [verdict |-> "irrelevant", text |-> v]

(* leadRetryDecision: an unresolved lead a week old is closed rather than   *)
(* looked up again, unless the employer's own feed lists it.               *)
PendingExpired(x) ==
    /\ x.kind # "feed"
    /\ lead[Names(x)] # None
    /\ \/ lead[Names(x)].state = "expired"
       \/ lead[Names(x)].pending /\ lead[Names(x)].old

-----------------------------------------------------------------------------
(* addOpportunity: one transaction *)

Official(r) == <<r, "official">>
Board(r) == <<r, "board">>

(* Defect: receipts do not relate leads. *)
MatchingByLink(c) == {l \in Leads : lead[l] # None /\ l = c.lead}

(* The stored leads a candidate is the same role as: by link, or because   *)
(* an application's receipt ends on the candidate's posting.               *)
Matching(c) ==
    {l \in Leads : lead[l] # None /\ (l = c.lead \/ (l \in receipts /\ c.lead = Official(RoleOf(l))))}

(* The collection is searched in the order it was filled. *)
Existing(c) ==
    IF Cardinality(Matching(c)) = 2 THEN <<RoleOf(c.lead), first[RoleOf(c.lead)]>>
    ELSE CHOOSE l \in Matching(c) : TRUE

SameOfficial(l, c) == l = c.lead /\ l = Official(RoleOf(l))

(* Defect: anybody's candidate resolves a pending lead. *)
PromotesForAnyone(l, c) ==
    /\ c.verified
    /\ SameOfficial(l, c)
    /\ \/ lead[l].pending /\ app[l] = "none"
       \/ lead[l].state \in {"closed", "expired"} /\ CleanSkips(l)

(* A server-verified posting resolves a pending lead without an            *)
(* application, or reopens a closed or expired one.                        *)
Promotes(l, c) ==
    /\ c.serverVerified /\ c.verified
    /\ SameOfficial(l, c)
    /\ \/ lead[l].pending /\ app[l] = "none"
       \/ lead[l].state \in {"closed", "expired"} /\ CleanSkips(l)

Promoted(old, c) ==
    [old EXCEPT !.state = "ready", !.pending = FALSE, !.verified = TRUE, !.text = c.text,
                !.old = FALSE]

(* Defect: a verdict is stored whatever has been applied for. *)
RecordsAnyVerdict(l, c) == c.reviewed

(* A verdict counts until the role is applied for. *)
RecordsVerdict(l, c) == c.reviewed /\ app[l] = "none"

WithVerdict(l, old, c) ==
    IF c.serverVerified /\ c.verified /\ SameOfficial(l, c)
    THEN [old EXCEPT !.state = "ready", !.pending = FALSE, !.verified = TRUE,
                     !.text = c.text, !.fit = c.fit]
    ELSE [old EXCEPT !.fit = c.fit]

(* Seen again unresolved, a lead only waits longer for its next look. *)
Merged(l, c) ==
    LET seen == IF Promotes(l, c) THEN Promoted(lead[l], c) ELSE lead[l]
    IN  IF RecordsVerdict(l, c) THEN WithVerdict(l, seen, c) ELSE seen

NewLead(c) ==
    [state |-> IF c.pending THEN "pending"
               ELSE IF c.serverVerified /\ c.verified THEN "ready" ELSE "none",
     pending |-> c.pending, verified |-> c.verified, text |-> c.text, fit |-> c.fit,
     old |-> FALSE]

AddOpportunity(c) ==
    IF Matching(c) # {}
    THEN /\ lead' = [lead EXCEPT ![Existing(c)] = Merged(Existing(c), c)]
         /\ UNCHANGED first
    ELSE /\ lead' = [lead EXCEPT ![c.lead] = NewLead(c)]
         /\ first' = [first EXCEPT ![RoleOf(c.lead)] = IF @ = None THEN c.lead[2] ELSE @]

(* The opportunity it returns. *)
Stored(c) == IF Matching(c) # {} THEN Existing(c) ELSE c.lead

-----------------------------------------------------------------------------
(* Scans *)

(* The snapshot is taken and the sources answer; what the snapshot knows   *)
(* is dropped.  A scan's listings share its snapshot and little else, so   *)
(* one of them is followed; others are other scans.                        *)
ScanBegins(s) ==
    /\ scan[s].pc = "idle"
    /\ \E x \in Listings :
        /\ Names(x) \notin Known(TRUE)
        /\ scan' = [scan EXCEPT ![s] =
             [NoScan EXCEPT !.pc = IF PendingExpired(x) THEN "expiring" ELSE "resolving",
                            !.listing = x, !.known = Known(TRUE)]]
    /\ calls < MaxCalls /\ calls' = calls + 1
    /\ UNCHANGED <<text, lead, first, app, receipts, review, fetched>>

(* Defect: the lead is closed as the snapshot saw it. *)
ExpireAsSeen(l) == lead' = [lead EXCEPT ![l].state = "expired"]

(* markDiscoveryLeadExpired: only a lead still pending. *)
MarkExpired(l) ==
    IF lead[l].state = "pending" /\ app[l] = "none"
    THEN lead' = [lead EXCEPT ![l].state = "expired"] ELSE UNCHANGED lead

ScanExpires(s) ==
    /\ scan[s].pc = "expiring"
    /\ MarkExpired(Names(scan[s].listing))
    /\ scan' = [scan EXCEPT ![s] = NoScan]
    /\ UNCHANGED <<text, first, app, receipts, review, fetched, calls>>

(* What a listing may become.  An employer's posting that was read is      *)
(* verified unless its link disagrees; a link nobody could follow, or a    *)
(* page that did not answer, leaves what was listed, unverified.           *)
Resolutions(x) ==
    {Candidate(Names(x), FALSE, text[x.role]), Candidate(Official(x.role), TRUE, text[x.role])}

(* The pipeline: redirect, employer's page, scores.  A closed posting, a   *)
(* low score or a full lane drop a listing, and so does finding that it is *)
(* a role the snapshot knows.                                              *)
ScanResolves(s) ==
    /\ scan[s].pc = "resolving"
    /\ \E c \in Resolutions(scan[s].listing) :
        /\ \/ scan' = [scan EXCEPT ![s] = NoScan]
           \/ /\ c.lead \notin scan[s].known
              /\ scan' = [scan EXCEPT ![s] = [NoScan EXCEPT !.pc = "saving", !.candidate = c]]
        /\ fetched' = IF c.verified THEN fetched \cup {<<RoleOf(c.lead), c.text>>} ELSE fetched
    /\ UNCHANGED <<text, lead, first, app, receipts, review, calls>>

ScanSaves(s) ==
    /\ scan[s].pc = "saving"
    /\ AddOpportunity(scan[s].candidate)
    /\ scan' = [scan EXCEPT ![s] = NoScan]
    /\ UNCHANGED <<text, app, receipts, review, fetched, calls>>

-----------------------------------------------------------------------------
(* Verdicts: considerCandidate *)

(* The agent read some version of the listing; what is known is refused. *)
ReviewBegins(w) ==
    /\ review[w].pc = "idle"
    /\ \E x \in Listings, v \in Versions, verdict \in {"relevant", "irrelevant"} :
        /\ v <= text[x.role]
        /\ Names(x) \notin Known(FALSE) /\ ~UnchangedIrrelevant(Names(x), v)
        /\ review' = [review EXCEPT ![w] =
             IF verdict = "irrelevant"
             THEN [NoReview EXCEPT !.pc = "saving",
                                   !.candidate = Reviewed(Names(x), FALSE, v, verdict, FALSE)]
             ELSE [NoReview EXCEPT !.pc = "resolving", !.listing = x, !.text = v]]
    /\ calls < MaxCalls /\ calls' = calls + 1
    /\ UNCHANGED <<text, lead, first, app, receipts, scan, fetched>>

(* No employer's link: the verdict is kept on the listing.  An employer's  *)
(* page that is gone, or no longer says what was read, ends the call.      *)
ReviewResolves(w) ==
    /\ review[w].pc = "resolving"
    /\ LET x == review[w].listing
           v == review[w].text
           Saving(c) == [NoReview EXCEPT !.pc = "saving", !.candidate = c]
       IN  \/ /\ Names(x) = Board(x.role)
              /\ review' = [review EXCEPT ![w] = Saving(Reviewed(Names(x), FALSE, v, "relevant", FALSE))]
              /\ UNCHANGED fetched
           \/ /\ fetched' = fetched \cup {<<x.role, text[x.role]>>}
              /\ text[x.role] = v
              /\ review' = [review EXCEPT ![w] = Saving(Reviewed(Official(x.role), TRUE, v, "relevant", TRUE))]
           \/ review' = [review EXCEPT ![w] = NoReview] /\ UNCHANGED fetched
    /\ UNCHANGED <<text, lead, first, app, receipts, scan, calls>>

(* A verified role is applied for at once, unless the caller did not ask. *)
ReviewSaves(w) ==
    /\ review[w].pc = "saving"
    /\ LET c == review[w].candidate
       IN  /\ AddOpportunity(c)
           /\ \/ review' = [review EXCEPT ![w] = NoReview]
              \/ /\ c.serverVerified
                 /\ review' = [review EXCEPT ![w] =
                      [NoReview EXCEPT !.pc = "applying", !.candidate = [c EXCEPT !.lead = Stored(c)]]]
    /\ UNCHANGED <<text, app, receipts, scan, fetched, calls>>

(* The queue keeps one application per lead. *)
Apply(l) == app' = [app EXCEPT ![l] = IF @ = "none" THEN "live" ELSE @]

ReviewApplies(w) ==
    /\ review[w].pc = "applying"
    /\ Apply(review[w].candidate.lead)
    /\ review' = [review EXCEPT ![w] = NoReview]
    /\ UNCHANGED <<text, lead, first, receipts, scan, fetched, calls>>

-----------------------------------------------------------------------------
(* The owner, the queue and the world *)

(* A posted lead, a direct application's or a queued link: the caller's    *)
(* word for everything, the server's for nothing.                          *)
PostLead ==
    /\ \E l \in Leads, pending, verified \in BOOLEAN :
        AddOpportunity([Candidate(l, verified, text[RoleOf(l)]) EXCEPT
                          !.pending = pending, !.serverVerified = FALSE])
    /\ calls < MaxCalls /\ calls' = calls + 1
    /\ UNCHANGED <<text, app, receipts, scan, review, fetched>>

OwnerApplies ==
    /\ \E l \in Leads : lead[l] # None /\ app[l] = "none" /\ Apply(l)
    /\ UNCHANGED <<text, lead, first, receipts, scan, review, fetched, calls>>

(* An application ends; a board's redirect may have led its form to the    *)
(* employer's own posting, which the receipt then names.                   *)
Finish ==
    /\ \E l \in Leads, outcome \in {"skipped", "uncertain", "submitted"} :
        /\ app[l] = "live" \/ (app[l] = "uncertain" /\ outcome # "uncertain")
        /\ app' = [app EXCEPT ![l] = outcome]
        /\ \/ UNCHANGED receipts
           \/ /\ outcome = "submitted" /\ l = Board(RoleOf(l))
              /\ receipts' = receipts \cup {l}
    /\ UNCHANGED <<text, lead, first, scan, review, fetched, calls>>

EditPosting ==
    /\ \E r \in Roles : text[r] < Texts /\ text' = [text EXCEPT ![r] = @ + 1]
    /\ UNCHANGED <<lead, first, app, receipts, scan, review, fetched, calls>>

(* A week passes for an unresolved lead. *)
LeadAges ==
    /\ \E l \in Leads :
        /\ lead[l] # None /\ lead[l].pending /\ ~lead[l].old
        /\ lead' = [lead EXCEPT ![l].old = TRUE]
    /\ UNCHANGED <<text, first, app, receipts, scan, review, fetched, calls>>

Next ==
    \/ \E s \in Scans : ScanBegins(s) \/ ScanExpires(s) \/ ScanResolves(s) \/ ScanSaves(s)
    \/ \E w \in Reviews : ReviewBegins(w) \/ ReviewResolves(w) \/ ReviewSaves(w) \/ ReviewApplies(w)
    \/ PostLead \/ OwnerApplies \/ Finish \/ EditPosting \/ LeadAges

(* An earlier release closed a lead whose application was skipped. *)
ClosedLead ==
    [state |-> "closed", pending |-> FALSE, verified |-> TRUE, text |-> 1, fit |-> NoFit,
     old |-> FALSE]

Init ==
    /\ text = [r \in Roles |-> 1]
    /\ lead \in [Leads -> {None} \cup (IF Legacy THEN {ClosedLead} ELSE {})]
    /\ \A r \in Roles : lead[Board(r)] = None
    /\ first = [r \in Roles |-> IF lead[Official(r)] = None THEN None ELSE "official"]
    /\ app = [l \in Leads |-> IF lead[l] = None THEN "none" ELSE "skipped"]
    /\ receipts = {}
    /\ scan = [s \in Scans |-> NoScan]
    /\ review = [w \in Reviews |-> NoReview]
    /\ fetched = {}
    /\ calls = 0

Spec == Init /\ [][Next]_vars

-----------------------------------------------------------------------------
(* Properties *)

(* Every lead is either absent or a record of the collection, an           *)
(* application belongs to a stored lead, and calls hold what they should.  *)
TypeOK ==
    /\ text \in [Roles -> Versions]
    /\ lead \in [Leads -> LeadRecords \cup {None}]
    /\ first \in [Roles -> Identities \cup {None}]
    /\ \A r \in Roles :
        IF first[r] = None THEN \A i \in Identities : lead[<<r, i>>] = None
        ELSE lead[<<r, first[r]>>] # None
    /\ app \in [Leads -> Applications]
    /\ \A l \in Leads : app[l] # "none" => lead[l] # None
    /\ receipts \subseteq {l \in Leads : app[l] = "submitted"}
    /\ scan \in [Scans -> ScanCalls]
    /\ review \in [Reviews -> ReviewCalls]
    /\ fetched \subseteq Roles \X Versions
    /\ calls \in 0..MaxCalls

(* A lead is ready only under the employer's link and with words the       *)
(* server itself read there: neither a caller's flags nor a board's text   *)
(* gets there, however scans, verdicts and owner interleave.               *)
(* (src/service.js addOpportunity)                                         *)
ReadyWasVerified ==
    \A l \in Leads :
        lead[l] # None /\ lead[l].state = "ready" =>
            /\ l = Official(RoleOf(l)) /\ lead[l].verified /\ ~lead[l].pending
            /\ <<RoleOf(l), lead[l].text>> \in fetched

(* What is being applied for, was sent or may have been sent keeps its     *)
(* words, its verdict and its state, whatever a scan or verdict that began *)
(* before it brings back.                                                  *)
SettledRolesStay ==
    [][\A l \in Leads :
        app[l] \notin {"none", "skipped"} =>
            /\ lead'[l].text = lead[l].text /\ lead'[l].fit = lead[l].fit
            /\ lead'[l].state = lead[l].state]_vars

(* A lead expires after its week, while pending and not applied for, and   *)
(* only a verified posting brings it back: a scan that decided on an old   *)
(* snapshot does not expire what another call resolved meanwhile.          *)
ExpiredLeads ==
    [][\A l \in Leads : lead[l] # None /\ lead'[l].state # lead[l].state =>
        /\ lead'[l].state = "expired" => lead[l].state = "pending" /\ lead[l].old /\ app[l] = "none"
        /\ lead[l].state = "expired" => lead'[l].state = "ready"]_vars

(* Once a receipt ends on the employer's posting, the board's lead stands  *)
(* for the role: no call stores the official posting as one more lead that *)
(* could be applied for again.                                             *)
ReceiptCoversRole ==
    [][\A r \in Roles :
        Board(r) \in receipts /\ lead[Official(r)] = None => lead'[Official(r)] = None]_vars
=============================================================================
