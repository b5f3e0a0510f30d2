---------------------------- MODULE SentHistory ----------------------------
(***************************************************************************)
(* What became of applications that were sent: the owner's reports of      *)
(* sends through LinkedIn (src/external-submissions.js), the employer's    *)
(* answers and the closing of applications nobody answers (src/service.js, *)
(* src/application-lifecycle.js).  One applicant's records; every call is  *)
(* one store transaction, but for the closing, which looks at a snapshot   *)
(* and reads the clock before its own.                                     *)
(*                                                                         *)
(* Every opening here has the same company and title, so that only its     *)
(* link tells it from another.  Left out: what calls answer, historical    *)
(* answers and audit entries, simulated receipts, records that are refused *)
(* because the same key came with other contents, and adding a role the    *)
(* system knows (ChromeQueue).                                             *)
(***************************************************************************)
EXTENDS Naturals, Sequences, FiniteSets, FiniteSetsExt

CONSTANTS
    Roles,        \* openings, by the identity of their links
    Records,      \* recordKeys of LinkedIn confirmations
    Statuses,     \* employer statuses that are recorded
    NoResponse,   \* NO_RESPONSE_MS, in days
    MaxDay,       \* bounds the calendar
    MaxMails,     \* bounds the employer evidence recorded
    None

ASSUME SentHistoryAssumption ==
    /\ {NoResponse, MaxDay, MaxMails} \subseteq Nat
    /\ Statuses \subseteq {"application_received", "under_review", "interview", "rejected"}
    /\ None \notin Roles \cup Statuses \cup Nat

VARIABLES
    now,       \* the day
    opening,   \* the opportunities, in order: the link of each, or None
    app,       \* the applications, in order
    waiting,   \* times that reconciliations under way have read
    mails,     \* employer evidence recorded so far
    heard      \* history: <<application, day>> of every meaningful reply recorded

vars == <<now, opening, app, waiting, mails, heard>>

Days == 0..MaxDay

Proof == [url : Roles \cup {None}, date : Days, pending : BOOLEAN]

Mails == [status : Statuses, at : Days]

ASSUME NoneAssumption == None \notin Proof \cup Mails

Application ==
    [opp       : Nat,
     imported  : BOOLEAN,                          \* executionMode is external_owner
     status    : {"pending", "submitted", "owner_reported_submitted",
                  "external_identity_pending", "external_duplicate"},
     receipt   : Days \cup {None},                 \* receipt.submittedAt
     owner     : Days \cup {None},                 \* ownerSubmission.submissionDate
     evidence  : [Records -> Proof \cup {None}],   \* ownerSubmissionEvidence
     employer  : Mails \cup {None},
     followup  : Days \cup {None},                 \* lastEmployerFollowupAt
     lifecycle : {"none", "auto_closed", "reopened"}]

NewApplication(o) ==
    [opp |-> o, imported |-> FALSE, status |-> "pending", receipt |-> None, owner |-> None,
     evidence |-> [k \in Records |-> None], employer |-> None, followup |-> None,
     lifecycle |-> "none"]

Init ==
    /\ now = 0
    /\ opening = <<>> /\ app = <<>>
    /\ waiting = {}
    /\ mails = 0 /\ heard = {}

-----------------------------------------------------------------------------
(* What was sent, and when *)

Openings == DOMAIN opening
Apps == DOMAIN app

OpeningsOf(r) == {o \in Openings : opening[o] = r}

(* A receipt, or a report whose identity is settled: one that is not is    *)
(* never an application's ownerSubmission.                                 *)
SentAt(a) == IF a.receipt # None THEN a.receipt ELSE a.owner

IsSent(i) == SentAt(app[i]) # None

-----------------------------------------------------------------------------
(* The queue, as far as this history sees it *)

QueueAdds(r) ==
    /\ OpeningsOf(r) = {}
    /\ opening' = Append(opening, r)
    /\ app' = Append(app, NewApplication(Len(opening) + 1))
    /\ UNCHANGED <<now, waiting, mails, heard>>

(* Claimed, reviewed, submitted and confirmed: the queue does not ask      *)
(* whether the owner has reported the role as sent.                        *)
QueueSubmits(i) ==
    /\ app[i].status = "pending"
    /\ app' = [app EXCEPT ![i].status = "submitted", ![i].receipt = now]
    /\ UNCHANGED <<now, opening, waiting, mails, heard>>

-----------------------------------------------------------------------------
(* ExternalSubmissions.record *)

HasRecord(k) == {i \in Apps : app[i].evidence[k] # None}

(* Sent history first, else with a link whatever application there is. *)
Matched(strong, candidates) ==
    LET apps == {i \in Apps : app[i].opp \in candidates}
        received == {i \in apps : app[i].receipt # None}
        reported == {i \in apps : app[i].owner # None}
    IN  IF received # {} THEN {Min(received)}
        ELSE IF reported # {} THEN {Min(reported)}
        ELSE IF strong # {} /\ apps # {} THEN {Min(apps)}
        ELSE {}

WithEvidence(a, k, proof) ==
    [a EXCEPT !.evidence[k] = proof,
              !.owner = IF ~proof.pending /\ a.receipt = None /\ @ = None
                        THEN proof.date ELSE @]

(* A confirmation that is new: with a link it belongs to the opening of    *)
(* that link; without one its identity is open as soon as another opening  *)
(* of that company and title is known.                                     *)
RecordSend(k, url, date) ==
    /\ HasRecord(k) = {}
    /\ LET strong == IF url = None THEN {} ELSE OpeningsOf(url)
           similar == IF url = None THEN Openings ELSE {}
           pending == strong = {} /\ similar # {}
           proof == [url |-> url, date |-> date, pending |-> pending]
           matched == Matched(strong, IF strong # {} THEN strong ELSE similar)
           o == IF strong # {} THEN Min(strong) ELSE Len(opening) + 1
           imported == [NewApplication(o) EXCEPT !.imported = TRUE,
               !.status = IF pending THEN "external_identity_pending"
                          ELSE "owner_reported_submitted"]
       IN  IF matched # {}
           THEN /\ app' = [i \in Apps |-> IF i \in matched
                                          THEN WithEvidence(app[i], k, proof) ELSE app[i]]
                /\ UNCHANGED opening
           ELSE /\ app' = Append(app, WithEvidence(imported, k, proof))
                /\ opening' = IF strong # {} THEN opening ELSE Append(opening, url)
    /\ UNCHANGED <<now, waiting, mails, heard>>

(* Defect: whatever holds the record is taken for an imported one. *)
MovesAnything(i, r) == TRUE

(* Evidence held by an application of the queue stays there; the link must *)
(* be that application's.                                                  *)
Moves(i, r) == app[i].imported

(* Defect: only receipts are looked for. *)
ReceivedBefore(i, r) ==
    {j \in Apps \ {i} : app[j].opp \in OpeningsOf(r) /\ app[j].receipt # None}

(* Another application for the opening that was sent. *)
SentBefore(i, r) == {j \in Apps \ {i} : app[j].opp \in OpeningsOf(r) /\ IsSent(j)}

(* The link of a confirmation arrives later: an imported application joins *)
(* one already sent for that opening, else becomes its application.        *)
ResolveIdentity(k, r) ==
    /\ HasRecord(k) # {}
    /\ LET i == Min(HasRecord(k))
           proof == [app[i].evidence[k] EXCEPT !.url = r, !.pending = FALSE]
           resolved == [app[i] EXCEPT !.evidence[k] = proof]
           existing == SentBefore(i, r)
           jobs == OpeningsOf(r)
       IN  /\ app[i].evidence[k].url = None
           /\ Moves(i, r) \/ opening[app[i].opp] = r
           /\ IF ~Moves(i, r)
              THEN app' = [app EXCEPT ![i] = resolved] /\ UNCHANGED opening
              ELSE IF existing # {}
              THEN /\ app' = [app EXCEPT
                        ![i] = [resolved EXCEPT !.owner = None, !.status = "external_duplicate"],
                        ![Min(existing)] = WithEvidence(@, k, proof)]
                   /\ UNCHANGED opening
              ELSE /\ app' = [app EXCEPT ![i] =
                        [resolved EXCEPT !.owner = proof.date, !.status = "owner_reported_submitted",
                                         !.opp = IF jobs # {} THEN Min(jobs) ELSE @]]
                   /\ opening' = IF jobs # {} THEN opening ELSE [opening EXCEPT ![app[i].opp] = r]
    /\ UNCHANGED <<now, waiting, mails, heard>>

-----------------------------------------------------------------------------
(* Answers of employers *)

Meaningful == Statuses \ {"application_received"}
Awaiting == {"under_review", "application_received"}

Reopened(lifecycle) == IF lifecycle = "auto_closed" THEN "reopened" ELSE lifecycle

(* Defect: mails are taken in the order they come in. *)
InAnyOrder(i, at) == TRUE

NotOlder(i, at) == app[i].employer # None => app[i].employer.at <= at

(* recordEmployerStatus: a mail is named by what it says and when; one     *)
(* older than the last recorded is refused.                                *)
RecordEmployerStatus(i, status, at) ==
    LET mail == [status |-> status, at |-> at]
    IN  /\ mails < MaxMails
        /\ app[i].employer # mail
        /\ NotOlder(i, at)
        /\ app' = [app EXCEPT ![i] =
             IF status \in Meaningful
             THEN [@ EXCEPT !.employer = mail, !.followup = at, !.lifecycle = Reopened(app[i].lifecycle)]
             ELSE [@ EXCEPT !.employer = mail]]
        /\ heard' = IF status \in Meaningful THEN heard \cup {<<i, at>>} ELSE heard
        /\ mails' = mails + 1
        /\ UNCHANGED <<now, opening, waiting>>

(* inactivityDeadline: None for an application that was not sent, or whose *)
(* employer's last word was an answer.                                     *)
InactivityDeadline(a) ==
    IF \/ a.status \notin {"submitted", "owner_reported_submitted"}
       \/ SentAt(a) = None
       \/ a.employer # None /\ a.employer.status \notin Awaiting
    THEN None
    ELSE Max({SentAt(a)} \cup ({a.followup} \ {None})) + NoResponse

Eligible(a, at) ==
    /\ a.lifecycle # "auto_closed"
    /\ InactivityDeadline(a) # None
    /\ at > InactivityDeadline(a)

(* reconcileInactivity, at startup, each minute and before the log is      *)
(* read: the time is read, and only a snapshot with something to close     *)
(* leads to a transaction, which looks again.                              *)
ReconcileReads ==
    /\ \E i \in Apps : Eligible(app[i], now)
    /\ waiting' = waiting \cup {now}
    /\ UNCHANGED <<now, opening, app, mails, heard>>

ReconcileInactivity(at) ==
    /\ waiting' = waiting \ {at}
    /\ app' = [i \in Apps |-> IF Eligible(app[i], at)
                              THEN [app[i] EXCEPT !.lifecycle = "auto_closed"] ELSE app[i]]
    /\ UNCHANGED <<now, opening, mails, heard>>

NextDay ==
    /\ now < MaxDay
    /\ now' = now + 1
    /\ UNCHANGED <<opening, app, waiting, mails, heard>>

-----------------------------------------------------------------------------
Next ==
    \/ \E r \in Roles : QueueAdds(r)
    \/ \E i \in Apps : QueueSubmits(i)
    \/ \E k \in Records, url \in Roles \cup {None}, date \in 0..now : RecordSend(k, url, date)
    \/ \E k \in Records, r \in Roles : ResolveIdentity(k, r)
    \/ \E i \in Apps, status \in Statuses, at \in 0..now : RecordEmployerStatus(i, status, at)
    \/ ReconcileReads
    \/ \E at \in waiting : ReconcileInactivity(at)
    \/ NextDay

Spec == Init /\ [][Next]_vars

-----------------------------------------------------------------------------
TypeOK ==
    /\ now \in Days
    /\ opening \in Seq(Roles \cup {None})
    /\ app \in Seq(Application)
    /\ \A i \in Apps : app[i].opp \in Openings
    /\ waiting \subseteq Days
    /\ mails \in 0..MaxMails
    /\ heard \subseteq Apps \X Days

(* An application that counts as closed for silence has been silent: no    *)
(* meaningful reply to it, whenever it was recorded and whatever snapshot  *)
(* and clock the closing went by, is younger than the waiting period.      *)
ClosedWereSilent ==
    \A h \in heard : app[h[1]].lifecycle = "auto_closed" => h[2] + NoResponse < now

Counted(r) == {i \in Apps : IsSent(i) /\ opening[app[i].opp] = r}

Receipts == {i \in Apps : app[i].receipt # None}

(* The owner's reports count a role once: only a further submission by the *)
(* queue makes a role count that counted before.                           *)
ReportsCountOnce ==
    [][\A r \in Roles : Cardinality(Counted(r)') > Cardinality(Counted(r)) =>
           Counted(r) = {} \/ Receipts' # Receipts]_vars

(* Reports never undo what the queue did: an application it made keeps its *)
(* receipt, its status and the first report it was given.                  *)
QueueHistoryKept ==
    [][\A i \in Apps : ~app[i].imported =>
           /\ IsSent(i) /\ Receipts' = Receipts => SentAt(app[i]') = SentAt(app[i])
           /\ app[i].status = "submitted" => app[i]'.status = "submitted"
           /\ ~app[i]'.imported /\ app[i]'.status # "external_duplicate"]_vars

(* "Never replace its original send": a role reported or received as sent  *)
(* stays one.                                                              *)
ReportedSendStays ==
    [][\A r \in Roles : Counted(r) # {} => Counted(r)' # {}]_vars
=============================================================================
