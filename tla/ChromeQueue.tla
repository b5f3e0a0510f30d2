---------------------------- MODULE ChromeQueue ----------------------------
(***************************************************************************)
(* The passive application queue of one applicant profile                  *)
(* (src/src/chrome-queue.js).  Chat sessions claim one queued role at a    *)
(* time, review the live form, record one final attempt before pressing    *)
(* Submit, and later record what the employer answered.  The server never  *)
(* presses Submit itself, so what it may do wrong is to let a session      *)
(* press it twice for one role, or while nobody knows what became of the   *)
(* previous press.                                                         *)
(*                                                                         *)
(* One element of Apps stands for one opportunity of the profile together  *)
(* with its application, if there is one.  A session is the pair of chat   *)
(* session id and authenticated actor that every call is checked against.  *)
(* Every operation is one store transaction; the four operations that read *)
(* a snapshot, the profile or the employer's page before their transaction *)
(* are split at that await, and their callers hold what they read in       *)
(* "request" until they commit.                                            *)
(***************************************************************************)
EXTENDS Integers, FiniteSets

CONSTANTS
    Apps,           \* roles of the profile
    ServerApps,     \* roles a retired server worker left in the store
    ExternalApps,   \* roles whose LinkedIn send the owner already recorded
    Republished,    \* roles whose stored posting may change; bounds the changes
    Sessions,       \* (chat session, actor) pairs
    Callers,        \* concurrent calls with an await before their transaction
    Attempts,       \* final attempt ids (randomUUID); bounds the attempts made
    Profiles,       \* contents of the applicant's authority (facts, documents)
    Modes,          \* full_time, freelance
    ModeOf,         \* the mode of each role
    GlobalCap,      \* manualDailyCaps: all roles
    ModeCap,        \* manualDailyCaps: roles of one mode
    MaxDay,         \* bounds the calendar
    Previews,       \* who will press Submit; two previews are two fingerprints
    Kinds,          \* what the owner is asked for at a checkpoint
    LegacyAttempt,  \* the attempt id of a retired worker's final action
    None

ASSUME ChromeQueueAssumption ==
    /\ IsFiniteSet(Apps)
    /\ ServerApps \subseteq Apps
    /\ ExternalApps \subseteq Apps \ ServerApps
    /\ Republished \subseteq Apps
    /\ ModeOf \in [Apps -> Modes]
    /\ GlobalCap \in Nat \ {0}
    /\ ModeCap \in [Modes -> Nat \ {0}]
    /\ MaxDay \in Nat
    /\ Previews \subseteq {"agent_submits", "owner_submits"}
    /\ Kinds \subseteq {"captcha", "owner_help"}
    /\ None \notin Apps \cup Sessions \cup Attempts \cup Profiles
    /\ LegacyAttempt \notin Attempts \cup {None}

VARIABLES
    up,         \* the server has recovered its queue and serves calls
    day,        \* calendar day of the caps
    profile,    \* the applicant's current authority
    posting,    \* the stored opportunity of each role
    app,        \* the application record of each role
    attempt,    \* the attempts collection
    employer,   \* what the employer did with each attempt (not visible to the server)
    request     \* what each caller read before its transaction

vars == <<up, day, profile, posting, app, attempt, employer, request>>

----------------------------------------------------------------------------
(* Records *)

Terminal == {"submitted", "owner_reported_submitted", "skipped", "rejected"}
ServerRunning == {"queued", "claimed", "submitting"}
Submitting == {"submission_started", "submission_unverified"}
Statuses == Terminal \cup ServerRunning \cup Submitting
    \cup {"absent", "pending", "in_progress", "waiting_owner", "waiting_confirmation"}

Postings == [requested : BOOLEAN, open : BOOLEAN]

\* The review binds the preview, the authority of the profile that was read and
\* the stored posting; "fresh" is lost ten minutes later.
Reviews == [preview : Previews \cup {"none"}, profile : Profiles \cup {None},
            posting : Postings, by : Sessions \cup {None}, fresh : BOOLEAN]
NoReview == [preview |-> "none", profile |-> None,
             posting |-> [requested |-> FALSE, open |-> TRUE], by |-> None, fresh |-> FALSE]

AttemptIds == Attempts \cup {LegacyAttempt, None}

\* What the store still knows of a retired worker's final action.
LegacyTraces == {"none", "execution_started", "decision_consumed", "outcome_question"}

AppRecords ==
    [status       : Statuses,
     mode         : {"none", "server", "external_owner", "chrome_session"},
     position     : Nat,
     session      : Sessions \cup {None},
     blocker      : {"none", "captcha", "owner_help", "outcome_check"},
     handoff      : SUBSET (Attempts \cup {None}),  \* attempt an owner-submits checkpoint names
     review       : Reviews,
     finalAction  : Attempts \cup {None},
     finalActions : SUBSET (Attempts \cup {None}),  \* archived attempts
     hold         : BOOLEAN,                \* legacyOutcomeHold
     receipt      : AttemptIds,
     ownerReport  : {"none", "linkedin", "browser"},  \* ownerSubmission.channel
     receiptDay   : Nat \cup {-1},          \* receipt.submittedAt
     ownerDay     : Nat \cup {-1},          \* ownerSubmissionSentAt
     trace        : LegacyTraces,
     phase        : {"none", "before_final_action", "final_action_started"},
     legacySent   : BOOLEAN]                \* whether the worker's Submit arrived

NoApplication ==
    [status |-> "absent", mode |-> "none", position |-> 0, session |-> None,
     blocker |-> "none", handoff |-> {}, review |-> NoReview, finalAction |-> None,
     finalActions |-> {}, hold |-> FALSE, receipt |-> None, ownerReport |-> "none",
     receiptDay |-> -1, ownerDay |-> -1, trace |-> "none", phase |-> "none", legacySent |-> FALSE]

AttemptRecords ==
    [app : Apps \cup {None}, by : Sessions \cup {None}, day : Nat,
     status : {"unused", "submitting", "submitted", "not_submitted", "validation_rejected"}]
Unused == [app |-> None, by |-> None, day |-> 0, status |-> "unused"]

NoRequest == [op |-> "none", app |-> None, session |-> None, profile |-> None,
              preview |-> "none", attempt |-> None]
Requests ==
    {NoRequest}
    \cup [op : {"add"}, app : Apps, session : {None},
          profile : {None}, preview : {"none"}, attempt : {None}]
    \cup [op : {"review", "start", "receipt", "ownerReceipt"}, app : Apps, session : Sessions,
          profile : Profiles \cup {None}, preview : Previews \cup {"none"}, attempt : AttemptIds]

----------------------------------------------------------------------------
(* Predicates of the source *)

Owned(a) == app[a].mode = "chrome_session"
Active(a) == Owned(a) /\ app[a].status \notin Terminal \cup {"pending"}

\* Defect: a finished application can still be operated on.
HoldsFinished(a, s) == Owned(a) /\ app[a].session = s

\* #item: the calling session owns a queue application that is not finished.
Holds(a, s) ==
    /\ Owned(a)
    /\ app[a].session = s
    /\ app[a].status \notin Terminal

\* An attempt whose outcome nobody has recorded.
InDoubt(a) == app[a].finalAction # None \/ app[a].hold

RecordedAttempt(a) ==
    IF app[a].finalAction # None THEN app[a].finalAction
    ELSE IF app[a].hold THEN LegacyAttempt ELSE None

Closed(a) == ~posting[a].requested /\ ~posting[a].open

\* Defect: only the recovered phase is consulted.
UncertainByPhase(a) == app[a].phase = "final_action_started"

\* A retired worker may have pressed Submit (the "uncertain" of add).
Uncertain(a) ==
    \/ app[a].phase = "final_action_started"
    \/ app[a].trace \in {"decision_consumed", "outcome_question"}
    \/ app[a].status \in {"claimed", "submitting"}

Adoptable(a) ==
    /\ ~Owned(a)
    /\ app[a].status \notin {"absent", "submitted", "skipped", "rejected"}

\* Defect: archived attempts do not count.
CountedWithoutArchive(b) ==
    \/ app[b].finalAction # None /\ attempt[app[b].finalAction].day = day
    \/ day \in {app[b].receiptDay, app[b].ownerDay}
    \/ app[b].trace = "decision_consumed" /\ day = 0

\* A send or a final action of role b falls on the current day.  The consumed
\* decision of a retired worker is dated on the day of the boot.
CountedToday(b) ==
    \/ \E t \in app[b].finalActions \cup {app[b].finalAction} :
           t # None /\ attempt[t].day = day
    \/ day \in {app[b].receiptDay, app[b].ownerDay}
    \/ app[b].trace = "decision_consumed" /\ day = 0

WithinDailyCaps(a) ==
    LET others == {b \in Apps \ {a} : CountedToday(b)}
    IN  /\ Cardinality(others) < GlobalCap
        /\ Cardinality({b \in others : ModeOf[b] = ModeOf[a]}) < ModeCap[ModeOf[a]]

\* Archived attempts after which no further rejection may be recorded.
RetryLimit == 2

----------------------------------------------------------------------------
(* Initial state: what a store loaded from disk may hold *)

\* A worker that pressed Submit left its status "submitting", the time its
\* execution began, its consumed one-use decision, or a pending question about
\* the outcome.
LegacyRecord(st, tr, ph, sent) ==
    [NoApplication EXCEPT !.mode = "server", !.status = st, !.trace = tr,
                          !.phase = ph, !.legacySent = sent]

WorkerRecords ==
    {LegacyRecord(st, tr, ph, sent) :
        st \in ServerRunning \cup {"waiting_confirmation"}, tr \in LegacyTraces,
        ph \in {"none", "before_final_action", "final_action_started"}, sent \in BOOLEAN}

LegacyApplications ==
    {r \in WorkerRecords :
        /\ r.legacySent => r.trace # "none" \/ r.status = "submitting"
        /\ r.status = "queued" => r.trace = "none"
        /\ r.trace = "outcome_question" => r.status = "waiting_confirmation"
        /\ IF r.status # "waiting_confirmation" THEN r.phase = "none"
           ELSE r.phase = (IF r.trace = "execution_started"
                           THEN "final_action_started" ELSE "before_final_action")}

ExternalApplication ==
    [NoApplication EXCEPT !.mode = "external_owner", !.status = "owner_reported_submitted",
                          !.ownerReport = "linkedin", !.ownerDay = 0]

Stored(a) ==
    IF a \in ServerApps THEN LegacyApplications
    ELSE IF a \in ExternalApps THEN {ExternalApplication} ELSE {NoApplication}

Init ==
    /\ up = FALSE
    /\ day = 0
    /\ profile \in Profiles
    /\ posting = [a \in Apps |-> [requested |-> FALSE, open |-> TRUE]]
    /\ app \in [Apps -> LegacyApplications \cup {ExternalApplication, NoApplication}]
    /\ \A a \in Apps : app[a] \in Stored(a)
    /\ attempt = [t \in Attempts |-> Unused]
    /\ employer = [t \in Attempts |-> "undecided"]
    /\ request = [c \in Callers |-> NoRequest]

----------------------------------------------------------------------------
(* The world outside the queue *)

NextDay ==
    /\ day < MaxDay
    /\ day' = day + 1
    /\ UNCHANGED <<up, profile, posting, app, attempt, employer, request>>

\* The owner edits facts, answers or documents (ProfileStore).
EditProfile ==
    /\ profile' \in Profiles \ {profile}
    /\ UNCHANGED <<up, day, posting, app, attempt, employer, request>>

\* service.addOpportunity stores another content for the opportunity: the
\* owner's own request for a link, or a discovery refresh of the posting.
ChangePosting(a) ==
    /\ a \in Republished
    /\ \/ posting' = [posting EXCEPT ![a].open = ~@]
       \/ ~posting[a].requested /\ posting' = [posting EXCEPT ![a].requested = TRUE]
    /\ UNCHANGED <<up, day, profile, app, attempt, employer, request>>

\* Ten minutes pass after a review.
ReviewExpires(a) ==
    /\ app[a].review.fresh
    /\ app' = [app EXCEPT ![a].review.fresh = FALSE]
    /\ UNCHANGED <<up, day, profile, posting, attempt, employer, request>>

\* The Submit of a started attempt reaches the employer, who accepts or rejects
\* it, at any later time; an attempt that was never pressed stays undecided.
EmployerDecides(t) ==
    /\ attempt[t].status # "unused"
    /\ employer[t] = "undecided"
    /\ employer' \in {[employer EXCEPT ![t] = o] : o \in {"accepted", "rejected"}}
    /\ UNCHANGED <<up, day, profile, posting, app, attempt, request>>

\* The employer's evidence names attempt t of role a as sent.
Accepted(a, t) ==
    IF t = LegacyAttempt THEN app[a].legacySent
    ELSE t \in Attempts /\ employer[t] = "accepted"

Crash ==
    /\ up
    /\ up' = FALSE
    /\ request' = [c \in Callers |-> NoRequest]
    /\ UNCHANGED <<day, profile, posting, app, attempt, employer>>

\* Defect: recovery notes a reason for waiting that no reader knows.
RecoveredWithoutReason(r) ==
    IF r.mode = "chrome_session" /\ r.status = "submission_started"
    THEN [r EXCEPT !.status = "submission_unverified", !.blocker = "restarted"]
    ELSE r

\* recover(): runs once before the server listens.
Recovered(r) ==
    IF r.mode # "chrome_session" /\ r.status \in ServerRunning
    THEN [r EXCEPT !.status = "waiting_confirmation",
                   !.phase = IF r.status = "submitting" \/ r.trace = "execution_started"
                             THEN "final_action_started" ELSE "before_final_action"]
    ELSE IF r.mode = "chrome_session" /\ r.status = "submission_started"
    THEN [r EXCEPT !.status = "submission_unverified", !.blocker = "outcome_check"]
    ELSE r

Recover ==
    /\ ~up
    /\ up' = TRUE
    /\ app' = [a \in Apps |-> Recovered(app[a])]
    /\ UNCHANGED <<day, profile, posting, attempt, employer, request>>

----------------------------------------------------------------------------
(* Calls with an await before their transaction *)

Begin(c, r) ==
    /\ request[c] = NoRequest
    /\ request' = [request EXCEPT ![c] = r]
    /\ UNCHANGED <<up, day, profile, posting, app, attempt, employer>>

End(c) == request' = [request EXCEPT ![c] = NoRequest]

\* A call ends without effect: its transaction refuses it, its evidence or its
\* legal fields do not verify, or the employer's page cannot be read.
Refuse(c) ==
    /\ request[c] # NoRequest
    /\ End(c)
    /\ UNCHANGED <<up, day, profile, posting, app, attempt, employer>>

\* One transaction replaces the application record of a.
Commit(c, a, r) ==
    /\ app' = [app EXCEPT ![a] = r]
    /\ End(c)
    /\ UNCHANGED <<up, day, profile, posting, employer>>

BeginAdd(c, a) ==
    /\ ~Closed(a)
    /\ Begin(c, [NoRequest EXCEPT !.op = "add", !.app = a])

\* The end of the queue: behind every application of the profile, whatever
\* queue it is in.
LastPosition(q) ==
    /\ q \in {0} \cup {app[b].position : b \in Apps}
    /\ \A b \in Apps : app[b].position <= q

\* A new application, or one of another execution mode taken over by the queue;
\* its open confirmations are superseded.
CommitAdd(c) ==
    LET a == request[c].app
    IN  /\ request[c].op = "add"
        /\ \E q \in {0} \cup {app[b].position : b \in Apps} :
              /\ LastPosition(q)
              /\ \/ /\ app[a].mode = "none"
                    /\ Commit(c, a, [NoApplication EXCEPT
                          !.status = "pending", !.mode = "chrome_session", !.position = q + 1])
                 \/ /\ Adoptable(a)
                    /\ Commit(c, a, [app[a] EXCEPT
                          !.status = "pending", !.mode = "chrome_session", !.position = q + 1,
                          !.hold = @ \/ Uncertain(a)])
        /\ UNCHANGED attempt

BeginReview(c, a, s, p) ==
    Begin(c, [NoRequest EXCEPT !.op = "review", !.app = a, !.session = s,
                               !.profile = profile, !.preview = p])

\* review(): the live form as the session sees it, under the profile read
\* before the transaction and the posting read inside it.
CommitReview(c) ==
    LET q == request[c] a == q.app
    IN  /\ q.op = "review"
        /\ Holds(a, q.session)
        /\ app[a].status = "in_progress"
        /\ app[a].finalAction = None
        /\ Commit(c, a, [app[a] EXCEPT !.review =
              [preview |-> q.preview, profile |-> q.profile, posting |-> posting[a],
               by |-> q.session, fresh |-> TRUE]])
        /\ UNCHANGED attempt

BeginStart(c, a, s, p) ==
    Begin(c, [NoRequest EXCEPT !.op = "start", !.app = a, !.session = s,
                               !.profile = profile, !.preview = p])

\* The part of startSubmission that spends the permission.
Press(c, a, s) ==
    \E t \in Attempts :
        /\ attempt[t].status = "unused"
        /\ Commit(c, a, [app[a] EXCEPT !.finalAction = t, !.status = "submission_started"])
        /\ attempt' = [attempt EXCEPT ![t] =
              [app |-> a, by |-> s, day |-> day, status |-> "submitting"]]

\* Defect: the state is not checked again inside the transaction.
StartWithoutRecheck(c) ==
    LET q == request[c] a == q.app
    IN  /\ q.op = "start"
        /\ Holds(a, q.session)
        /\ app[a].review.preview = q.preview
        /\ app[a].review.profile = q.profile
        /\ app[a].review.posting = posting[a]
        /\ app[a].review.fresh
        /\ WithinDailyCaps(a)
        /\ Press(c, a, q.session)

\* Defect: a posting that changed after the review is not noticed.
StartUnderStalePosting(c) ==
    LET q == request[c] a == q.app
    IN  /\ q.op = "start"
        /\ Holds(a, q.session)
        /\ app[a].status = "in_progress"
        /\ app[a].finalAction = None
        /\ app[a].review.preview = q.preview
        /\ app[a].review.profile = q.profile
        /\ app[a].review.fresh
        /\ WithinDailyCaps(a)
        /\ Press(c, a, q.session)

\* startSubmission(): the one-use permission to press Submit.
CommitStart(c) ==
    LET q == request[c] a == q.app
    IN  /\ q.op = "start"
        /\ Holds(a, q.session)
        /\ app[a].status = "in_progress"
        /\ app[a].finalAction = None
        /\ app[a].review.preview = q.preview
        /\ app[a].review.profile = q.profile
        /\ app[a].review.posting = posting[a]
        /\ app[a].review.fresh
        /\ WithinDailyCaps(a)
        /\ Press(c, a, q.session)

\* receipt(): the snapshot binds the call to the recorded attempt, then the
\* employer's page is fetched; truthful evidence exists only of an accepted send.
BeginReceipt(c, a, s, t) ==
    /\ Holds(a, s)
    /\ t # None
    /\ t = RecordedAttempt(a)
    /\ Accepted(a, t)
    /\ Begin(c, [NoRequest EXCEPT !.op = "receipt", !.app = a, !.session = s, !.attempt = t])

CommitReceipt(c) ==
    LET q == request[c] a == q.app t == q.attempt
    IN  /\ q.op = "receipt"
        /\ Holds(a, q.session)
        /\ t = RecordedAttempt(a)
        /\ \E d \in 0 .. day :
              /\ t \in Attempts => attempt[t].day <= d
              /\ Commit(c, a, [app[a] EXCEPT !.status = "submitted", !.receipt = t,
                                             !.receiptDay = d, !.blocker = "none"])
        /\ attempt' = [u \in Attempts |->
              IF u = t THEN [attempt[u] EXCEPT !.status = "submitted"] ELSE attempt[u]]

\* ownerReceipt(): the owner pressed Submit without a registered attempt.  A
\* repeated report of a role that has one already changes nothing.
BeginOwnerReceipt(c, a, s) ==
    /\ Owned(a)
    /\ app[a].session = s
    /\ ~InDoubt(a)
    /\ Begin(c, [NoRequest EXCEPT !.op = "ownerReceipt", !.app = a, !.session = s])

CommitOwnerReceipt(c) ==
    LET q == request[c] a == q.app
    IN  /\ q.op = "ownerReceipt"
        /\ Holds(a, q.session)
        /\ app[a].ownerReport # "browser"
        /\ ~InDoubt(a)
        /\ app[a].status \in {"in_progress", "waiting_owner"}
        /\ \E d \in 0 .. day :
              Commit(c, a, [app[a] EXCEPT !.status = "owner_reported_submitted",
                            !.ownerReport = "browser", !.ownerDay = d, !.blocker = "none"])
        /\ UNCHANGED attempt

----------------------------------------------------------------------------
(* Calls that are one transaction *)

Update(a, r) ==
    /\ app' = [app EXCEPT ![a] = r]
    /\ UNCHANGED <<up, day, profile, posting, employer, request>>

\* What a claim makes of the claimed record.
Claimed(a, s) ==
    [app[a] EXCEPT
        !.session = s,
        !.status = IF app[a].hold THEN "submission_unverified" ELSE "in_progress",
        !.blocker = IF app[a].hold THEN "outcome_check" ELSE @]

\* Defect: any pending role may be claimed.
AnyPending(a) == Owned(a) /\ app[a].status = "pending"

\* The first role of the queue.
FirstPending(a) ==
    /\ Owned(a)
    /\ app[a].status = "pending"
    /\ \A b \in Apps : Owned(b) /\ app[b].status = "pending" => app[a].position <= app[b].position

\* Defect: another session's current application is overlooked.
ClaimBesideCurrent(a, s) == FirstPending(a) /\ Update(a, Claimed(a, s)) /\ UNCHANGED attempt

\* claim(): first in, first out, and only when nothing else is current.
Claim(a, s) ==
    /\ \A b \in Apps : ~Active(b)
    /\ \A b \in Apps : ~Owned(b) => app[b].status \notin ServerRunning
    /\ FirstPending(a)
    /\ Update(a, Claimed(a, s))
    /\ UNCHANGED attempt

\* Defect: a checkpoint after the final action looks like ordinary waiting.
CheckpointForgetsAttempt(a, s, kind, named) ==
    /\ Holds(a, s)
    /\ Update(a, [app[a] EXCEPT
          !.blocker = kind, !.handoff = named, !.status = "waiting_owner",
          !.review = IF app[a].finalAction = None THEN NoReview ELSE @])
    /\ UNCHANGED attempt

\* checkpoint(): the owner is needed.  The checkpoint may say that the owner
\* will press Submit for the attempt it names.
Checkpoint(a, s, kind, named) ==
    /\ Holds(a, s)
    /\ Update(a, [app[a] EXCEPT
          !.blocker = kind,
          !.handoff = named,
          !.status = IF InDoubt(a) THEN "submission_unverified" ELSE "waiting_owner",
          !.review = IF app[a].finalAction = None THEN NoReview ELSE @])
    /\ UNCHANGED attempt

Resume(a, s) ==
    /\ Holds(a, s)
    /\ ~InDoubt(a)
    /\ app[a].status = "waiting_owner"
    /\ Update(a, [app[a] EXCEPT !.status = "in_progress", !.blocker = "none", !.review = NoReview])
    /\ UNCHANGED attempt

\* Defect: the attempts collection is not told.
ArchiveWithoutLedger(a, t, outcome) ==
    /\ Cardinality(app[a].finalActions) < RetryLimit
    /\ Update(a, [app[a] EXCEPT
          !.finalActions = @ \cup {t}, !.finalAction = None,
          !.review = NoReview, !.blocker = "none", !.status = "in_progress"])
    /\ UNCHANGED attempt

\* Defect: one retry too many.
ArchiveOnceMore(a, t, outcome) ==
    /\ Cardinality(app[a].finalActions) <= RetryLimit
    /\ Update(a, [app[a] EXCEPT
          !.finalActions = @ \cup {t}, !.finalAction = None,
          !.review = NoReview, !.blocker = "none", !.status = "in_progress"])
    /\ attempt' = [u \in Attempts |->
          IF u = t THEN [attempt[u] EXCEPT !.status = outcome] ELSE attempt[u]]

\* The common end of notSubmitted and validationError: the attempt is archived
\* with its outcome and the role needs a new review.
Archive(a, t, outcome) ==
    /\ Cardinality(app[a].finalActions) < RetryLimit
    /\ Update(a, [app[a] EXCEPT
          !.finalActions = @ \cup {t}, !.finalAction = None,
          !.review = NoReview, !.blocker = "none", !.status = "in_progress"])
    /\ attempt' = [u \in Attempts |->
          IF u = t THEN [attempt[u] EXCEPT !.status = outcome] ELSE attempt[u]]

\* notSubmitted(): the employer's authenticated status page says so.
NotSubmitted(a, s, t) ==
    /\ Holds(a, s)
    /\ app[a].status \in Submitting
    /\ ~app[a].hold
    /\ app[a].finalAction # None
    /\ t = app[a].finalAction
    /\ employer[t] = "rejected"
    /\ Archive(a, t, "not_submitted")

\* The owner pressed Submit behind a CAPTCHA for the attempt the checkpoint names.
OwnerCaptchaHandoff(a) ==
    /\ app[a].status = "submission_unverified"
    /\ app[a].blocker = "captcha"
    /\ app[a].review.preview = "owner_submits"
    /\ app[a].finalAction \in app[a].handoff

\* validationError(): the live form rejected the attempt.
ValidationError(a, s, t) ==
    /\ Holds(a, s)
    /\ app[a].status = "submission_started" \/ OwnerCaptchaHandoff(a)
    /\ t = app[a].finalAction
    /\ t \in Attempts => employer[t] = "rejected"
    /\ Archive(a, t, "validation_rejected")

\* Defect: the review of the previous session survives.
TakeoverKeepsReview(a, s) ==
    /\ Active(a)
    /\ Update(a, [app[a] EXCEPT
          !.session = s,
          !.status = IF @ = "submission_started" THEN "submission_unverified" ELSE @])
    /\ UNCHANGED attempt

\* takeover(): the owner moves the current role to another chat session.
Takeover(a, s) ==
    /\ Active(a)
    /\ Update(a, [app[a] EXCEPT
          !.session = s,
          !.status = IF @ = "submission_started" THEN "submission_unverified" ELSE @,
          !.review = IF app[a].finalAction = None THEN NoReview ELSE @])
    /\ UNCHANGED attempt

\* skip(): an unknown outcome needs the owner's explicit decision.
Skip(a, s, ownerStoppedPursuit) ==
    /\ Holds(a, s)
    /\ InDoubt(a) => ownerStoppedPursuit
    /\ Update(a, [app[a] EXCEPT !.status = "skipped"])
    /\ UNCHANGED attempt

----------------------------------------------------------------------------

Environment ==
    \/ NextDay
    \/ EditProfile
    \/ \E a \in Apps : ChangePosting(a) \/ ReviewExpires(a)
    \/ \E t \in Attempts : EmployerDecides(t)

ReadPhase(c) ==
    \E a \in Apps :
        \/ BeginAdd(c, a)
        \/ \E s \in Sessions :
              \/ \E p \in Previews : BeginReview(c, a, s, p) \/ BeginStart(c, a, s, p)
              \/ \E t \in AttemptIds : BeginReceipt(c, a, s, t)
              \/ BeginOwnerReceipt(c, a, s)

CommitPhase(c) ==
    \/ CommitAdd(c)
    \/ CommitReview(c)
    \/ CommitStart(c)
    \/ CommitReceipt(c)
    \/ CommitOwnerReceipt(c)
    \/ Refuse(c)

SessionCall(a, s) ==
    \/ Claim(a, s)
    \/ \E kind \in Kinds, named \in {{}, {app[a].finalAction}} :
          Checkpoint(a, s, kind, named)
    \/ Resume(a, s)
    \/ \E t \in Attempts \cup {None} : NotSubmitted(a, s, t) \/ ValidationError(a, s, t)
    \/ Takeover(a, s)
    \/ \E stopped \in BOOLEAN : Skip(a, s, stopped)

Next ==
    \/ Environment
    \/ Crash
    \/ Recover
    \/ /\ up
       /\ \/ \E c \in Callers : ReadPhase(c) \/ CommitPhase(c)
          \/ \E a \in Apps, s \in Sessions : SessionCall(a, s)

Spec == Init /\ [][Next]_vars

----------------------------------------------------------------------------
(* Properties *)

TypeOK ==
    /\ up \in BOOLEAN
    /\ day \in 0 .. MaxDay
    /\ profile \in Profiles
    /\ posting \in [Apps -> Postings]
    /\ app \in [Apps -> AppRecords]
    /\ attempt \in [Attempts -> AttemptRecords]
    /\ employer \in [Attempts -> {"undecided", "accepted", "rejected"}]
    /\ request \in [Callers -> Requests]

\* "Atomic claims allow only one current application per applicant"
\* (docs/architecture.md), through takeovers, restarts and adopted roles.
OneCurrentApplication ==
    \A a, b \in Apps : Active(a) /\ Active(b) => a = b

\* The sends of role a that reached the employer, a retired worker's included.
Sends(a) ==
    {t \in Attempts : attempt[t].app = a /\ employer[t] = "accepted"}
        \cup (IF app[a].legacySent THEN {LegacyAttempt} ELSE {})

\* No employer ever receives one role's application twice from this system:
\* whatever crashes, takeovers, late answers and stale calls happen, permission
\* to press Submit again is given only after the previous press is known to
\* have failed.  (Sends the owner makes elsewhere are not the queue's.)
NoDuplicateSubmission ==
    \A a \in Apps : \A t, u \in Sends(a) : t = u

\* A role whose outcome is unknown never looks like one that may be worked on:
\* it is held, or it is finished by a receipt or by the owner's decision.
DoubtIsHeld ==
    \A a \in Apps : Owned(a) /\ InDoubt(a) =>
        app[a].status \in Submitting \cup {"submitted", "skipped"}
            \cup (IF app[a].hold THEN {"pending"} ELSE {})

\* The attempts collection and the application agree: an attempt is open there
\* exactly while it is its application's final action and no receipt is stored.
LedgerAgrees ==
    \A t \in Attempts :
        /\ attempt[t].status = "submitting" =>
              /\ app[attempt[t].app].finalAction = t
              /\ app[attempt[t].app].receipt = None
        /\ attempt[t].status \in {"not_submitted", "validation_rejected"} =>
              t \in app[attempt[t].app].finalActions
        /\ attempt[t].status = "submitted" => app[attempt[t].app].receipt = t

\* On no day do more roles get a final attempt than the caps allow, counting the
\* roles whose attempt was archived, skipped or is still in doubt.
DailyCaps ==
    \A d \in 0 .. MaxDay :
        LET started == {a \in Apps : \E t \in Attempts : attempt[t].app = a /\ attempt[t].day = d}
        IN  /\ Cardinality(started) <= GlobalCap
            /\ \A m \in Modes : Cardinality({a \in started : ModeOf[a] = m}) <= ModeCap[m]

\* A retired worker's send that arrived is visible to recovery and adoption.
WorkerSendIsVisible(r) ==
    r.legacySent =>
        \/ r.phase = "final_action_started" /\ r.status \notin ServerRunning
        \/ r.trace \in {"decision_consumed", "outcome_question"}
        \/ r.status = "submitting"
        \/ r.trace = "execution_started" /\ r.status = "claimed"

\* Before the queue owns a role, and again until a session claims it, nothing of
\* the queue's own work is recorded in it.
Untouched(r) == r.session = None /\ r.finalAction = None /\ r.review = NoReview

\* What one application record says about its sends.
Accountable(r) ==
    IF r.mode # "chrome_session" THEN Untouched(r) /\ WorkerSendIsVisible(r)
    ELSE /\ r.status = "pending" => Untouched(r)
         /\ r.finalAction # None => r.status \in Submitting \cup {"submitted", "skipped"}
         /\ r.legacySent => r.hold
         /\ r.hold =>
               /\ r.status \in {"pending", "submission_unverified", "submitted", "skipped"}
               /\ r.finalAction = None
               /\ r.review = NoReview

\* Why NoDuplicateSubmission, DoubtIsHeld and OneCurrentApplication hold: the
\* invariant that every step of the queue preserves.  A role is worked on only
\* while it is not held; it is held while its last Submit may have arrived; and
\* every earlier attempt is known to have failed.
SendsAreAccountedFor ==
    /\ TypeOK
    /\ OneCurrentApplication
    /\ \A a \in Apps :
          /\ Accountable(app[a])
          /\ \A t \in app[a].finalActions \ {None} : employer[t] = "rejected"
    /\ \A t \in Attempts : attempt[t].app # None =>
          LET a == attempt[t].app
          IN  Owned(a) /\ ~app[a].hold /\ t \in app[a].finalActions \cup {app[a].finalAction}

\* The phase of a role as the protocol sees it.
PhaseOf(a) ==
    IF ~Owned(a) \/ app[a].status = "pending" THEN "waiting"
    ELSE CASE app[a].status = "submitted"                -> "confirmed"
           [] app[a].status = "owner_reported_submitted" -> "owner_sent"
           [] app[a].status = "skipped" -> IF InDoubt(a) THEN "abandoned" ELSE "dropped"
           [] OTHER                     -> IF InDoubt(a) THEN "in_doubt" ELSE "working"

Protocol == INSTANCE SubmissionProtocol WITH
    Roles    <- Apps,
    MaxTries <- RetryLimit + 1,
    phase    <- [a \in Apps |-> PhaseOf(a)],
    tries    <- [a \in Apps |-> Cardinality({t \in Attempts : attempt[t].app = a})],
    arrived  <- {a \in Apps : Sends(a) # {}}

\* The queue, with all its interleaved calls, crashes and takeovers, does
\* nothing but what the protocol of one submission at a time allows.
ImplementsProtocol == Protocol!Spec

\* A finished role of the queue is never touched again, although calls that read
\* it before it finished are still on their way.
FinishedStaysFinished ==
    [][\A a \in Apps : Owned(a) /\ app[a].status \in Terminal =>
          /\ app'[a].status = app[a].status
          /\ app'[a].finalAction = app[a].finalAction
          /\ app'[a].receipt = app[a].receipt
          /\ app'[a].ownerReport = app[a].ownerReport]_vars

\* First in, first out: no role is taken while one that was queued before it is
\* still pending, wherever adopted roles came from.
QueueOrder ==
    [][\A a, b \in Apps :
          /\ Owned(a) /\ app[a].status = "pending" /\ app'[a].status # "pending"
          /\ Owned(b) /\ app[b].status = "pending" /\ a # b
          => app[a].position < app[b].position]_vars

\* Permission to press Submit goes to the session that owns the role at that
\* moment and made the review it rests on: a call that was under way when the
\* role was taken over gets none.
SubmitByOwningSession ==
    [][\A t \in Attempts : attempt[t].status = "unused" /\ attempt'[t].status # "unused" =>
          LET a == attempt'[t].app
          IN  attempt'[t].by = app'[a].session /\ app'[a].review.by = app'[a].session]_vars

\* Submit rests on the review of exactly these facts: the posting still is the
\* reviewed one when permission is given, and the profile the call read is the
\* one that was reviewed, however facts and postings change in between.
SubmitUnderReviewedFacts ==
    [][\A t \in Attempts : attempt[t].status = "unused" /\ attempt'[t].status # "unused" =>
          LET a == attempt'[t].app
          IN  /\ app'[a].review.posting = posting[a]
              /\ \E c \in Callers :
                    /\ request[c].op = "start" /\ request[c].app = a
                    /\ app'[a].review.profile = request[c].profile
                    /\ app'[a].review.preview = request[c].preview]_vars

\* "Repeated links return the existing application"
\* (skills/job-application/references/commands.md): a role the owner reported as
\* submitted is not queued for another submission.
OwnerReportIsKept ==
    [][\A a \in Apps : app[a].status = "owner_reported_submitted" =>
          app'[a].status = "owner_reported_submitted"]_vars
=============================================================================
