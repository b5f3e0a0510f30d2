-------------------------- MODULE ChromeQueueProofs --------------------------
(***************************************************************************)
(* Theorems about the application queue for any number of roles, sessions, *)
(* concurrent calls, attempts and profiles: its records are well formed,   *)
(* and no role is ever sent twice.  The inductive invariant                *)
(* SendsAreAccountedFor is preserved by every step; the safety properties  *)
(* of the queue follow from it.                                            *)
(***************************************************************************)
EXTENDS ChromeQueue, TLAPS

\* A transaction replaces one application record.
LEMMA OneRecordTyped ==
    ASSUME TypeOK, NEW a \in Apps, NEW r \in AppRecords, app' = [app EXCEPT ![a] = r]
    PROVE  app' \in [Apps -> AppRecords]
BY DEF TypeOK

LEMMA NoReviewTyped == NoReview \in Reviews
BY DEF NoReview, Reviews, Postings

LEMMA NoApplicationTyped == NoApplication \in AppRecords
BY NoReviewTyped DEF NoApplication, AppRecords, AttemptIds, Statuses, LegacyTraces

\* A request is about a role once it has begun.
LEMMA RequestTyped ==
    ASSUME TypeOK, NEW c \in Callers, request[c].op # "none"
    PROVE  /\ request[c].app \in Apps
           /\ request[c].session \in Sessions \cup {None}
           /\ request[c].op # "add" => request[c].session \in Sessions
           /\ request[c].profile \in Profiles \cup {None}
           /\ request[c].preview \in Previews \cup {"none"}
           /\ request[c].attempt \in AttemptIds
BY DEF TypeOK, Requests, NoRequest, AttemptIds

LEMMA EndTyped ==
    ASSUME TypeOK, NEW c \in Callers, End(c)
    PROVE  request' \in [Callers -> Requests]
BY DEF TypeOK, End, Requests

LEMMA InitTyped == Init => TypeOK
<1> SUFFICES ASSUME Init PROVE TypeOK
    OBVIOUS
<1>1. ASSUME NEW r \in LegacyApplications PROVE r \in AppRecords
    <2>1. r \in WorkerRecords
        BY <1>1 DEF LegacyApplications
    <2>2. PICK st \in ServerRunning \cup {"waiting_confirmation"}, tr \in LegacyTraces,
               ph \in {"none", "before_final_action", "final_action_started"}, sent \in BOOLEAN :
             r = LegacyRecord(st, tr, ph, sent)
        BY <2>1 DEF WorkerRecords
    <2>3. st \in Statuses
        BY DEF Statuses
    <2> QED
        BY <2>2, <2>3, NoApplicationTyped, Zenon DEF LegacyRecord, AppRecords
<1>2. ExternalApplication \in AppRecords
    <2>1. 0 \in Nat \cup {-1} /\ "owner_reported_submitted" \in Statuses
        BY DEF Statuses, Terminal
    <2> QED
        BY <2>1, NoApplicationTyped, Zenon DEF ExternalApplication, AppRecords
<1>3. app \in [Apps -> AppRecords]
    BY <1>1, <1>2, NoApplicationTyped DEF Init
<1>4. posting \in [Apps -> Postings]
    BY DEF Init, Postings
<1>5. attempt \in [Attempts -> AttemptRecords]
    BY DEF Init, Unused, AttemptRecords
<1>6. request \in [Callers -> Requests]
    BY DEF Init, Requests
<1>7. day \in 0 .. MaxDay
    BY ChromeQueueAssumption DEF Init, ChromeQueueAssumption
<1>8. employer \in [Attempts -> {"undecided", "accepted", "rejected"}]
    BY DEF Init
<1>9. up \in BOOLEAN /\ profile \in Profiles
    BY DEF Init
<1> QED
    BY <1>3, <1>4, <1>5, <1>6, <1>7, <1>8, <1>9 DEF TypeOK
----------------------------------------------------------------------------
(* Every step keeps every variable in its type. *)

\* The steps of the outside world.
LEMMA EnvironmentTyped ==
    ASSUME TypeOK, Environment
    PROVE  TypeOK'
<1>1. CASE NextDay
    BY <1>1, ChromeQueueAssumption DEF NextDay, TypeOK, ChromeQueueAssumption
<1>2. CASE EditProfile
    BY <1>2 DEF EditProfile, TypeOK
<1>3. ASSUME NEW a \in Apps, ChangePosting(a) PROVE TypeOK'
    <2>1. posting[a] \in Postings
        BY DEF TypeOK
    <2>2. [posting[a] EXCEPT !.open = ~@] \in Postings
          /\ [posting[a] EXCEPT !.requested = TRUE] \in Postings
        BY <2>1 DEF Postings
    <2>3. posting' \in [Apps -> Postings]
        BY <1>3, <2>2 DEF ChangePosting, TypeOK
    <2> QED
        BY <1>3, <2>3 DEF ChangePosting, TypeOK
<1>4. ASSUME NEW a \in Apps, ReviewExpires(a) PROVE TypeOK'
    <2> DEFINE rv == [app[a].review EXCEPT !.fresh = FALSE]
               r == [app[a] EXCEPT !.review = rv]
    <2>1. app[a] \in AppRecords /\ app[a].review \in Reviews
        BY DEF TypeOK, AppRecords
    <2>2. rv \in Reviews
        BY <2>1 DEF Reviews
    <2>3. r \in AppRecords
        BY <2>1, <2>2 DEF AppRecords
    <2>4. app' = [app EXCEPT ![a] = r]
        BY <1>4 DEF ReviewExpires
    <2>5. app' \in [Apps -> AppRecords]
        BY <2>3, <2>4, OneRecordTyped
    <2> QED
        BY <1>4, <2>5 DEF ReviewExpires, TypeOK
<1>5. ASSUME NEW t \in Attempts, EmployerDecides(t) PROVE TypeOK'
    <2>1. employer' \in [Attempts -> {"undecided", "accepted", "rejected"}]
        BY <1>5 DEF EmployerDecides, TypeOK
    <2> QED
        BY <1>5, <2>1 DEF EmployerDecides, TypeOK
<1> QED
    BY <1>1, <1>2, <1>3, <1>4, <1>5 DEF Environment

LEMMA StatusTyped ==
    ASSUME NEW r \in AppRecords, NEW s \in Statuses
    PROVE  [r EXCEPT !.status = s] \in AppRecords
BY DEF AppRecords

LEMMA RecoveredTyped ==
    ASSUME NEW r \in AppRecords
    PROVE  Recovered(r) \in AppRecords
<1>1. CASE r.mode # "chrome_session" /\ r.status \in ServerRunning
    <2> DEFINE ph == IF r.status = "submitting" \/ r.trace = "execution_started"
                     THEN "final_action_started" ELSE "before_final_action"
    <2>1. ph \in {"none", "before_final_action", "final_action_started"}
        OBVIOUS
    <2>2. Recovered(r) = [r EXCEPT !.status = "waiting_confirmation", !.phase = ph]
        BY <1>1 DEF Recovered
    <2> HIDE DEF ph
    <2> DEFINE uncertain == [r EXCEPT !.status = "waiting_confirmation"]
    <2>3. uncertain \in AppRecords
        BY StatusTyped DEF Statuses
    <2>4. [uncertain EXCEPT !.phase = ph] \in AppRecords
        <3> HIDE DEF uncertain
        <3> QED
            BY <2>1, <2>3 DEF AppRecords
    <2>5. Recovered(r) = [uncertain EXCEPT !.phase = ph]
        BY <2>2 DEF AppRecords
    <2> QED
        BY <2>4, <2>5
<1>2. CASE r.mode = "chrome_session" /\ r.status = "submission_started"
    <2> DEFINE unverified == [r EXCEPT !.status = "submission_unverified"]
    <2>1. unverified \in AppRecords
        BY StatusTyped DEF Statuses, Submitting
    <2>2. [unverified EXCEPT !.blocker = "outcome_check"] \in AppRecords
        <3> HIDE DEF unverified
        <3> QED
            BY <2>1 DEF AppRecords
    <2>3. Recovered(r) = [unverified EXCEPT !.blocker = "outcome_check"]
        BY <1>2 DEF Recovered, AppRecords
    <2> QED
        BY <2>2, <2>3
<1>3. CASE ~(r.mode # "chrome_session" /\ r.status \in ServerRunning)
           /\ ~(r.mode = "chrome_session" /\ r.status = "submission_started")
    BY <1>3 DEF Recovered
<1> QED
    BY <1>1, <1>2, <1>3

LEMMA RestartTyped ==
    ASSUME TypeOK, Crash \/ Recover
    PROVE  TypeOK'
<1>1. CASE Crash
    BY <1>1 DEF Crash, TypeOK, Requests
<1>2. CASE Recover
    <2>1. app' \in [Apps -> AppRecords]
        BY <1>2, RecoveredTyped DEF Recover, TypeOK
    <2> QED
        BY <1>2, <2>1 DEF Recover, TypeOK
<1> QED
    BY <1>1, <1>2

\* A call begins by reading what it needs before its transaction.
LEMMA ReadPhaseTyped ==
    ASSUME TypeOK, NEW c \in Callers, ReadPhase(c)
    PROVE  TypeOK'
<1>1. ASSUME NEW q \in Requests, Begin(c, q) PROVE TypeOK'
    BY <1>1 DEF Begin, TypeOK
<1>2. PICK a \in Apps :
          \/ BeginAdd(c, a)
          \/ \E s \in Sessions :
                \/ \E p \in Previews : BeginReview(c, a, s, p) \/ BeginStart(c, a, s, p)
                \/ \E t \in AttemptIds : BeginReceipt(c, a, s, t)
                \/ BeginOwnerReceipt(c, a, s)
    BY DEF ReadPhase
<1>3. CASE BeginAdd(c, a)
    BY <1>1, <1>3 DEF BeginAdd, NoRequest, Requests, AttemptIds
<1>4. ASSUME NEW s \in Sessions, NEW p \in Previews, BeginReview(c, a, s, p) PROVE TypeOK'
    BY <1>1, <1>4 DEF BeginReview, NoRequest, Requests, AttemptIds, TypeOK
<1>5. ASSUME NEW s \in Sessions, NEW p \in Previews, BeginStart(c, a, s, p) PROVE TypeOK'
    BY <1>1, <1>5 DEF BeginStart, NoRequest, Requests, AttemptIds, TypeOK
<1>6. ASSUME NEW s \in Sessions, NEW t \in AttemptIds, BeginReceipt(c, a, s, t) PROVE TypeOK'
    BY <1>1, <1>6 DEF BeginReceipt, NoRequest, Requests
<1>7. ASSUME NEW s \in Sessions, BeginOwnerReceipt(c, a, s) PROVE TypeOK'
    BY <1>1, <1>7 DEF BeginOwnerReceipt, NoRequest, Requests, AttemptIds
<1> QED
    BY <1>2, <1>3, <1>4, <1>5, <1>6, <1>7

LEMMA CommitTyped ==
    ASSUME TypeOK, NEW c \in Callers, NEW a \in Apps, NEW r \in AppRecords, Commit(c, a, r),
           attempt' \in [Attempts -> AttemptRecords]
    PROVE  TypeOK'
<1>1. app' \in [Apps -> AppRecords]
    BY OneRecordTyped DEF Commit
<1>2. request' \in [Callers -> Requests]
    BY EndTyped DEF Commit
<1> QED
    BY <1>1, <1>2 DEF Commit, TypeOK

LEMMA UpdateTyped ==
    ASSUME TypeOK, NEW a \in Apps, NEW r \in AppRecords, Update(a, r),
           attempt' \in [Attempts -> AttemptRecords]
    PROVE  TypeOK'
<1>1. app' \in [Apps -> AppRecords]
    BY OneRecordTyped DEF Update
<1> QED
    BY <1>1 DEF Update, TypeOK

\* What is known of the fields of a record.
LEMMA FieldsTyped ==
    ASSUME TypeOK, NEW a \in Apps
    PROVE  /\ app[a] \in AppRecords
           /\ app[a].status \in Statuses
           /\ app[a].position \in Nat
           /\ app[a].blocker \in {"none", "captcha", "owner_help", "outcome_check"}
           /\ app[a].review \in Reviews
           /\ app[a].finalAction \in Attempts \cup {None}
           /\ app[a].finalActions \in SUBSET (Attempts \cup {None})
           /\ app[a].hold \in BOOLEAN
BY DEF TypeOK, AppRecords

LEMMA StatusNames ==
    Terminal \cup ServerRunning \cup Submitting
        \cup {"absent", "pending", "in_progress", "waiting_owner", "waiting_confirmation"}
    \subseteq Statuses
BY DEF Statuses

\* A call ends in one transaction.
LEMMA CommitPhaseTyped ==
    ASSUME TypeOK, NEW c \in Callers, CommitPhase(c)
    PROVE  TypeOK'
<1> DEFINE q == request[c]
           a == q.app
<1>1. ASSUME CommitAdd(c) PROVE TypeOK'
    <2>1. a \in Apps /\ app[a] \in AppRecords
        BY <1>1, RequestTyped DEF CommitAdd, TypeOK
    <2>2. PICK n \in Nat :
              \/ Commit(c, a, [NoApplication EXCEPT
                    !.status = "pending", !.mode = "chrome_session", !.position = n])
              \/ Commit(c, a, [app[a] EXCEPT
                    !.status = "pending", !.mode = "chrome_session", !.position = n,
                    !.hold = @ \/ Uncertain(a)])
        <3>1. PICK m \in {0} \cup {app[b].position : b \in Apps} :
                 \/ Commit(c, a, [NoApplication EXCEPT
                       !.status = "pending", !.mode = "chrome_session", !.position = m + 1])
                 \/ Commit(c, a, [app[a] EXCEPT
                       !.status = "pending", !.mode = "chrome_session", !.position = m + 1,
                       !.hold = @ \/ Uncertain(a)])
            BY <1>1 DEF CommitAdd
        <3>2. m + 1 \in Nat
            BY FieldsTyped
        <3> QED
            BY <3>1, <3>2
    <2>3. attempt' \in [Attempts -> AttemptRecords]
        BY <1>1 DEF CommitAdd, TypeOK
    <2>4. "pending" \in Statuses
        BY StatusNames
    <2>5. [NoApplication EXCEPT
              !.status = "pending", !.mode = "chrome_session", !.position = n] \in AppRecords
        BY <2>4, NoApplicationTyped, Zenon DEF AppRecords
    <2> DEFINE h == app[a].hold \/ Uncertain(a)
    <2>6. h \in BOOLEAN
        OBVIOUS
    <2>7. [app[a] EXCEPT !.status = "pending", !.mode = "chrome_session", !.position = n,
              !.hold = h] \in AppRecords
        <3> HIDE DEF h
        <3> QED
            BY <2>1, <2>4, <2>6, Zenon DEF AppRecords
    <2> QED
        BY <2>1, <2>2, <2>3, <2>5, <2>7, CommitTyped
<1>2. ASSUME CommitReview(c) PROVE TypeOK'
    <2> DEFINE rv == [preview |-> q.preview, profile |-> q.profile, posting |-> posting[a],
                      by |-> q.session, fresh |-> TRUE]
    <2>1. a \in Apps /\ app[a] \in AppRecords /\ rv \in Reviews
        BY <1>2, RequestTyped DEF CommitReview, Reviews, TypeOK
    <2>2. [app[a] EXCEPT !.review = rv] \in AppRecords
        BY <2>1, Zenon DEF AppRecords
    <2> QED
        BY <1>2, <2>1, <2>2, CommitTyped DEF CommitReview, TypeOK
<1>3. ASSUME CommitStart(c) PROVE TypeOK'
    <2>1. a \in Apps /\ app[a] \in AppRecords /\ q.session \in Sessions \cup {None}
        BY <1>3, RequestTyped DEF CommitStart, TypeOK
    <2>2. PICK t \in Attempts :
              /\ Commit(c, a, [app[a] EXCEPT !.finalAction = t, !.status = "submission_started"])
              /\ attempt' = [attempt EXCEPT ![t] =
                    [app |-> a, by |-> q.session, day |-> day, status |-> "submitting"]]
        BY <1>3 DEF CommitStart, Press
    <2>3. attempt' \in [Attempts -> AttemptRecords]
        BY <2>1, <2>2, ChromeQueueAssumption DEF TypeOK, AttemptRecords, ChromeQueueAssumption
    <2>4. "submission_started" \in Statuses
        BY StatusNames DEF Submitting
    <2>5. [app[a] EXCEPT !.finalAction = t, !.status = "submission_started"] \in AppRecords
        BY <2>1, <2>4, Zenon DEF AppRecords
    <2> QED
        BY <2>1, <2>2, <2>3, <2>5, CommitTyped
<1>4. ASSUME CommitReceipt(c) PROVE TypeOK'
    <2> DEFINE t == q.attempt
    <2>1. a \in Apps /\ app[a] \in AppRecords /\ t \in AttemptIds
        BY <1>4, RequestTyped DEF CommitReceipt, TypeOK
    <2>2. PICK d \in 0 .. day :
              Commit(c, a, [app[a] EXCEPT !.status = "submitted", !.receipt = t,
                                          !.receiptDay = d, !.blocker = "none"])
        BY <1>4 DEF CommitReceipt
    <2>3. attempt' \in [Attempts -> AttemptRecords]
        BY <1>4 DEF CommitReceipt, TypeOK, AttemptRecords
    <2>4. d \in Nat \cup {-1}
        BY ChromeQueueAssumption DEF TypeOK, ChromeQueueAssumption
    <2>5. "submitted" \in Statuses
        BY StatusNames DEF Terminal
    <2>6. [app[a] EXCEPT !.status = "submitted", !.receipt = t,
                         !.receiptDay = d, !.blocker = "none"] \in AppRecords
        BY <2>1, <2>4, <2>5, Zenon DEF AppRecords
    <2> QED
        BY <2>1, <2>2, <2>3, <2>6, CommitTyped
<1>5. ASSUME CommitOwnerReceipt(c) PROVE TypeOK'
    <2>1. a \in Apps /\ app[a] \in AppRecords
        BY <1>5, RequestTyped DEF CommitOwnerReceipt, TypeOK
    <2>2. PICK d \in 0 .. day :
              Commit(c, a, [app[a] EXCEPT !.status = "owner_reported_submitted",
                                          !.ownerReport = "browser", !.ownerDay = d,
                                          !.blocker = "none"])
        BY <1>5 DEF CommitOwnerReceipt
    <2>3. attempt' \in [Attempts -> AttemptRecords]
        BY <1>5 DEF CommitOwnerReceipt, TypeOK
    <2>4. d \in Nat \cup {-1}
        BY ChromeQueueAssumption DEF TypeOK, ChromeQueueAssumption
    <2>5. "owner_reported_submitted" \in Statuses
        BY StatusNames DEF Terminal
    <2>6. [app[a] EXCEPT !.status = "owner_reported_submitted", !.ownerReport = "browser",
                         !.ownerDay = d, !.blocker = "none"] \in AppRecords
        BY <2>1, <2>4, <2>5, Zenon DEF AppRecords
    <2> QED
        BY <2>1, <2>2, <2>3, <2>6, CommitTyped
<1>6. ASSUME Refuse(c) PROVE TypeOK'
    BY <1>6, EndTyped DEF Refuse, TypeOK
<1> QED
    BY <1>1, <1>2, <1>3, <1>4, <1>5, <1>6 DEF CommitPhase

\* A review that is kept or deleted.
LEMMA KeptReviewTyped ==
    ASSUME NEW r \in AppRecords
    PROVE  (IF r.finalAction = None THEN NoReview ELSE r.review) \in Reviews
BY NoReviewTyped DEF AppRecords

LEMMA ArchiveTyped ==
    ASSUME TypeOK, NEW a \in Apps, NEW t \in Attempts \cup {None},
           NEW outcome \in {"not_submitted", "validation_rejected"}, Archive(a, t, outcome)
    PROVE  TypeOK'
<1> DEFINE fs == app[a].finalActions \cup {t}
           r  == [app[a] EXCEPT !.finalActions = fs, !.finalAction = None,
                     !.review = NoReview, !.blocker = "none", !.status = "in_progress"]
<1>1. app[a] \in AppRecords /\ fs \in SUBSET (Attempts \cup {None})
    BY FieldsTyped
<1>2. "in_progress" \in Statuses
    BY StatusNames
<1>3. Update(a, r)
    BY DEF Archive
<1>4. attempt' \in [Attempts -> AttemptRecords]
    BY SMTT(30) DEF Archive, TypeOK, AttemptRecords
<1>5. r \in AppRecords
    <2> HIDE DEF fs
    <2> QED
        BY <1>1, <1>2, NoReviewTyped, Zenon DEF AppRecords
<1> QED
    BY <1>3, <1>4, <1>5, UpdateTyped

\* A call that is one transaction.
LEMMA SessionCallTyped ==
    ASSUME TypeOK, NEW a \in Apps, NEW s \in Sessions, SessionCall(a, s)
    PROVE  TypeOK'
<1> DEFINE kept == IF app[a].finalAction = None THEN NoReview ELSE app[a].review
<1>1. /\ app[a] \in AppRecords
      /\ kept \in Reviews
      /\ app[a].blocker \in {"none", "captcha", "owner_help", "outcome_check"}
    BY FieldsTyped, KeptReviewTyped
<1> HIDE DEF kept
<1>2. ASSUME Claim(a, s) PROVE TypeOK'
    <2> DEFINE st == IF app[a].hold THEN "submission_unverified" ELSE "in_progress"
               bl == IF app[a].hold THEN "outcome_check" ELSE app[a].blocker
    <2>1. st \in Statuses /\ bl \in {"none", "captcha", "owner_help", "outcome_check"}
        BY <1>1, StatusNames DEF Submitting
    <2>2. [app[a] EXCEPT !.session = s, !.status = st, !.blocker = bl] \in AppRecords
        <3> HIDE DEF st, bl
        <3> QED
            BY <1>1, <2>1, ZenonT(30) DEF AppRecords
    <2>3. attempt' \in [Attempts -> AttemptRecords]
        BY <1>2 DEF Claim, TypeOK
    <2> QED
        BY <1>2, <2>2, <2>3, UpdateTyped DEF Claim, Claimed
<1>3. ASSUME NEW kind \in Kinds, NEW named \in {{}, {app[a].finalAction}},
             Checkpoint(a, s, kind, named)
      PROVE  TypeOK'
    <2> DEFINE st == IF InDoubt(a) THEN "submission_unverified" ELSE "waiting_owner"
    <2>1. st \in Statuses
        BY StatusNames DEF Submitting
    <2>2. kind \in {"none", "captcha", "owner_help", "outcome_check"}
        BY ChromeQueueAssumption DEF ChromeQueueAssumption
    <2>3. named \in SUBSET (Attempts \cup {None})
        BY FieldsTyped
    <2>4. [app[a] EXCEPT !.blocker = kind, !.handoff = named, !.status = st, !.review = kept]
            \in AppRecords
        <3> HIDE DEF st
        <3> QED
            BY <1>1, <2>1, <2>2, <2>3, Zenon DEF AppRecords
    <2>5. attempt' \in [Attempts -> AttemptRecords]
        BY <1>3 DEF Checkpoint, TypeOK
    <2> QED
        BY <1>3, <2>4, <2>5, UpdateTyped DEF Checkpoint, kept
<1>4. ASSUME Resume(a, s) PROVE TypeOK'
    <2>1. "in_progress" \in Statuses
        BY StatusNames
    <2>2. [app[a] EXCEPT !.status = "in_progress", !.blocker = "none", !.review = NoReview]
            \in AppRecords
        BY <1>1, <2>1, NoReviewTyped, Zenon DEF AppRecords
    <2> QED
        BY <1>4, <2>2, UpdateTyped DEF Resume, TypeOK
<1>5. ASSUME NEW t \in Attempts \cup {None}, NotSubmitted(a, s, t) \/ ValidationError(a, s, t)
      PROVE  TypeOK'
    BY <1>5, ArchiveTyped DEF NotSubmitted, ValidationError
<1>6. ASSUME Takeover(a, s) PROVE TypeOK'
    <2> DEFINE st == IF app[a].status = "submission_started"
                     THEN "submission_unverified" ELSE app[a].status
    <2>1. st \in Statuses
        BY FieldsTyped, StatusNames DEF Submitting
    <2>2. [app[a] EXCEPT !.session = s, !.status = st, !.review = kept] \in AppRecords
        <3> HIDE DEF st
        <3> QED
            BY <1>1, <2>1, Zenon DEF AppRecords
    <2>3. attempt' \in [Attempts -> AttemptRecords]
        BY <1>6 DEF Takeover, TypeOK
    <2> QED
        BY <1>6, <2>2, <2>3, UpdateTyped DEF Takeover, kept
<1>7. ASSUME NEW stopped \in BOOLEAN, Skip(a, s, stopped) PROVE TypeOK'
    <2>1. "skipped" \in Statuses
        BY StatusNames DEF Terminal
    <2>2. [app[a] EXCEPT !.status = "skipped"] \in AppRecords
        BY <1>1, <2>1, Zenon DEF AppRecords
    <2> QED
        BY <1>7, <2>2, UpdateTyped DEF Skip, TypeOK
<1> QED
    BY <1>2, <1>3, <1>4, <1>5, <1>6, <1>7 DEF SessionCall

LEMMA NextTyped == TypeOK /\ [Next]_vars => TypeOK'
<1> SUFFICES ASSUME TypeOK, [Next]_vars PROVE TypeOK'
    OBVIOUS
<1>1. CASE UNCHANGED vars
    BY <1>1 DEF vars, TypeOK
<1>2. CASE Next
    BY <1>2, EnvironmentTyped, RestartTyped, ReadPhaseTyped, CommitPhaseTyped, SessionCallTyped
    DEF Next
<1> QED
    BY <1>1, <1>2

\* Every variable always holds a value of its type: no call, crash or recovery
\* leaves an application, an attempt or a pending call half-formed.
THEOREM TypeCorrect == Spec => []TypeOK
<1>1. Init => TypeOK
    BY InitTyped
<1>2. TypeOK /\ [Next]_vars => TypeOK'
    BY NextTyped
<1> QED
    BY <1>1, <1>2, PTL DEF Spec

----------------------------------------------------------------------------
(* The initial state *)

\* A worker's send that arrived left a trace that recovery or adoption sees.
LEMMA WorkersAreAccountable ==
    ASSUME NEW r \in LegacyApplications
    PROVE  /\ Accountable(r)
           /\ r.mode = "server"
           /\ r.finalActions = {}
<1>1. r \in WorkerRecords
    BY DEF LegacyApplications
<1>2. PICK st \in ServerRunning \cup {"waiting_confirmation"}, tr \in LegacyTraces,
           ph \in {"none", "before_final_action", "final_action_started"}, sent \in BOOLEAN :
         r = LegacyRecord(st, tr, ph, sent)
    BY <1>1 DEF WorkerRecords
<1>3. /\ r.mode = "server" /\ r.status = st /\ r.trace = tr /\ r.phase = ph
      /\ r.legacySent = sent /\ r.session = None /\ r.finalAction = None
      /\ r.review = NoReview /\ r.finalActions = {}
    BY <1>2 DEF LegacyRecord, NoApplication
<1>4. /\ r.legacySent => r.trace # "none" \/ r.status = "submitting"
      /\ r.status = "queued" => r.trace = "none"
      /\ r.status = "waiting_confirmation" /\ r.trace = "execution_started" =>
            r.phase = "final_action_started"
    BY DEF LegacyApplications
<1>5. WorkerSendIsVisible(r)
    BY <1>3, <1>4 DEF WorkerSendIsVisible, LegacyTraces, ServerRunning
<1> QED
    BY <1>3, <1>5 DEF Accountable, Untouched

LEMMA InitAccounted == Init => SendsAreAccountedFor
<1> SUFFICES ASSUME Init PROVE SendsAreAccountedFor
    OBVIOUS
<1>1. TypeOK
    BY InitTyped
<1>2. ASSUME NEW a \in Apps
      PROVE  Accountable(app[a]) /\ ~Owned(a) /\ app[a].finalActions = {}
    <2>1. app[a] \in LegacyApplications \cup {ExternalApplication, NoApplication}
        BY DEF Init
    <2>2. CASE app[a] \in LegacyApplications
        BY <2>2, WorkersAreAccountable DEF Owned
    <2>3. CASE app[a] \in {ExternalApplication, NoApplication}
        <3>1. /\ app[a].mode # "chrome_session" /\ app[a].session = None
              /\ app[a].finalAction = None /\ app[a].review = NoReview
              /\ app[a].legacySent = FALSE /\ app[a].finalActions = {}
            <4>1. CASE app[a] = NoApplication
                BY <4>1 DEF NoApplication
            <4>2. CASE app[a] = ExternalApplication
                BY <4>2 DEF ExternalApplication, NoApplication
            <4> QED
                BY <2>3, <4>1, <4>2
        <3> QED
            BY <3>1 DEF Owned, Accountable, Untouched, WorkerSendIsVisible
    <2> QED
        BY <2>1, <2>2, <2>3
<1>3. \A t \in Attempts : attempt[t].app = None
    BY DEF Init, Unused
<1>4. OneCurrentApplication
    BY <1>2 DEF OneCurrentApplication, Active
<1> QED
    BY <1>1, <1>2, <1>3, <1>4 DEF SendsAreAccountedFor

----------------------------------------------------------------------------
(* Steps that replace one application record *)

\* What a new record r of role a must satisfy.
LEMMA RecordReplaced ==
    ASSUME SendsAreAccountedFor, TypeOK', NEW a \in Apps, NEW r \in AppRecords,
           app' = [app EXCEPT ![a] = r], employer' = employer,
           Accountable(r),
           r.mode = "chrome_session" /\ r.status \notin Terminal \cup {"pending"} =>
               Active(a) \/ \A b \in Apps : ~Active(b),
           \A t \in r.finalActions \ {None} : t \in app[a].finalActions \/ employer[t] = "rejected",
           \A t \in Attempts : attempt'[t].app \in {attempt[t].app, a},
           \A t \in Attempts : attempt'[t].app = a =>
               /\ r.mode = "chrome_session"
               /\ ~r.hold
               /\ t \in r.finalActions \cup {r.finalAction}
    PROVE  SendsAreAccountedFor'
<1>1. app'[a] = r /\ \A b \in Apps \ {a} : app'[b] = app[b]
    BY DEF SendsAreAccountedFor, TypeOK
<1>2. \A b \in Apps \ {a} : Active(b)' <=> Active(b)
    BY <1>1 DEF Active, Owned
<1>3. Active(a)' => Active(a) \/ \A b \in Apps : ~Active(b)
    BY <1>1 DEF Active, Owned
<1>4. OneCurrentApplication'
    BY <1>2, <1>3 DEF OneCurrentApplication, SendsAreAccountedFor
<1>5. ASSUME NEW b \in Apps
      PROVE  /\ Accountable(app'[b])
             /\ \A t \in app'[b].finalActions \ {None} : employer'[t] = "rejected"
    <2>1. CASE b = a
        BY <1>1, <2>1 DEF SendsAreAccountedFor
    <2>2. CASE b # a
        BY <1>1, <2>2 DEF SendsAreAccountedFor
    <2> QED
        BY <2>1, <2>2
<1>6. ASSUME NEW t \in Attempts, attempt'[t].app # None
      PROVE  LET b == attempt'[t].app
             IN  /\ app'[b].mode = "chrome_session"
                 /\ ~app'[b].hold
                 /\ t \in app'[b].finalActions \cup {app'[b].finalAction}
    <2>1. CASE attempt'[t].app = a
        BY <1>1, <2>1
    <2>2. CASE attempt'[t].app # a
        <3>1. attempt'[t].app = attempt[t].app
            BY <2>2
        <3>2. attempt[t].app \in Apps \ {a}
            BY <1>6, <2>2, <3>1 DEF SendsAreAccountedFor, TypeOK, AttemptRecords
        <3> QED
            BY <1>1, <1>6, <3>1, <3>2 DEF SendsAreAccountedFor, Owned
    <2> QED
        BY <2>1, <2>2
<1> QED
    BY <1>4, <1>5, <1>6 DEF SendsAreAccountedFor, Owned

\* The common case: the record changes, but not the attempts made for it.
LEMMA RecordKeepsAttempts ==
    ASSUME SendsAreAccountedFor, TypeOK', NEW a \in Apps, NEW r \in AppRecords,
           app' = [app EXCEPT ![a] = r], employer' = employer,
           Accountable(r),
           r.mode = "chrome_session" /\ r.status \notin Terminal \cup {"pending"} => Active(a),
           r.mode = app[a].mode, r.hold = app[a].hold,
           r.finalAction = app[a].finalAction, r.finalActions = app[a].finalActions,
           \A t \in Attempts : attempt'[t].app = attempt[t].app
    PROVE  SendsAreAccountedFor'
<1>1. \A t \in Attempts : attempt'[t].app = a =>
          /\ r.mode = "chrome_session"
          /\ ~r.hold
          /\ t \in r.finalActions \cup {r.finalAction}
    BY ChromeQueueAssumption DEF SendsAreAccountedFor, Owned, ChromeQueueAssumption
<1> QED
    BY <1>1, RecordReplaced

\* A session holds only the current application.
LEMMA HeldIsActive ==
    ASSUME SendsAreAccountedFor, NEW a \in Apps, NEW s \in Sessions, Holds(a, s)
    PROVE  Active(a) /\ app[a].status # "pending"
BY ChromeQueueAssumption
DEF Holds, Active, Owned, SendsAreAccountedFor, Accountable, Untouched, ChromeQueueAssumption

\* The same of a call whose session was read before its transaction.
LEMMA HeldRequest ==
    ASSUME SendsAreAccountedFor, NEW c \in Callers, request[c].op \notin {"none", "add"},
           Holds(request[c].app, request[c].session)
    PROVE  Active(request[c].app) /\ app[request[c].app].status # "pending"
BY RequestTyped, HeldIsActive DEF SendsAreAccountedFor

----------------------------------------------------------------------------
(* Steps that change no application record, or all of them *)

\* Applications, attempts and the employer's decisions stay as they are.
LEMMA NothingSent ==
    ASSUME SendsAreAccountedFor, TypeOK', app' = app, attempt' = attempt, employer' = employer
    PROVE  SendsAreAccountedFor'
BY DEF SendsAreAccountedFor, OneCurrentApplication, Active, Owned

LEMMA EnvironmentAccounted ==
    ASSUME SendsAreAccountedFor, TypeOK', Environment
    PROVE  SendsAreAccountedFor'
<1>1. CASE NextDay
    BY <1>1, NothingSent DEF NextDay
<1>2. CASE EditProfile
    BY <1>2, NothingSent DEF EditProfile
<1>3. ASSUME NEW a \in Apps, ChangePosting(a) PROVE SendsAreAccountedFor'
    BY <1>3, NothingSent DEF ChangePosting
<1>4. ASSUME NEW a \in Apps, ReviewExpires(a) PROVE SendsAreAccountedFor'
    <2> DEFINE r == [app[a] EXCEPT !.review = [app[a].review EXCEPT !.fresh = FALSE]]
    <2>1. app' = [app EXCEPT ![a] = r]
        BY <1>4 DEF ReviewExpires
    <2>2. r \in AppRecords
        BY <2>1 DEF SendsAreAccountedFor, TypeOK
    <2>3. /\ r.status = app[a].status /\ r.mode = app[a].mode /\ r.hold = app[a].hold
          /\ r.finalAction = app[a].finalAction /\ r.finalActions = app[a].finalActions
          /\ r.legacySent = app[a].legacySent /\ r.session = app[a].session
          /\ r.phase = app[a].phase /\ r.trace = app[a].trace
        BY DEF SendsAreAccountedFor, TypeOK, AppRecords
    <2>4. app[a].review # NoReview
        BY <1>4 DEF ReviewExpires, NoReview
    <2>5. Accountable(app[a])
        BY DEF SendsAreAccountedFor
    <2>6. Accountable(r)
        BY <2>3, <2>4, <2>5 DEF Accountable, Untouched
    <2> HIDE DEF r
    <2> QED
        BY <1>4, <2>1, <2>2, <2>3, <2>6, RecordKeepsAttempts DEF ReviewExpires, Active, Owned
<1>5. ASSUME NEW t \in Attempts, EmployerDecides(t) PROVE SendsAreAccountedFor'
    <2>1. \A u \in Attempts : employer[u] = "rejected" => employer'[u] = "rejected"
        BY <1>5 DEF EmployerDecides, SendsAreAccountedFor, TypeOK
    <2>2. \A a \in Apps : app[a].finalActions \subseteq Attempts \cup {None}
        BY FieldsTyped DEF SendsAreAccountedFor
    <2> QED
        BY <1>5, <2>1, <2>2
        DEF EmployerDecides, SendsAreAccountedFor, OneCurrentApplication, Active, Owned
<1> QED
    BY <1>1, <1>2, <1>3, <1>4, <1>5 DEF Environment

\* Recovery holds what may have been sent and makes nothing current.
LEMMA RecoveredIsAccountable ==
    ASSUME NEW r \in AppRecords, Accountable(r)
    PROVE  LET v == Recovered(r) IN
           /\ Accountable(v)
           /\ v.mode = r.mode /\ v.hold = r.hold
           /\ v.finalAction = r.finalAction /\ v.finalActions = r.finalActions
           /\ v.mode = "chrome_session" /\ v.status \notin Terminal \cup {"pending"} =>
                  r.status \notin Terminal \cup {"pending"}
<1> DEFINE v == Recovered(r)
<1>1. CASE r.mode # "chrome_session" /\ r.status \in ServerRunning
    <2> DEFINE ph == IF r.status = "submitting" \/ r.trace = "execution_started"
                     THEN "final_action_started" ELSE "before_final_action"
    <2>1. v = [r EXCEPT !.status = "waiting_confirmation", !.phase = ph]
        BY <1>1 DEF Recovered
    <2>2. /\ v.status = "waiting_confirmation" /\ v.phase = ph /\ v.mode = r.mode
          /\ v.hold = r.hold /\ v.finalAction = r.finalAction
          /\ v.finalActions = r.finalActions /\ v.session = r.session
          /\ v.review = r.review /\ v.trace = r.trace /\ v.legacySent = r.legacySent
        BY <2>1 DEF AppRecords
    <2>3. WorkerSendIsVisible(r) /\ r.phase \in {"none", "before_final_action", "final_action_started"}
        BY <1>1 DEF Accountable, AppRecords
    <2>4. WorkerSendIsVisible(v)
        BY <1>1, <2>2, <2>3 DEF WorkerSendIsVisible, ServerRunning
    <2> QED
        BY <1>1, <2>2, <2>4 DEF Accountable, Untouched
<1>2. CASE r.mode = "chrome_session" /\ r.status = "submission_started"
    <2>1. v = [r EXCEPT !.status = "submission_unverified", !.blocker = "outcome_check"]
        BY <1>2 DEF Recovered
    <2>2. /\ v.status = "submission_unverified" /\ v.mode = r.mode
          /\ v.hold = r.hold /\ v.finalAction = r.finalAction
          /\ v.finalActions = r.finalActions
          /\ v.review = r.review /\ v.legacySent = r.legacySent
        BY <2>1 DEF AppRecords
    <2> HIDE DEF v
    <2>3. Accountable(v)
        BY <1>2, <2>2 DEF Accountable, Submitting
    <2> QED
        BY <1>2, <2>2, <2>3 DEF Terminal, v
<1>3. CASE ~(r.mode # "chrome_session" /\ r.status \in ServerRunning)
           /\ ~(r.mode = "chrome_session" /\ r.status = "submission_started")
    BY <1>3 DEF Recovered
<1> QED
    BY <1>1, <1>2, <1>3

LEMMA RestartAccounted ==
    ASSUME SendsAreAccountedFor, TypeOK', Crash \/ Recover
    PROVE  SendsAreAccountedFor'
<1>1. CASE Crash
    BY <1>1, NothingSent DEF Crash
<1>2. CASE Recover
    <2>1. ASSUME NEW a \in Apps
          PROVE  /\ Accountable(app'[a])
                 /\ app'[a].mode = app[a].mode /\ app'[a].hold = app[a].hold
                 /\ app'[a].finalAction = app[a].finalAction
                 /\ app'[a].finalActions = app[a].finalActions
                 /\ Active(a)' => Active(a)
        <3>1. app'[a] = Recovered(app[a])
            BY <1>2 DEF Recover
        <3> QED
            BY <3>1, RecoveredIsAccountable DEF SendsAreAccountedFor, TypeOK, Active, Owned
    <2>2. OneCurrentApplication'
        BY <2>1 DEF OneCurrentApplication, SendsAreAccountedFor
    <2>3. attempt' = attempt /\ employer' = employer
        BY <1>2 DEF Recover
    <2>4. ASSUME NEW t \in Attempts, attempt[t].app # None
          PROVE  LET a == attempt[t].app
                 IN  app'[a].mode = "chrome_session" /\ ~app'[a].hold
                     /\ t \in app'[a].finalActions \cup {app'[a].finalAction}
        <3> DEFINE a == attempt[t].app
        <3>1. a \in Apps
            BY <2>4 DEF SendsAreAccountedFor, TypeOK, AttemptRecords
        <3>2. /\ app[a].mode = "chrome_session" /\ ~app[a].hold
              /\ t \in app[a].finalActions \cup {app[a].finalAction}
            BY <2>4 DEF SendsAreAccountedFor, Owned
        <3>3. /\ app'[a].mode = app[a].mode /\ app'[a].hold = app[a].hold
              /\ app'[a].finalAction = app[a].finalAction
              /\ app'[a].finalActions = app[a].finalActions
            BY <2>1, <3>1
        <3> QED
            BY <3>2, <3>3
    <2> QED
        BY <2>1, <2>2, <2>3, <2>4 DEF SendsAreAccountedFor, Owned
<1> QED
    BY <1>1, <1>2

LEMMA ReadPhaseAccounted ==
    ASSUME SendsAreAccountedFor, TypeOK', NEW c \in Callers, ReadPhase(c)
    PROVE  SendsAreAccountedFor'
<1>1. app' = app /\ attempt' = attempt /\ employer' = employer
    BY DEF ReadPhase, BeginAdd, BeginReview, BeginStart, BeginReceipt, BeginOwnerReceipt, Begin
<1> QED
    BY <1>1, NothingSent

----------------------------------------------------------------------------
(* Calls that end in a transaction *)

LEMMA AddAccounted ==
    ASSUME SendsAreAccountedFor, TypeOK', NEW c \in Callers, CommitAdd(c)
    PROVE  SendsAreAccountedFor'
<1> DEFINE a == request[c].app
<1>1. TypeOK
    BY DEF SendsAreAccountedFor
<1>2. a \in Apps /\ app[a] \in AppRecords
    BY <1>1, RequestTyped DEF CommitAdd, TypeOK
<1>3. attempt' = attempt /\ employer' = employer
    BY DEF CommitAdd, Commit
<1>4. ASSUME ~Owned(a) PROVE \A t \in Attempts : attempt'[t].app # a
    BY <1>2, <1>3, <1>4, ChromeQueueAssumption DEF SendsAreAccountedFor, ChromeQueueAssumption
<1>5. ASSUME NEW n, app[a].mode = "none",
             Commit(c, a, [NoApplication EXCEPT
                 !.status = "pending", !.mode = "chrome_session", !.position = n])
      PROVE  SendsAreAccountedFor'
    <2> DEFINE r == [NoApplication EXCEPT
                        !.status = "pending", !.mode = "chrome_session", !.position = n]
    <2>1. /\ r.status = "pending" /\ r.mode = "chrome_session" /\ r.hold = FALSE
          /\ r.finalAction = None /\ r.finalActions = {} /\ r.legacySent = FALSE
          /\ r.session = None /\ r.review = NoReview
        BY DEF NoApplication
    <2>2. app' = [app EXCEPT ![a] = r]
        BY <1>5 DEF Commit
    <2>3. r \in AppRecords
        BY <1>1, <1>2, <2>2 DEF TypeOK
    <2> HIDE DEF r
    <2>4. Accountable(r)
        BY <2>1 DEF Accountable, Untouched
    <2>5. \A t \in Attempts : attempt'[t].app # a
        BY <1>4, <1>5 DEF Owned
    <2> QED
        BY <1>2, <1>3, <2>1, <2>2, <2>3, <2>4, <2>5, RecordReplaced
<1>6. ASSUME NEW n, Adoptable(a),
             Commit(c, a, [app[a] EXCEPT
                 !.status = "pending", !.mode = "chrome_session", !.position = n,
                 !.hold = @ \/ Uncertain(a)])
      PROVE  SendsAreAccountedFor'
    <2> DEFINE h == app[a].hold \/ Uncertain(a)
               r == [app[a] EXCEPT !.status = "pending", !.mode = "chrome_session",
                                   !.position = n, !.hold = h]
    <2>1. /\ r.status = "pending" /\ r.mode = "chrome_session" /\ r.hold = h
          /\ r.finalAction = app[a].finalAction /\ r.finalActions = app[a].finalActions
          /\ r.legacySent = app[a].legacySent
          /\ r.session = app[a].session /\ r.review = app[a].review
        BY <1>2 DEF AppRecords
    <2>2. app' = [app EXCEPT ![a] = r]
        BY <1>6 DEF Commit
    <2>3. r \in AppRecords
        BY <1>1, <1>2, <2>2 DEF TypeOK
    <2> HIDE DEF r
    <2>4. Untouched(app[a]) /\ WorkerSendIsVisible(app[a])
        BY <1>2, <1>6 DEF SendsAreAccountedFor, Accountable, Adoptable, Owned
    <2>5. app[a].legacySent => h
        BY <2>4 DEF WorkerSendIsVisible, Uncertain
    <2>6. Accountable(r)
        BY <2>1, <2>4, <2>5 DEF Accountable, Untouched
    <2>7. \A t \in Attempts : attempt'[t].app # a
        BY <1>4, <1>6 DEF Adoptable
    <2> QED
        BY <1>2, <1>3, <2>1, <2>2, <2>3, <2>6, <2>7, RecordReplaced
<1> QED
    BY <1>5, <1>6 DEF CommitAdd

LEMMA ReviewAccounted ==
    ASSUME SendsAreAccountedFor, TypeOK', NEW c \in Callers, CommitReview(c)
    PROVE  SendsAreAccountedFor'
<1> DEFINE q == request[c]
           a == q.app
           r == [app[a] EXCEPT !.review =
                   [preview |-> q.preview, profile |-> q.profile, posting |-> posting[a],
                    by |-> q.session, fresh |-> TRUE]]
<1>1. a \in Apps /\ app[a] \in AppRecords
    BY RequestTyped DEF CommitReview, TypeOK, SendsAreAccountedFor
<1>2. /\ app[a].mode = "chrome_session" /\ app[a].status = "in_progress"
      /\ app' = [app EXCEPT ![a] = r] /\ employer' = employer /\ attempt' = attempt
    BY DEF CommitReview, Holds, Owned, Commit
<1>3. /\ r.status = app[a].status /\ r.mode = app[a].mode /\ r.hold = app[a].hold
      /\ r.finalAction = app[a].finalAction /\ r.finalActions = app[a].finalActions
      /\ r.legacySent = app[a].legacySent
    BY <1>1 DEF AppRecords
<1>4. r \in AppRecords
    BY <1>1, <1>2 DEF TypeOK
<1> HIDE DEF r
<1>5. Accountable(app[a])
    BY <1>1 DEF SendsAreAccountedFor
<1>6. Accountable(r)
    BY <1>2, <1>3, <1>5 DEF Accountable
<1> QED
    BY <1>1, <1>2, <1>3, <1>4, <1>6, RecordKeepsAttempts DEF Active, Owned

LEMMA StartAccounted ==
    ASSUME SendsAreAccountedFor, TypeOK', NEW c \in Callers, CommitStart(c)
    PROVE  SendsAreAccountedFor'
<1> DEFINE a == request[c].app
<1>1. a \in Apps /\ app[a] \in AppRecords
    BY RequestTyped DEF CommitStart, TypeOK, SendsAreAccountedFor
<1>2. /\ app[a].mode = "chrome_session" /\ app[a].status = "in_progress"
      /\ app[a].finalAction = None
    BY DEF CommitStart, Holds, Owned
<1>3. PICK t \in Attempts :
          /\ app' = [app EXCEPT ![a] = [app[a] EXCEPT !.finalAction = t,
                                                     !.status = "submission_started"]]
          /\ employer' = employer
          /\ attempt' = [attempt EXCEPT ![t] =
                [app |-> a, by |-> request[c].session, day |-> day, status |-> "submitting"]]
    BY DEF CommitStart, Press, Commit
<1> DEFINE r == [app[a] EXCEPT !.finalAction = t, !.status = "submission_started"]
<1>4. /\ r.status = "submission_started" /\ r.mode = app[a].mode /\ r.hold = app[a].hold
      /\ r.finalAction = t /\ r.finalActions = app[a].finalActions
      /\ r.legacySent = app[a].legacySent
    BY <1>1 DEF AppRecords
<1>5. r \in AppRecords /\ app' = [app EXCEPT ![a] = r]
    BY <1>1, <1>3 DEF TypeOK
<1> HIDE DEF r
<1>6. Accountable(app[a])
    BY <1>1 DEF SendsAreAccountedFor
<1>7. ~app[a].hold
    BY <1>2, <1>6 DEF Accountable
<1>8. Accountable(r)
    BY <1>2, <1>4, <1>6, <1>7 DEF Accountable, Submitting
<1>9. Active(a)
    BY <1>2 DEF Active, Owned, Terminal
<1>10. \A u \in Attempts : attempt'[u].app \in {attempt[u].app, a}
    BY <1>3 DEF SendsAreAccountedFor, TypeOK
<1>11. ASSUME NEW u \in Attempts, attempt'[u].app = a
       PROVE  u \in r.finalActions \cup {r.finalAction}
    <2>1. CASE u = t
        BY <1>4, <2>1
    <2>2. CASE u # t
        <3>1. attempt[u].app = a
            BY <1>3, <1>11, <2>2 DEF SendsAreAccountedFor, TypeOK
        <3>2. u \in app[a].finalActions \cup {app[a].finalAction}
            BY <1>1, <3>1, ChromeQueueAssumption DEF SendsAreAccountedFor, ChromeQueueAssumption
        <3> QED
            BY <1>2, <1>4, <3>2, ChromeQueueAssumption DEF ChromeQueueAssumption
    <2> QED
        BY <2>1, <2>2
<1> QED
    BY <1>1, <1>2, <1>3, <1>4, <1>5, <1>7, <1>8, <1>9, <1>10, <1>11, RecordReplaced

LEMMA ReceiptAccounted ==
    ASSUME SendsAreAccountedFor, TypeOK', NEW c \in Callers, CommitReceipt(c)
    PROVE  SendsAreAccountedFor'
<1> DEFINE a == request[c].app
           t == request[c].attempt
<1>1. a \in Apps /\ app[a] \in AppRecords
    BY RequestTyped DEF CommitReceipt, TypeOK, SendsAreAccountedFor
<1>2. /\ app[a].mode = "chrome_session" /\ employer' = employer
      /\ attempt' = [u \in Attempts |->
              IF u = t THEN [attempt[u] EXCEPT !.status = "submitted"] ELSE attempt[u]]
    BY DEF CommitReceipt, Holds, Owned, Commit
<1>3. Active(a) /\ app[a].status # "pending"
    BY <1>1, HeldRequest DEF CommitReceipt, SendsAreAccountedFor
<1>4. PICK d : app' = [app EXCEPT ![a] = [app[a] EXCEPT !.status = "submitted", !.receipt = t,
                                                  !.receiptDay = d, !.blocker = "none"]]
    BY DEF CommitReceipt, Commit
<1> DEFINE r == [app[a] EXCEPT !.status = "submitted", !.receipt = t,
                               !.receiptDay = d, !.blocker = "none"]
<1>5. /\ r.status = "submitted" /\ r.mode = app[a].mode /\ r.hold = app[a].hold
      /\ r.finalAction = app[a].finalAction /\ r.finalActions = app[a].finalActions
      /\ r.legacySent = app[a].legacySent /\ r.review = app[a].review
    BY <1>1 DEF AppRecords
<1>6. r \in AppRecords /\ app' = [app EXCEPT ![a] = r]
    BY <1>1, <1>4 DEF TypeOK
<1> HIDE DEF r
<1>7. Accountable(app[a])
    BY <1>1 DEF SendsAreAccountedFor
<1>8. Accountable(r)
    BY <1>2, <1>5, <1>7 DEF Accountable, Submitting
<1>9. \A u \in Attempts : attempt'[u].app = attempt[u].app
    BY <1>2 DEF SendsAreAccountedFor, TypeOK, AttemptRecords
<1> QED
    BY <1>1, <1>2, <1>3, <1>5, <1>6, <1>8, <1>9, RecordKeepsAttempts

LEMMA OwnerReceiptAccounted ==
    ASSUME SendsAreAccountedFor, TypeOK', NEW c \in Callers, CommitOwnerReceipt(c)
    PROVE  SendsAreAccountedFor'
<1> DEFINE a == request[c].app
<1>1. a \in Apps /\ app[a] \in AppRecords
    BY RequestTyped DEF CommitOwnerReceipt, TypeOK, SendsAreAccountedFor
<1>2. /\ app[a].mode = "chrome_session" /\ ~InDoubt(a)
      /\ employer' = employer /\ attempt' = attempt
    BY DEF CommitOwnerReceipt, Holds, Owned, Commit
<1>3. PICK d : app' = [app EXCEPT ![a] = [app[a] EXCEPT !.status = "owner_reported_submitted",
                          !.ownerReport = "browser", !.ownerDay = d, !.blocker = "none"]]
    BY DEF CommitOwnerReceipt, Commit
<1> DEFINE r == [app[a] EXCEPT !.status = "owner_reported_submitted",
                               !.ownerReport = "browser", !.ownerDay = d, !.blocker = "none"]
<1>4. /\ r.status = "owner_reported_submitted" /\ r.mode = app[a].mode /\ r.hold = app[a].hold
      /\ r.finalAction = app[a].finalAction /\ r.finalActions = app[a].finalActions
      /\ r.legacySent = app[a].legacySent
    BY <1>1 DEF AppRecords
<1>5. r \in AppRecords /\ app' = [app EXCEPT ![a] = r]
    BY <1>1, <1>3 DEF TypeOK
<1> HIDE DEF r
<1>6. Accountable(app[a])
    BY <1>1 DEF SendsAreAccountedFor
<1>7. Accountable(r)
    BY <1>2, <1>4, <1>6 DEF Accountable, InDoubt
<1> QED
    BY <1>1, <1>2, <1>4, <1>5, <1>7, RecordKeepsAttempts DEF Terminal

LEMMA CommitPhaseAccounted ==
    ASSUME SendsAreAccountedFor, TypeOK', NEW c \in Callers, CommitPhase(c)
    PROVE  SendsAreAccountedFor'
<1>1. CASE Refuse(c)
    BY <1>1, NothingSent DEF Refuse
<1> QED
    BY <1>1, AddAccounted, ReviewAccounted, StartAccounted, ReceiptAccounted,
       OwnerReceiptAccounted
    DEF CommitPhase

----------------------------------------------------------------------------
(* Calls that are one transaction *)

LEMMA ClaimAccounted ==
    ASSUME SendsAreAccountedFor, TypeOK', NEW a \in Apps, NEW s \in Sessions, Claim(a, s)
    PROVE  SendsAreAccountedFor'
<1> DEFINE r == Claimed(a, s)
<1>1. app[a] \in AppRecords /\ app[a].hold \in BOOLEAN
    BY FieldsTyped DEF SendsAreAccountedFor
<1>2. /\ app[a].mode = "chrome_session" /\ app[a].status = "pending"
      /\ \A b \in Apps : ~Active(b)
      /\ app' = [app EXCEPT ![a] = r] /\ employer' = employer /\ attempt' = attempt
    BY DEF Claim, FirstPending, Owned, Update
<1>3. /\ r.status = IF app[a].hold THEN "submission_unverified" ELSE "in_progress"
      /\ r.mode = app[a].mode /\ r.hold = app[a].hold
      /\ r.finalAction = app[a].finalAction /\ r.finalActions = app[a].finalActions
      /\ r.legacySent = app[a].legacySent /\ r.review = app[a].review
    BY <1>1 DEF AppRecords, Claimed
<1>4. r \in AppRecords
    BY <1>2 DEF TypeOK
<1> HIDE DEF r
<1>5. Accountable(app[a])
    BY DEF SendsAreAccountedFor
<1>6. Accountable(r)
    BY <1>1, <1>2, <1>3, <1>5 DEF Accountable, Untouched
<1>7. \A t \in Attempts : attempt'[t].app = a =>
          ~r.hold /\ t \in r.finalActions \cup {r.finalAction}
    BY <1>2, <1>3, ChromeQueueAssumption DEF SendsAreAccountedFor, ChromeQueueAssumption
<1> QED
    BY <1>2, <1>3, <1>4, <1>6, <1>7, RecordReplaced

LEMMA CheckpointAccounted ==
    ASSUME SendsAreAccountedFor, TypeOK', NEW a \in Apps, NEW s \in Sessions, NEW kind, NEW named,
           Checkpoint(a, s, kind, named)
    PROVE  SendsAreAccountedFor'
<1> DEFINE st == IF InDoubt(a) THEN "submission_unverified" ELSE "waiting_owner"
           rv == IF app[a].finalAction = None THEN NoReview ELSE app[a].review
           r == [app[a] EXCEPT !.blocker = kind, !.handoff = named, !.status = st, !.review = rv]
<1>1. app[a] \in AppRecords /\ Active(a) /\ app[a].mode = "chrome_session"
    BY FieldsTyped, HeldIsActive DEF SendsAreAccountedFor, Checkpoint, Active, Owned
<1>2. app' = [app EXCEPT ![a] = r] /\ employer' = employer /\ attempt' = attempt
    BY DEF Checkpoint, Update
<1>3. /\ r.status = st /\ r.mode = app[a].mode /\ r.hold = app[a].hold
      /\ r.finalAction = app[a].finalAction /\ r.finalActions = app[a].finalActions
      /\ r.legacySent = app[a].legacySent /\ r.review = rv
    BY <1>1 DEF AppRecords
<1>4. r \in AppRecords
    BY <1>2 DEF TypeOK
<1> HIDE DEF r
<1>5. Accountable(app[a])
    BY DEF SendsAreAccountedFor
<1>6. Accountable(r)
    BY <1>1, <1>3, <1>5 DEF Accountable, InDoubt, Submitting
<1> QED
    BY <1>1, <1>2, <1>3, <1>4, <1>6, RecordKeepsAttempts

LEMMA ResumeAccounted ==
    ASSUME SendsAreAccountedFor, TypeOK', NEW a \in Apps, NEW s \in Sessions, Resume(a, s)
    PROVE  SendsAreAccountedFor'
<1> DEFINE r == [app[a] EXCEPT !.status = "in_progress", !.blocker = "none", !.review = NoReview]
<1>1. /\ app[a] \in AppRecords /\ Active(a) /\ app[a].mode = "chrome_session"
      /\ app[a].finalAction = None /\ ~app[a].hold
    BY FieldsTyped, HeldIsActive DEF SendsAreAccountedFor, Resume, InDoubt, Active, Owned
<1>2. app' = [app EXCEPT ![a] = r] /\ employer' = employer /\ attempt' = attempt
    BY DEF Resume, Update
<1>3. /\ r.status = "in_progress" /\ r.mode = app[a].mode /\ r.hold = app[a].hold
      /\ r.finalAction = app[a].finalAction /\ r.finalActions = app[a].finalActions
      /\ r.legacySent = app[a].legacySent
    BY <1>1 DEF AppRecords
<1>4. r \in AppRecords
    BY <1>2 DEF TypeOK
<1> HIDE DEF r
<1>5. Accountable(app[a])
    BY DEF SendsAreAccountedFor
<1>6. Accountable(r)
    BY <1>1, <1>3, <1>5 DEF Accountable
<1> QED
    BY <1>1, <1>2, <1>3, <1>4, <1>6, RecordKeepsAttempts

\* Only an attempt that is known to have failed is archived.
LEMMA ArchiveAccounted ==
    ASSUME SendsAreAccountedFor, TypeOK', NEW a \in Apps, NEW t \in Attempts \cup {None},
           NEW outcome, Archive(a, t, outcome), Active(a), ~app[a].hold,
           t = app[a].finalAction, t # None => employer[t] = "rejected"
    PROVE  SendsAreAccountedFor'
<1> DEFINE fs == app[a].finalActions \cup {t}
           r  == [app[a] EXCEPT !.finalActions = fs, !.finalAction = None,
                     !.review = NoReview, !.blocker = "none", !.status = "in_progress"]
<1>1. app[a] \in AppRecords /\ app[a].mode = "chrome_session"
    BY FieldsTyped DEF SendsAreAccountedFor, Active, Owned
<1>2. app' = [app EXCEPT ![a] = r] /\ employer' = employer
    BY DEF Archive, Update
<1>3. /\ r.status = "in_progress" /\ r.mode = app[a].mode /\ r.hold = app[a].hold
      /\ r.finalAction = None /\ r.finalActions = fs /\ r.legacySent = app[a].legacySent
    BY <1>1 DEF AppRecords
<1>4. r \in AppRecords
    BY <1>2 DEF TypeOK
<1> HIDE DEF r
<1>5. Accountable(app[a])
    BY DEF SendsAreAccountedFor
<1>6. Accountable(r)
    BY <1>1, <1>3, <1>5 DEF Accountable
<1>7. \A u \in Attempts : attempt'[u].app = attempt[u].app
    BY DEF Archive, SendsAreAccountedFor, TypeOK, AttemptRecords
<1>8. \A u \in Attempts : attempt'[u].app = a => u \in fs
    BY <1>7, ChromeQueueAssumption DEF SendsAreAccountedFor, ChromeQueueAssumption
<1> QED
    BY <1>1, <1>2, <1>3, <1>4, <1>6, <1>7, <1>8, RecordReplaced, SMTT(30), ZenonT(40)

LEMMA RejectionAccounted ==
    ASSUME SendsAreAccountedFor, TypeOK', NEW a \in Apps, NEW s \in Sessions,
           NEW t \in Attempts \cup {None}, NotSubmitted(a, s, t) \/ ValidationError(a, s, t)
    PROVE  SendsAreAccountedFor'
<1>1. Accountable(app[a]) /\ app[a].hold \in BOOLEAN
    BY FieldsTyped DEF SendsAreAccountedFor
<1>2. CASE NotSubmitted(a, s, t)
    BY <1>2, HeldIsActive, ArchiveAccounted DEF NotSubmitted
<1>3. CASE ValidationError(a, s, t)
    <2>1. ~app[a].hold
        <3>1. app[a].mode = "chrome_session"
            BY <1>3 DEF ValidationError, Holds, Owned
        <3>2. CASE app[a].status = "submission_started"
            BY <1>1, <3>1, <3>2 DEF Accountable
        <3>3. CASE OwnerCaptchaHandoff(a)
            BY <1>1, <3>1, <3>3 DEF Accountable, OwnerCaptchaHandoff, NoReview
        <3> QED
            BY <1>3, <3>2, <3>3 DEF ValidationError
    <2> QED
        BY <1>3, <2>1, HeldIsActive, ArchiveAccounted DEF ValidationError
<1> QED
    BY <1>2, <1>3

LEMMA TakeoverAccounted ==
    ASSUME SendsAreAccountedFor, TypeOK', NEW a \in Apps, NEW s \in Sessions, Takeover(a, s)
    PROVE  SendsAreAccountedFor'
<1> DEFINE st == IF app[a].status = "submission_started"
                 THEN "submission_unverified" ELSE app[a].status
           rv == IF app[a].finalAction = None THEN NoReview ELSE app[a].review
           r == [app[a] EXCEPT !.session = s, !.status = st, !.review = rv]
<1>1. app[a] \in AppRecords /\ Active(a) /\ app[a].mode = "chrome_session"
    BY FieldsTyped DEF SendsAreAccountedFor, Takeover, Active, Owned
<1>2. app' = [app EXCEPT ![a] = r] /\ employer' = employer /\ attempt' = attempt
    BY DEF Takeover, Update
<1>3. /\ r.status = st /\ r.mode = app[a].mode /\ r.hold = app[a].hold
      /\ r.finalAction = app[a].finalAction /\ r.finalActions = app[a].finalActions
      /\ r.legacySent = app[a].legacySent /\ r.review = rv
    BY <1>1 DEF AppRecords
<1>4. r \in AppRecords
    BY <1>2 DEF TypeOK
<1> HIDE DEF r
<1>5. Accountable(app[a])
    BY DEF SendsAreAccountedFor
<1>6. Accountable(r)
    BY <1>1, <1>3, <1>5 DEF Accountable, Active, Submitting
<1> QED
    BY <1>1, <1>2, <1>3, <1>4, <1>6, RecordKeepsAttempts

LEMMA SkipAccounted ==
    ASSUME SendsAreAccountedFor, TypeOK', NEW a \in Apps, NEW s \in Sessions, NEW stopped,
           Skip(a, s, stopped)
    PROVE  SendsAreAccountedFor'
<1> DEFINE r == [app[a] EXCEPT !.status = "skipped"]
<1>1. app[a] \in AppRecords /\ Active(a) /\ app[a].mode = "chrome_session"
    BY FieldsTyped, HeldIsActive DEF SendsAreAccountedFor, Skip, Active, Owned
<1>2. app' = [app EXCEPT ![a] = r] /\ employer' = employer /\ attempt' = attempt
    BY DEF Skip, Update
<1>3. /\ r.status = "skipped" /\ r.mode = app[a].mode /\ r.hold = app[a].hold
      /\ r.finalAction = app[a].finalAction /\ r.finalActions = app[a].finalActions
      /\ r.legacySent = app[a].legacySent /\ r.review = app[a].review
    BY <1>1 DEF AppRecords
<1>4. r \in AppRecords
    BY <1>2 DEF TypeOK
<1> HIDE DEF r
<1>5. Accountable(app[a])
    BY DEF SendsAreAccountedFor
<1>6. Accountable(r)
    BY <1>1, <1>3, <1>5 DEF Accountable
<1> QED
    BY <1>1, <1>2, <1>3, <1>4, <1>6, RecordKeepsAttempts

LEMMA SessionCallAccounted ==
    ASSUME SendsAreAccountedFor, TypeOK', NEW a \in Apps, NEW s \in Sessions, SessionCall(a, s)
    PROVE  SendsAreAccountedFor'
BY ClaimAccounted, CheckpointAccounted, ResumeAccounted, RejectionAccounted, TakeoverAccounted,
   SkipAccounted
DEF SessionCall

----------------------------------------------------------------------------
(* The theorems *)

LEMMA NextAccounted == SendsAreAccountedFor /\ [Next]_vars => SendsAreAccountedFor'
<1> SUFFICES ASSUME SendsAreAccountedFor, [Next]_vars PROVE SendsAreAccountedFor'
    OBVIOUS
<1>1. TypeOK'
    BY NextTyped DEF SendsAreAccountedFor
<1>2. CASE UNCHANGED vars
    BY <1>1, <1>2, NothingSent DEF vars
<1>3. CASE Next
    BY <1>1, <1>3, EnvironmentAccounted, RestartAccounted, ReadPhaseAccounted,
       CommitPhaseAccounted, SessionCallAccounted
    DEF Next
<1> QED
    BY <1>2, <1>3

\* In every reachable state each record tells what became of its sends.
THEOREM SendsAccounted == Spec => []SendsAreAccountedFor
<1>1. Init => SendsAreAccountedFor
    BY InitAccounted
<1>2. SendsAreAccountedFor /\ [Next]_vars => SendsAreAccountedFor'
    BY NextAccounted
<1> QED
    BY <1>1, <1>2, PTL DEF Spec

\* At most one role of the profile is current, whatever is claimed, taken over,
\* adopted or recovered (chrome-queue.js: claim, takeover, recover).
THEOREM OneCurrent == Spec => []OneCurrentApplication
<1>1. SendsAreAccountedFor => OneCurrentApplication
    BY DEF SendsAreAccountedFor
<1> QED
    BY <1>1, SendsAccounted, PTL

\* A role whose outcome is unknown is held until a receipt or the owner's
\* decision ends it (chrome-queue.js: checkpoint, resume, claim, recover).
THEOREM DoubtHeld == Spec => []DoubtIsHeld
<1>1. SendsAreAccountedFor => DoubtIsHeld
    BY DEF SendsAreAccountedFor, DoubtIsHeld, Accountable, InDoubt, Owned, Submitting
<1> QED
    BY <1>1, SendsAccounted, PTL

\* No employer receives the same application twice: the attempts of a role that
\* were archived failed, and only one is not archived.
THEOREM NeverSentTwice == Spec => []NoDuplicateSubmission
<1>1. SendsAreAccountedFor => NoDuplicateSubmission
    <2> SUFFICES ASSUME SendsAreAccountedFor, NEW a \in Apps, NEW t \in Sends(a), NEW u \in Sends(a)
                 PROVE  t = u
        BY DEF NoDuplicateSubmission
    <2>1. ASSUME NEW v \in Attempts, v \in Sends(a)
          PROVE  Owned(a) /\ ~app[a].hold /\ v = app[a].finalAction
        <3>1. attempt[v].app = a /\ employer[v] = "accepted"
            BY <2>1, ChromeQueueAssumption DEF Sends, ChromeQueueAssumption
        <3>2. Owned(a) /\ ~app[a].hold /\ v \in app[a].finalActions \cup {app[a].finalAction}
            BY <3>1, ChromeQueueAssumption DEF SendsAreAccountedFor, ChromeQueueAssumption
        <3>3. v \notin app[a].finalActions
            BY <2>1, <3>1, ChromeQueueAssumption DEF SendsAreAccountedFor, ChromeQueueAssumption
        <3> QED
            BY <3>2, <3>3
    <2>2. LegacyAttempt \in Sends(a) /\ Owned(a) => app[a].hold
        BY ChromeQueueAssumption
        DEF Sends, SendsAreAccountedFor, Accountable, Owned, ChromeQueueAssumption
    <2>3. t \in Attempts \cup {LegacyAttempt} /\ u \in Attempts \cup {LegacyAttempt}
        BY DEF Sends
    <2> QED
        BY <2>1, <2>2, <2>3
<1> QED
    BY <1>1, SendsAccounted, PTL
=============================================================================
