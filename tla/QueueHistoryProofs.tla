-------------------------- MODULE QueueHistoryProofs --------------------------
(***************************************************************************)
(* What the queue's records say of its past: the attempts collection       *)
(* agrees with the applications, finished roles stay finished, roles are   *)
(* taken in order, and permission to press Submit rests on a review of the *)
(* session that gets it.  The proofs go by what each operation does to the *)
(* one record it replaces.                                                 *)
(***************************************************************************)
EXTENDS ChromeQueueProofs, FiniteSetTheorems

----------------------------------------------------------------------------
(* What the operations do to the record of role a *)

\* No other role's record changes, and the employer decides nothing.
Touches(a) ==
    /\ \A b \in Apps \ {a} : app'[b] = app[b]
    /\ employer' = employer

\* What most operations leave alone.
Keeps(a) ==
    /\ app'[a].mode = app[a].mode
    /\ app'[a].position = app[a].position
    /\ app'[a].hold = app[a].hold
    /\ app'[a].finalAction = app[a].finalAction
    /\ app'[a].finalActions = app[a].finalActions
    /\ app'[a].receipt = app[a].receipt
    /\ app'[a].legacySent = app[a].legacySent

\* A review survives only with its session.
ReviewFollows(a) ==
    \/ app'[a].review.preview = "none"
    \/ app'[a].finalAction # None
    \/ app'[a].review.by = app'[a].session
    \/ /\ app'[a].review.preview = app[a].review.preview
       /\ app'[a].review.by = app[a].review.by
       /\ app'[a].session = app[a].session

\* The statuses of a role a session works on.
Workable == {"in_progress", "waiting_owner"}

\* The steps between taking a role and finishing it, and every step that does
\* not concern it: a role that is not current keeps its status, and a session
\* that works on it makes it look sent only if it may have been.
Carries(a) ==
    /\ Keeps(a)
    /\ app'[a].ownerReport = app[a].ownerReport
    /\ ReviewFollows(a)
    /\ \/ app'[a].status = app[a].status
       \/ ~Owned(a)
       \/ /\ Active(a)
          /\ app'[a].status \in Workable \cup Submitting
          /\ app'[a].status \in Submitting => InDoubt(a) \/ app[a].status \in Submitting

CarriesAll == attempt' = attempt /\ \A a \in Apps : Carries(a)

\* The employer's rejection of the recorded attempt reopens the role.
Rejects(a, t, outcome) ==
    /\ Active(a)
    /\ ~app[a].hold
    /\ app[a].status \in Submitting
    /\ t = app[a].finalAction
    /\ t \in Attempts => employer[t] = "rejected"
    /\ Archive(a, t, outcome)

LEMMA Replaced ==
    ASSUME TypeOK, NEW a \in Apps, NEW r, app' = [app EXCEPT ![a] = r], employer' = employer
    PROVE  Touches(a) /\ app'[a] = r
BY DEF TypeOK, Touches

LEMMA ReviewExpiresEffect ==
    ASSUME TypeOK, NEW a \in Apps, ReviewExpires(a)
    PROVE  /\ Touches(a) /\ Keeps(a) /\ attempt' = attempt
           /\ app'[a].status = app[a].status
           /\ app'[a].ownerReport = app[a].ownerReport
           /\ ReviewFollows(a)
<1> DEFINE r == [app[a] EXCEPT !.review = [app[a].review EXCEPT !.fresh = FALSE]]
<1>1. app[a] \in AppRecords /\ app[a].review \in Reviews
    BY FieldsTyped
<1>2. app' = [app EXCEPT ![a] = r] /\ attempt' = attempt /\ employer' = employer
    BY DEF ReviewExpires
<1>3. Touches(a) /\ app'[a] = r
    BY <1>2, Replaced
<1>4. /\ r.mode = app[a].mode /\ r.position = app[a].position /\ r.hold = app[a].hold
      /\ r.finalAction = app[a].finalAction /\ r.finalActions = app[a].finalActions
      /\ r.receipt = app[a].receipt /\ r.legacySent = app[a].legacySent
      /\ r.status = app[a].status /\ r.ownerReport = app[a].ownerReport
      /\ r.session = app[a].session
    BY <1>1 DEF AppRecords
<1>5. r.review.preview = app[a].review.preview /\ r.review.by = app[a].review.by
    BY <1>1 DEF AppRecords, Reviews
<1> QED
    BY <1>2, <1>3, <1>4, <1>5 DEF Keeps, ReviewFollows

LEMMA ClaimEffect ==
    ASSUME TypeOK, NEW a \in Apps, NEW s \in Sessions, Claim(a, s)
    PROVE  /\ Touches(a) /\ Keeps(a) /\ attempt' = attempt
           /\ FirstPending(a) /\ \A b \in Apps : ~Active(b)
           /\ app'[a].status = IF app[a].hold THEN "submission_unverified" ELSE "in_progress"
           /\ app'[a].ownerReport = app[a].ownerReport
           /\ app'[a].review = app[a].review
<1>1. app[a] \in AppRecords
    BY FieldsTyped
<1>2. /\ app' = [app EXCEPT ![a] = Claimed(a, s)] /\ attempt' = attempt /\ employer' = employer
      /\ FirstPending(a) /\ \A b \in Apps : ~Active(b)
    BY DEF Claim, Update
<1> DEFINE r == Claimed(a, s)
<1>3. Touches(a) /\ app'[a] = r
    BY <1>2, Replaced
<1>4. /\ r.mode = app[a].mode /\ r.position = app[a].position /\ r.hold = app[a].hold
      /\ r.finalAction = app[a].finalAction /\ r.finalActions = app[a].finalActions
      /\ r.receipt = app[a].receipt /\ r.legacySent = app[a].legacySent
      /\ r.status = (IF app[a].hold THEN "submission_unverified" ELSE "in_progress")
      /\ r.ownerReport = app[a].ownerReport /\ r.review = app[a].review
    BY <1>1 DEF Claimed, AppRecords
<1> HIDE DEF r
<1> QED
    BY <1>2, <1>3, <1>4 DEF Keeps

LEMMA CheckpointEffect ==
    ASSUME TypeOK, NEW a \in Apps, NEW s \in Sessions, NEW kind, NEW named,
           Checkpoint(a, s, kind, named)
    PROVE  /\ Touches(a) /\ Keeps(a) /\ attempt' = attempt
           /\ Holds(a, s)
           /\ app'[a].status = IF InDoubt(a) THEN "submission_unverified" ELSE "waiting_owner"
           /\ app'[a].ownerReport = app[a].ownerReport
           /\ ReviewFollows(a)
<1> DEFINE st == IF InDoubt(a) THEN "submission_unverified" ELSE "waiting_owner"
           rv == IF app[a].finalAction = None THEN NoReview ELSE app[a].review
           r == [app[a] EXCEPT !.blocker = kind, !.handoff = named, !.status = st, !.review = rv]
<1>1. app[a] \in AppRecords
    BY FieldsTyped
<1>2. app' = [app EXCEPT ![a] = r] /\ attempt' = attempt /\ employer' = employer /\ Holds(a, s)
    BY DEF Checkpoint, Update
<1>3. Touches(a) /\ app'[a] = r
    BY <1>2, Replaced
<1>4. /\ r.mode = app[a].mode /\ r.position = app[a].position /\ r.hold = app[a].hold
      /\ r.finalAction = app[a].finalAction /\ r.finalActions = app[a].finalActions
      /\ r.receipt = app[a].receipt /\ r.legacySent = app[a].legacySent
      /\ r.status = st /\ r.ownerReport = app[a].ownerReport
      /\ r.session = app[a].session /\ r.review = rv
    BY <1>1 DEF AppRecords
<1> HIDE DEF r
<1> QED
    BY <1>2, <1>3, <1>4 DEF Keeps, ReviewFollows, NoReview

LEMMA ResumeEffect ==
    ASSUME TypeOK, NEW a \in Apps, NEW s \in Sessions, Resume(a, s)
    PROVE  /\ Touches(a) /\ Keeps(a) /\ attempt' = attempt
           /\ Holds(a, s)
           /\ app'[a].status = "in_progress"
           /\ app'[a].ownerReport = app[a].ownerReport
           /\ ReviewFollows(a)
<1> DEFINE r == [app[a] EXCEPT !.status = "in_progress", !.blocker = "none", !.review = NoReview]
<1>1. app[a] \in AppRecords
    BY FieldsTyped
<1>2. app' = [app EXCEPT ![a] = r] /\ attempt' = attempt /\ employer' = employer /\ Holds(a, s)
    BY DEF Resume, Update
<1>3. Touches(a) /\ app'[a] = r
    BY <1>2, Replaced
<1>4. /\ r.mode = app[a].mode /\ r.position = app[a].position /\ r.hold = app[a].hold
      /\ r.finalAction = app[a].finalAction /\ r.finalActions = app[a].finalActions
      /\ r.receipt = app[a].receipt /\ r.legacySent = app[a].legacySent
      /\ r.status = "in_progress" /\ r.ownerReport = app[a].ownerReport
      /\ r.review = NoReview
    BY <1>1 DEF AppRecords
<1> HIDE DEF r
<1> QED
    BY <1>2, <1>3, <1>4 DEF Keeps, ReviewFollows, NoReview

LEMMA TakeoverEffect ==
    ASSUME TypeOK, NEW a \in Apps, NEW s \in Sessions, Takeover(a, s)
    PROVE  /\ Touches(a) /\ Keeps(a) /\ attempt' = attempt
           /\ Active(a)
           /\ app'[a].status = IF app[a].status = "submission_started"
                               THEN "submission_unverified" ELSE app[a].status
           /\ app'[a].ownerReport = app[a].ownerReport
           /\ ReviewFollows(a)
<1> DEFINE st == IF app[a].status = "submission_started"
                 THEN "submission_unverified" ELSE app[a].status
           rv == IF app[a].finalAction = None THEN NoReview ELSE app[a].review
           r == [app[a] EXCEPT !.session = s, !.status = st, !.review = rv]
<1>1. app[a] \in AppRecords
    BY FieldsTyped
<1>2. app' = [app EXCEPT ![a] = r] /\ attempt' = attempt /\ employer' = employer /\ Active(a)
    BY DEF Takeover, Update
<1>3. Touches(a) /\ app'[a] = r
    BY <1>2, Replaced
<1>4. /\ r.mode = app[a].mode /\ r.position = app[a].position /\ r.hold = app[a].hold
      /\ r.finalAction = app[a].finalAction /\ r.finalActions = app[a].finalActions
      /\ r.receipt = app[a].receipt /\ r.legacySent = app[a].legacySent
      /\ r.status = st /\ r.ownerReport = app[a].ownerReport /\ r.review = rv
    BY <1>1 DEF AppRecords
<1> HIDE DEF r
<1> QED
    BY <1>2, <1>3, <1>4 DEF Keeps, ReviewFollows, NoReview

LEMMA SkipEffect ==
    ASSUME TypeOK, NEW a \in Apps, NEW s \in Sessions, NEW stopped, Skip(a, s, stopped)
    PROVE  /\ Touches(a) /\ Keeps(a) /\ attempt' = attempt
           /\ Holds(a, s)
           /\ app'[a].status = "skipped"
           /\ app'[a].ownerReport = app[a].ownerReport
           /\ ReviewFollows(a)
<1> DEFINE r == [app[a] EXCEPT !.status = "skipped"]
<1>1. app[a] \in AppRecords
    BY FieldsTyped
<1>2. app' = [app EXCEPT ![a] = r] /\ attempt' = attempt /\ employer' = employer /\ Holds(a, s)
    BY DEF Skip, Update
<1>3. Touches(a) /\ app'[a] = r
    BY <1>2, Replaced
<1> QED
    BY <1>1, <1>2, <1>3 DEF Keeps, ReviewFollows, AppRecords

\* A review is written by the session that owns the role.
LEMMA ReviewEffect ==
    ASSUME TypeOK, NEW c \in Callers, CommitReview(c)
    PROVE  LET a == request[c].app
           IN  /\ a \in Apps /\ Touches(a) /\ Keeps(a) /\ attempt' = attempt
               /\ Holds(a, request[c].session)
               /\ app[a].status = "in_progress" /\ app'[a].status = "in_progress"
               /\ app[a].finalAction = None
               /\ app'[a].ownerReport = app[a].ownerReport
               /\ app'[a].review.by = app'[a].session
<1> DEFINE q == request[c]
           a == q.app
           rv == [preview |-> q.preview, profile |-> q.profile, posting |-> posting[a],
                  by |-> q.session, fresh |-> TRUE]
           r == [app[a] EXCEPT !.review = rv]
<1>1. a \in Apps /\ app[a] \in AppRecords
    BY RequestTyped, FieldsTyped DEF CommitReview
<1>2. /\ app' = [app EXCEPT ![a] = r] /\ attempt' = attempt /\ employer' = employer
      /\ Holds(a, q.session) /\ app[a].status = "in_progress" /\ app[a].finalAction = None
    BY DEF CommitReview, Commit
<1>3. Touches(a) /\ app'[a] = r
    BY <1>1, <1>2, Replaced
<1>4. /\ r.mode = app[a].mode /\ r.position = app[a].position /\ r.hold = app[a].hold
      /\ r.finalAction = app[a].finalAction /\ r.finalActions = app[a].finalActions
      /\ r.receipt = app[a].receipt /\ r.legacySent = app[a].legacySent
      /\ r.status = app[a].status /\ r.ownerReport = app[a].ownerReport
      /\ r.session = app[a].session /\ r.review.by = q.session
    BY <1>1 DEF AppRecords
<1>5. app[a].session = q.session
    BY <1>2 DEF Holds
<1> HIDE DEF r
<1> QED
    BY <1>1, <1>2, <1>3, <1>4, <1>5 DEF Keeps

\* Permission to press Submit: an unused attempt becomes the final action.
LEMMA StartEffect ==
    ASSUME TypeOK, NEW c \in Callers, CommitStart(c)
    PROVE  LET q == request[c]
               a == q.app
           IN  /\ a \in Apps /\ Touches(a)
               /\ Holds(a, q.session)
               /\ app[a].status = "in_progress" /\ app'[a].status = "submission_started"
               /\ app[a].finalAction = None
               /\ app[a].review.preview = q.preview /\ app[a].review.profile = q.profile
               /\ app[a].review.posting = posting[a]
               /\ app'[a].review = app[a].review /\ app'[a].session = app[a].session
               /\ app'[a].mode = app[a].mode /\ app'[a].position = app[a].position
               /\ app'[a].hold = app[a].hold /\ app'[a].finalActions = app[a].finalActions
               /\ app'[a].receipt = app[a].receipt /\ app'[a].legacySent = app[a].legacySent
               /\ \E t \in Attempts :
                     /\ attempt[t].status = "unused"
                     /\ app'[a].finalAction = t
                     /\ attempt' = [attempt EXCEPT ![t] =
                           [app |-> a, by |-> q.session, day |-> day, status |-> "submitting"]]
<1> DEFINE q == request[c]
           a == q.app
<1>1. a \in Apps /\ app[a] \in AppRecords
    BY RequestTyped, FieldsTyped DEF CommitStart
<1>2. /\ Holds(a, q.session) /\ app[a].status = "in_progress" /\ app[a].finalAction = None
      /\ app[a].review.preview = q.preview /\ app[a].review.profile = q.profile
      /\ app[a].review.posting = posting[a]
    BY DEF CommitStart
<1>3. PICK t \in Attempts :
          /\ attempt[t].status = "unused"
          /\ app' = [app EXCEPT ![a] = [app[a] EXCEPT !.finalAction = t,
                                                     !.status = "submission_started"]]
          /\ employer' = employer
          /\ attempt' = [attempt EXCEPT ![t] =
                [app |-> a, by |-> q.session, day |-> day, status |-> "submitting"]]
    BY DEF CommitStart, Press, Commit
<1> DEFINE r == [app[a] EXCEPT !.finalAction = t, !.status = "submission_started"]
<1>4. Touches(a) /\ app'[a] = r
    BY <1>1, <1>3, Replaced
<1>5. /\ r.mode = app[a].mode /\ r.position = app[a].position /\ r.hold = app[a].hold
      /\ r.finalAction = t /\ r.finalActions = app[a].finalActions
      /\ r.receipt = app[a].receipt /\ r.legacySent = app[a].legacySent
      /\ r.status = "submission_started" /\ r.review = app[a].review
      /\ r.session = app[a].session
    BY <1>1 DEF AppRecords
<1> HIDE DEF r
<1> QED
    BY <1>1, <1>2, <1>3, <1>4, <1>5

LEMMA AddEffect ==
    ASSUME TypeOK, NEW c \in Callers, CommitAdd(c)
    PROVE  LET a == request[c].app
           IN  /\ a \in Apps /\ Touches(a) /\ attempt' = attempt
               /\ ~Owned(a)
               /\ app'[a].mode = "chrome_session" /\ app'[a].status = "pending"
               /\ \A b \in Apps : app[b].position < app'[a].position
               /\ \/ /\ app[a].mode = "none"
                     /\ app'[a].finalAction = None /\ app'[a].finalActions = {}
                     /\ app'[a].receipt = None /\ ~app'[a].hold /\ ~app'[a].legacySent
                     /\ app'[a].review = NoReview /\ app'[a].session = None
                  \/ /\ app'[a].finalAction = app[a].finalAction
                     /\ app'[a].finalActions = app[a].finalActions
                     /\ app'[a].receipt = app[a].receipt
                     /\ app'[a].hold = (app[a].hold \/ Uncertain(a))
                     /\ app'[a].legacySent = app[a].legacySent
                     /\ app'[a].review = app[a].review /\ app'[a].session = app[a].session
<1> DEFINE a == request[c].app
<1>1. a \in Apps /\ app[a] \in AppRecords
    BY RequestTyped, FieldsTyped DEF CommitAdd
<1>2. PICK q \in {0} \cup {app[b].position : b \in Apps} :
          /\ LastPosition(q)
          /\ \/ /\ app[a].mode = "none"
                /\ app' = [app EXCEPT ![a] = [NoApplication EXCEPT
                      !.status = "pending", !.mode = "chrome_session", !.position = q + 1]]
             \/ /\ Adoptable(a)
                /\ app' = [app EXCEPT ![a] = [app[a] EXCEPT
                      !.status = "pending", !.mode = "chrome_session", !.position = q + 1,
                      !.hold = @ \/ Uncertain(a)]]
    BY DEF CommitAdd, Commit
<1>3. attempt' = attempt /\ employer' = employer
    BY DEF CommitAdd, Commit
<1>4. q \in Nat /\ \A b \in Apps : app[b].position \in Nat /\ app[b].position < q + 1
    BY <1>2, FieldsTyped DEF LastPosition
<1>5. CASE /\ app[a].mode = "none"
           /\ app' = [app EXCEPT ![a] = [NoApplication EXCEPT
                 !.status = "pending", !.mode = "chrome_session", !.position = q + 1]]
    <2> DEFINE r == [NoApplication EXCEPT
                 !.status = "pending", !.mode = "chrome_session", !.position = q + 1]
    <2>1. Touches(a) /\ app'[a] = r
        BY <1>1, <1>3, <1>5, Replaced
    <2>2. /\ r.mode = "chrome_session" /\ r.status = "pending" /\ r.position = q + 1
          /\ r.finalAction = None /\ r.finalActions = {} /\ r.receipt = None
          /\ r.hold = FALSE /\ r.legacySent = FALSE /\ r.review = NoReview /\ r.session = None
        BY DEF NoApplication
    <2> HIDE DEF r
    <2> QED
        BY <1>1, <1>3, <1>4, <1>5, <2>1, <2>2 DEF Owned
<1>6. CASE /\ Adoptable(a)
           /\ app' = [app EXCEPT ![a] = [app[a] EXCEPT
                 !.status = "pending", !.mode = "chrome_session", !.position = q + 1,
                 !.hold = @ \/ Uncertain(a)]]
    <2> DEFINE h == app[a].hold \/ Uncertain(a)
               r == [app[a] EXCEPT !.status = "pending", !.mode = "chrome_session",
                                   !.position = q + 1, !.hold = h]
    <2>1. Touches(a) /\ app'[a] = r
        BY <1>1, <1>3, <1>6, Replaced
    <2>2. /\ r.mode = "chrome_session" /\ r.status = "pending" /\ r.position = q + 1
          /\ r.finalAction = app[a].finalAction /\ r.finalActions = app[a].finalActions
          /\ r.receipt = app[a].receipt /\ r.hold = h
          /\ r.legacySent = app[a].legacySent
          /\ r.review = app[a].review /\ r.session = app[a].session
        BY <1>1 DEF AppRecords
    <2> HIDE DEF r
    <2> QED
        BY <1>1, <1>3, <1>4, <1>6, <2>1, <2>2 DEF Adoptable
<1> QED
    BY <1>2, <1>5, <1>6

\* A receipt is stored for the attempt that was recorded.
LEMMA ReceiptEffect ==
    ASSUME TypeOK, NEW c \in Callers, CommitReceipt(c)
    PROVE  LET q == request[c]
               a == q.app
               t == q.attempt
           IN  /\ a \in Apps /\ Touches(a)
               /\ Holds(a, q.session)
               /\ t = RecordedAttempt(a)
               /\ app'[a].status = "submitted" /\ app'[a].receipt = t
               /\ app'[a].mode = app[a].mode /\ app'[a].position = app[a].position
               /\ app'[a].hold = app[a].hold /\ app'[a].finalAction = app[a].finalAction
               /\ app'[a].finalActions = app[a].finalActions
               /\ app'[a].legacySent = app[a].legacySent
               /\ ReviewFollows(a)
               /\ attempt' = [u \in Attempts |->
                     IF u = t THEN [attempt[u] EXCEPT !.status = "submitted"] ELSE attempt[u]]
<1> DEFINE q == request[c]
           a == q.app
           t == q.attempt
<1>1. a \in Apps /\ app[a] \in AppRecords
    BY RequestTyped, FieldsTyped DEF CommitReceipt
<1>2. /\ Holds(a, q.session) /\ t = RecordedAttempt(a) /\ employer' = employer
      /\ attempt' = [u \in Attempts |->
            IF u = t THEN [attempt[u] EXCEPT !.status = "submitted"] ELSE attempt[u]]
    BY DEF CommitReceipt, Commit
<1>3. PICK d : app' = [app EXCEPT ![a] = [app[a] EXCEPT !.status = "submitted", !.receipt = t,
                                                  !.receiptDay = d, !.blocker = "none"]]
    BY DEF CommitReceipt, Commit
<1> DEFINE r == [app[a] EXCEPT !.status = "submitted", !.receipt = t,
                               !.receiptDay = d, !.blocker = "none"]
<1>4. Touches(a) /\ app'[a] = r
    BY <1>1, <1>2, <1>3, Replaced
<1>5. /\ r.mode = app[a].mode /\ r.position = app[a].position /\ r.hold = app[a].hold
      /\ r.finalAction = app[a].finalAction /\ r.finalActions = app[a].finalActions
      /\ r.receipt = t /\ r.legacySent = app[a].legacySent /\ r.status = "submitted"
      /\ r.session = app[a].session /\ r.review = app[a].review
    BY <1>1 DEF AppRecords
<1> HIDE DEF r
<1> QED
    BY <1>1, <1>2, <1>4, <1>5 DEF ReviewFollows

LEMMA OwnerReceiptEffect ==
    ASSUME TypeOK, NEW c \in Callers, CommitOwnerReceipt(c)
    PROVE  LET a == request[c].app
           IN  /\ a \in Apps /\ Touches(a) /\ Keeps(a) /\ attempt' = attempt
               /\ Holds(a, request[c].session)
               /\ ~InDoubt(a)
               /\ app[a].status \in Workable /\ app'[a].status = "owner_reported_submitted"
               /\ ReviewFollows(a)
<1> DEFINE q == request[c]
           a == q.app
<1>1. a \in Apps /\ app[a] \in AppRecords
    BY RequestTyped, FieldsTyped DEF CommitOwnerReceipt
<1>2. /\ Holds(a, q.session) /\ ~InDoubt(a) /\ app[a].status \in Workable
      /\ attempt' = attempt /\ employer' = employer
    BY DEF CommitOwnerReceipt, Commit, Workable
<1>3. PICK d : app' = [app EXCEPT ![a] = [app[a] EXCEPT !.status = "owner_reported_submitted",
                          !.ownerReport = "browser", !.ownerDay = d, !.blocker = "none"]]
    BY DEF CommitOwnerReceipt, Commit
<1> DEFINE r == [app[a] EXCEPT !.status = "owner_reported_submitted",
                               !.ownerReport = "browser", !.ownerDay = d, !.blocker = "none"]
<1>4. Touches(a) /\ app'[a] = r
    BY <1>1, <1>2, <1>3, Replaced
<1>5. /\ r.mode = app[a].mode /\ r.position = app[a].position /\ r.hold = app[a].hold
      /\ r.finalAction = app[a].finalAction /\ r.finalActions = app[a].finalActions
      /\ r.receipt = app[a].receipt /\ r.legacySent = app[a].legacySent
      /\ r.status = "owner_reported_submitted"
      /\ r.session = app[a].session /\ r.review = app[a].review
    BY <1>1 DEF AppRecords
<1> HIDE DEF r
<1> QED
    BY <1>1, <1>2, <1>4, <1>5 DEF Keeps, ReviewFollows

\* An attempt that failed joins the archive and the role is worked on again.
LEMMA ArchiveEffect ==
    ASSUME TypeOK, NEW a \in Apps, NEW t, NEW outcome, Archive(a, t, outcome)
    PROVE  /\ Touches(a)
           /\ Cardinality(app[a].finalActions) < RetryLimit
           /\ app'[a].status = "in_progress" /\ app'[a].finalAction = None
           /\ app'[a].finalActions = app[a].finalActions \cup {t}
           /\ app'[a].mode = app[a].mode /\ app'[a].position = app[a].position
           /\ app'[a].hold = app[a].hold /\ app'[a].receipt = app[a].receipt
           /\ app'[a].legacySent = app[a].legacySent
           /\ app'[a].review = NoReview
           /\ attempt' = [u \in Attempts |->
                 IF u = t THEN [attempt[u] EXCEPT !.status = outcome] ELSE attempt[u]]
<1> DEFINE fs == app[a].finalActions \cup {t}
           r  == [app[a] EXCEPT !.finalActions = fs, !.finalAction = None,
                     !.review = NoReview, !.blocker = "none", !.status = "in_progress"]
<1>1. app[a] \in AppRecords
    BY FieldsTyped
<1>2. /\ Cardinality(app[a].finalActions) < RetryLimit
      /\ app' = [app EXCEPT ![a] = r] /\ employer' = employer
      /\ attempt' = [u \in Attempts |->
            IF u = t THEN [attempt[u] EXCEPT !.status = outcome] ELSE attempt[u]]
    BY DEF Archive, Update
<1>3. Touches(a) /\ app'[a] = r
    BY <1>2, Replaced
<1>4. /\ r.mode = app[a].mode /\ r.position = app[a].position /\ r.hold = app[a].hold
      /\ r.finalAction = None /\ r.finalActions = fs
      /\ r.receipt = app[a].receipt /\ r.legacySent = app[a].legacySent
      /\ r.status = "in_progress" /\ r.review = NoReview
    BY <1>1 DEF AppRecords
<1> HIDE DEF r
<1> QED
    BY <1>2, <1>3, <1>4

\* Recovery changes statuses only, and of the queue's roles only that of a role
\* whose Submit was under way.
LEMMA RecoverEffect ==
    ASSUME TypeOK, Recover, NEW a \in Apps
    PROVE  /\ Keeps(a) /\ attempt' = attempt /\ employer' = employer
           /\ Owned(a) => app'[a].status = IF app[a].status = "submission_started"
                                           THEN "submission_unverified" ELSE app[a].status
           /\ app'[a].ownerReport = app[a].ownerReport
           /\ ReviewFollows(a)
<1> DEFINE r == app[a]
           v == app'[a]
<1>1. r \in AppRecords
    BY FieldsTyped
<1>2. v = Recovered(r) /\ attempt' = attempt /\ employer' = employer
    BY DEF Recover
<1>3. CASE r.mode # "chrome_session" /\ r.status \in ServerRunning
    <2> DEFINE ph == IF r.status = "submitting" \/ r.trace = "execution_started"
                     THEN "final_action_started" ELSE "before_final_action"
    <2>1. v = [r EXCEPT !.status = "waiting_confirmation", !.phase = ph]
        BY <1>2, <1>3 DEF Recovered
    <2>2. /\ v.mode = r.mode /\ v.position = r.position /\ v.hold = r.hold
          /\ v.finalAction = r.finalAction /\ v.finalActions = r.finalActions
          /\ v.receipt = r.receipt /\ v.legacySent = r.legacySent
          /\ v.ownerReport = r.ownerReport /\ v.session = r.session /\ v.review = r.review
        BY <1>1, <2>1 DEF AppRecords
    <2> QED
        BY <1>2, <1>3, <2>2 DEF Keeps, ReviewFollows, Owned
<1>4. CASE r.mode = "chrome_session" /\ r.status = "submission_started"
    <2>1. v = [r EXCEPT !.status = "submission_unverified", !.blocker = "outcome_check"]
        BY <1>2, <1>4 DEF Recovered
    <2>2. /\ v.mode = r.mode /\ v.position = r.position /\ v.hold = r.hold
          /\ v.finalAction = r.finalAction /\ v.finalActions = r.finalActions
          /\ v.receipt = r.receipt /\ v.legacySent = r.legacySent
          /\ v.status = "submission_unverified"
          /\ v.ownerReport = r.ownerReport /\ v.session = r.session /\ v.review = r.review
        BY <1>1, <2>1 DEF AppRecords
    <2> QED
        BY <1>2, <1>4, <2>2 DEF Keeps, ReviewFollows
<1>5. CASE ~(r.mode # "chrome_session" /\ r.status \in ServerRunning)
           /\ ~(r.mode = "chrome_session" /\ r.status = "submission_started")
    <2>1. v = r
        BY <1>2, <1>5 DEF Recovered
    <2> QED
        BY <1>2, <1>5, <2>1 DEF Keeps, ReviewFollows, Owned
<1> QED
    BY <1>3, <1>4, <1>5

----------------------------------------------------------------------------
(* The kinds of steps *)

\* A role whose record does not change carries on.
LEMMA Unchanged ==
    ASSUME NEW a \in Apps, app'[a] = app[a]
    PROVE  Carries(a)
BY DEF Carries, Keeps, ReviewFollows

LEMMA OneCarries ==
    ASSUME NEW a \in Apps, Touches(a), Carries(a), attempt' = attempt
    PROVE  CarriesAll
BY Unchanged DEF CarriesAll, Touches

LEMMA NothingChanged ==
    ASSUME app' = app, attempt' = attempt
    PROVE  CarriesAll
BY Unchanged DEF CarriesAll

LEMMA EnvironmentCarries ==
    ASSUME TypeOK, Environment
    PROVE  CarriesAll
<1>1. ASSUME NEW a \in Apps, ReviewExpires(a) PROVE CarriesAll
    BY <1>1, ReviewExpiresEffect, OneCarries DEF Carries
<1> QED
    BY <1>1, NothingChanged
    DEF Environment, NextDay, EditProfile, ChangePosting, EmployerDecides

LEMMA RestartCarries ==
    ASSUME TypeOK, Crash \/ Recover
    PROVE  CarriesAll
<1>1. CASE Crash
    BY <1>1, NothingChanged DEF Crash
<1>2. CASE Recover
    <2>1. ASSUME NEW a \in Apps PROVE Carries(a)
        <3>1. /\ Keeps(a) /\ app'[a].ownerReport = app[a].ownerReport /\ ReviewFollows(a)
              /\ Owned(a) => app'[a].status = IF app[a].status = "submission_started"
                                              THEN "submission_unverified" ELSE app[a].status
            BY <1>2, RecoverEffect
        <3>2. Owned(a) /\ app[a].status = "submission_started" => Active(a)
            BY DEF Active, Terminal
        <3> QED
            BY <3>1, <3>2 DEF Carries, Submitting
    <2> QED
        BY <1>2, <2>1 DEF Recover, CarriesAll
<1> QED
    BY <1>1, <1>2

LEMMA ReadPhaseCarries ==
    ASSUME NEW c \in Callers, ReadPhase(c)
    PROVE  CarriesAll
<1>1. app' = app /\ attempt' = attempt
    BY DEF ReadPhase, BeginAdd, BeginReview, BeginStart, BeginReceipt, BeginOwnerReceipt, Begin
<1> QED
    BY <1>1, NothingChanged

LEMMA CommitKinds ==
    ASSUME TypeOK, NEW c \in Callers, CommitPhase(c)
    PROVE  \/ CarriesAll
           \/ CommitAdd(c) \/ CommitStart(c) \/ CommitReceipt(c) \/ CommitOwnerReceipt(c)
<1>1. CASE Refuse(c)
    BY <1>1, NothingChanged DEF Refuse
<1>2. CASE CommitReview(c)
    BY <1>2, ReviewEffect, OneCarries DEF Carries, ReviewFollows
<1> QED
    BY <1>1, <1>2 DEF CommitPhase

LEMMA SessionCallKinds ==
    ASSUME SendsAreAccountedFor, NEW a \in Apps, NEW s \in Sessions, SessionCall(a, s)
    PROVE  \/ CarriesAll
           \/ Claim(a, s)
           \/ \E stopped \in BOOLEAN : Skip(a, s, stopped)
           \/ \E t \in Attempts \cup {None},
                 outcome \in {"not_submitted", "validation_rejected"} : Rejects(a, t, outcome)
<1>1. TypeOK /\ Accountable(app[a]) /\ app[a].hold \in BOOLEAN
    BY FieldsTyped DEF SendsAreAccountedFor
<1>2. Holds(a, s) => Active(a)
    BY HeldIsActive
<1>3. ASSUME NEW kind, NEW named, Checkpoint(a, s, kind, named) PROVE CarriesAll
    BY <1>1, <1>2, <1>3, CheckpointEffect, OneCarries DEF Carries, Workable, Submitting
<1>4. ASSUME Resume(a, s) PROVE CarriesAll
    BY <1>1, <1>2, <1>4, ResumeEffect, OneCarries DEF Carries, Workable, Submitting
<1>5. ASSUME Takeover(a, s) PROVE CarriesAll
    BY <1>1, <1>5, TakeoverEffect, OneCarries DEF Carries, Submitting
<1>6. ASSUME NEW t \in Attempts \cup {None}, NotSubmitted(a, s, t)
      PROVE  Rejects(a, t, "not_submitted")
    BY <1>1, <1>2, <1>6 DEF NotSubmitted, Rejects
<1>7. ASSUME NEW t \in Attempts \cup {None}, ValidationError(a, s, t)
      PROVE  Rejects(a, t, "validation_rejected")
    <2>1. Owned(a) /\ app[a].status \in Submitting
        BY <1>7 DEF ValidationError, Holds, OwnerCaptchaHandoff, Submitting
    <2>2. ~app[a].hold
        <3>1. CASE app[a].status = "submission_started"
            BY <1>1, <2>1, <3>1 DEF Accountable, Owned
        <3>2. CASE OwnerCaptchaHandoff(a)
            BY <1>1, <2>1, <3>2 DEF Accountable, Owned, OwnerCaptchaHandoff, NoReview
        <3> QED
            BY <1>7, <3>1, <3>2 DEF ValidationError
    <2> QED
        BY <1>2, <1>7, <2>1, <2>2 DEF ValidationError, Rejects
<1> QED
    BY <1>3, <1>4, <1>5, <1>6, <1>7 DEF SessionCall

\* Every step carries all roles on or moves one of them in one of seven ways.
LEMMA StepKinds ==
    ASSUME SendsAreAccountedFor, [Next]_vars
    PROVE  \/ CarriesAll
           \/ \E c \in Callers :
                 CommitAdd(c) \/ CommitStart(c) \/ CommitReceipt(c) \/ CommitOwnerReceipt(c)
           \/ \E a \in Apps, s \in Sessions :
                 Claim(a, s) \/ \E stopped \in BOOLEAN : Skip(a, s, stopped)
           \/ \E a \in Apps, t \in Attempts \cup {None},
                 outcome \in {"not_submitted", "validation_rejected"} : Rejects(a, t, outcome)
<1>1. TypeOK
    BY DEF SendsAreAccountedFor
<1>2. CASE UNCHANGED vars
    BY <1>2, NothingChanged DEF vars
<1>3. CASE Next
    <2>1. CASE Environment
        BY <1>1, <2>1, EnvironmentCarries
    <2>2. CASE Crash \/ Recover
        BY <1>1, <2>2, RestartCarries
    <2>3. ASSUME NEW c \in Callers, ReadPhase(c) PROVE CarriesAll
        BY <2>3, ReadPhaseCarries
    <2>4. ASSUME NEW c \in Callers, CommitPhase(c)
          PROVE  CarriesAll \/ CommitAdd(c) \/ CommitStart(c) \/ CommitReceipt(c)
                 \/ CommitOwnerReceipt(c)
        BY <1>1, <2>4, CommitKinds
    <2>5. ASSUME NEW a \in Apps, NEW s \in Sessions, SessionCall(a, s)
          PROVE  \/ CarriesAll \/ Claim(a, s) \/ \E stopped \in BOOLEAN : Skip(a, s, stopped)
                 \/ \E t \in Attempts \cup {None},
                        outcome \in {"not_submitted", "validation_rejected"} :
                           Rejects(a, t, outcome)
        BY <2>5, SessionCallKinds
    <2> QED
        BY <1>3, <2>1, <2>2, <2>3, <2>4, <2>5 DEF Next
<1> QED
    BY <1>2, <1>3

----------------------------------------------------------------------------
(* What every step preserves *)

OwnStatuses ==
    {"pending"} \cup Workable \cup Submitting
        \cup {"submitted", "owner_reported_submitted", "skipped"}

\* What the record of role a says of its past.  A receipt names the attempt that
\* was recorded and that arrived; a role that looks sent names an attempt; its
\* final action is an attempt made for it; archived attempts are few.
Recorded(a) ==
    /\ app[a].mode = "none" => ~app[a].legacySent
    /\ ~Owned(a) => app[a].finalActions = {} /\ app[a].receipt = None
    /\ Owned(a) =>
          /\ app[a].status \in OwnStatuses
          /\ app[a].receipt # None <=> app[a].status = "submitted"
          /\ app[a].receipt # None =>
                app[a].receipt = RecordedAttempt(a) /\ Accepted(a, app[a].receipt)
          /\ app[a].status \in Submitting => InDoubt(a)
          /\ app[a].finalAction = None /\ app[a].review.preview # "none" =>
                app[a].review.by = app[a].session
    /\ app[a].finalAction # None => attempt[app[a].finalAction].app = a
    /\ None \notin app[a].finalActions
    /\ IsFiniteSet(app[a].finalActions)
    /\ Cardinality(app[a].finalActions) <= RetryLimit

\* What the attempts collection says of attempt t, and the world with it.
Ledgered(t) ==
    LET e == attempt[t]
    IN  /\ e.status = "unused" <=> e.app = None
        /\ e.app = None => employer[t] = "undecided"
        /\ e.status = "submitting" => app[e.app].finalAction = t /\ app[e.app].receipt = None
        /\ e.status \in {"not_submitted", "validation_rejected"} =>
              t \in app[e.app].finalActions
        /\ e.status = "submitted" => app[e.app].receipt = t

\* What caller c read before its transaction and nothing can take back.
Informed(c) ==
    /\ request[c].op = "start" => request[c].preview \in Previews
    /\ request[c].op = "receipt" =>
          request[c].attempt # None /\ Accepted(request[c].app, request[c].attempt)

PositionsDiffer ==
    \A a, b \in Apps : Owned(a) /\ Owned(b) /\ app[a].position = app[b].position => a = b

\* Why the ledger agrees, the queue is in order and finished roles are evidence:
\* the inductive invariant of this module.
HistoryAgrees ==
    /\ SendsAreAccountedFor
    /\ PositionsDiffer
    /\ \A a \in Apps : Recorded(a)
    /\ \A t \in Attempts : Ledgered(t)
    /\ \A c \in Callers : Informed(c)

\* No role is the queue's own at first.
LEMMA InitRecord ==
    ASSUME Init, NEW a \in Apps
    PROVE  /\ ~Owned(a) /\ app[a].finalActions = {} /\ app[a].receipt = None
           /\ app[a].finalAction = None
           /\ app[a].mode = "none" => ~app[a].legacySent
<1>1. app[a] \in LegacyApplications \cup {ExternalApplication, NoApplication}
    BY DEF Init
<1>2. CASE app[a] \in LegacyApplications
    <2>1. PICK st, tr, ph, sent : app[a] = LegacyRecord(st, tr, ph, sent)
        BY <1>2 DEF LegacyApplications, WorkerRecords
    <2> QED
        BY <2>1 DEF LegacyRecord, NoApplication, Owned
<1>3. CASE app[a] = NoApplication
    BY <1>3 DEF NoApplication, Owned
<1>4. CASE app[a] = ExternalApplication
    BY <1>4 DEF ExternalApplication, NoApplication, Owned
<1> QED
    BY <1>1, <1>2, <1>3, <1>4

LEMMA InitHistory == Init => HistoryAgrees
<1> SUFFICES ASSUME Init PROVE HistoryAgrees
    OBVIOUS
<1>1. SendsAreAccountedFor
    BY InitAccounted
<1>2. \A a \in Apps : /\ ~Owned(a) /\ app[a].finalActions = {} /\ app[a].receipt = None
                      /\ app[a].finalAction = None
                      /\ app[a].mode = "none" => ~app[a].legacySent
    BY InitRecord
<1>3. \A a \in Apps : Recorded(a)
    BY <1>2, FS_EmptySet DEF Recorded, RetryLimit
<1>4. \A t \in Attempts : Ledgered(t)
    BY DEF Init, Unused, Ledgered
<1>5. \A c \in Callers : Informed(c)
    BY DEF Init, NoRequest, Informed
<1> QED
    BY <1>1, <1>2, <1>3, <1>4, <1>5 DEF HistoryAgrees, PositionsDiffer

\* No step of the queue decides for the employer.
LEMMA OnlyTheEmployerDecides ==
    ASSUME [Next]_vars
    PROVE  employer' = employer \/ \E t \in Attempts : EmployerDecides(t)
<1>1. ASSUME NEW c \in Callers, CommitPhase(c) PROVE employer' = employer
    BY <1>1 DEF CommitPhase, Refuse, CommitAdd, CommitReview, CommitStart, Press, CommitReceipt,
       CommitOwnerReceipt, Commit
<1>2. ASSUME NEW c \in Callers, ReadPhase(c) PROVE employer' = employer
    BY <1>2
    DEF ReadPhase, BeginAdd, BeginReview, BeginStart, BeginReceipt, BeginOwnerReceipt, Begin
<1>3. ASSUME NEW a \in Apps, NEW s \in Sessions, SessionCall(a, s) PROVE employer' = employer
    BY <1>3 DEF SessionCall, Claim, Checkpoint, Resume, NotSubmitted, ValidationError, Archive,
       Takeover, Skip, Update
<1>4. CASE Environment
    BY <1>4 DEF Environment, NextDay, EditProfile, ChangePosting, ReviewExpires
<1>5. CASE Crash \/ Recover \/ UNCHANGED vars
    BY <1>5 DEF Crash, Recover, vars
<1> QED
    BY <1>1, <1>2, <1>3, <1>4, <1>5 DEF Next

\* The employer decides once, and only of attempts that were made.
LEMMA DecidedOnce ==
    ASSUME TypeOK, [Next]_vars, NEW t \in Attempts
    PROVE  \/ employer'[t] = employer[t]
           \/ attempt[t].status # "unused" /\ employer[t] = "undecided" /\ attempt' = attempt
BY OnlyTheEmployerDecides DEF EmployerDecides, TypeOK

\* No step changes whether a retired worker's send arrived, moves a role in the
\* queue or out of it but an add, or changes what an attempt was made for.
LEMMA WhatStays ==
    ASSUME HistoryAgrees, [Next]_vars
    PROVE  /\ \A a \in Apps : app'[a].legacySent <=> app[a].legacySent
           /\ \A a \in Apps : Owned(a) =>
                 app'[a].mode = app[a].mode /\ app'[a].position = app[a].position
           /\ \A t \in Attempts : attempt[t].app # None =>
                 attempt'[t].app = attempt[t].app /\ attempt'[t].day = attempt[t].day
           /\ \A t \in Attempts :
                 attempt[t].status # "unused" => attempt'[t].status # "unused"
<1> DEFINE Stays(a) == /\ app'[a].legacySent <=> app[a].legacySent
                       /\ Owned(a) => /\ app'[a].mode = app[a].mode
                                      /\ app'[a].position = app[a].position
           Made(t) == /\ attempt[t].app # None => /\ attempt'[t].app = attempt[t].app
                                                  /\ attempt'[t].day = attempt[t].day
                      /\ attempt[t].status # "unused" => attempt'[t].status # "unused"
<1>1. TypeOK
    BY DEF HistoryAgrees, SendsAreAccountedFor
<1>2. ASSUME NEW a \in Apps, Touches(a), Stays(a) PROVE \A b \in Apps : Stays(b)
    BY <1>2 DEF Touches
<1>3. ASSUME attempt' = attempt PROVE \A t \in Attempts : Made(t)
    BY <1>3
<1>4. ASSUME NEW u, NEW st \in {"submitted", "not_submitted", "validation_rejected"},
             attempt' = [t \in Attempts |->
                 IF t = u THEN [attempt[t] EXCEPT !.status = st] ELSE attempt[t]]
      PROVE  \A t \in Attempts : Made(t)
    BY <1>1, <1>4 DEF TypeOK, AttemptRecords
<1>5. ASSUME CarriesAll
      PROVE  (\A b \in Apps : Stays(b)) /\ \A t \in Attempts : Made(t)
    BY <1>3, <1>5 DEF CarriesAll, Carries, Keeps
<1>6. ASSUME NEW c \in Callers, CommitAdd(c)
      PROVE  (\A b \in Apps : Stays(b)) /\ \A t \in Attempts : Made(t)
    <2>1. request[c].app \in Apps /\ Touches(request[c].app) /\ attempt' = attempt
          /\ Stays(request[c].app)
        BY <1>1, <1>6, AddEffect DEF HistoryAgrees, Recorded, TypeOK, AppRecords
    <2> QED
        BY <1>2, <1>3, <2>1
<1>7. ASSUME NEW c \in Callers, CommitStart(c)
      PROVE  (\A b \in Apps : Stays(b)) /\ \A t \in Attempts : Made(t)
    <2>1. request[c].app \in Apps /\ Touches(request[c].app) /\ Stays(request[c].app)
        BY <1>1, <1>7, StartEffect
    <2>2. PICK u \in Attempts :
             /\ attempt[u].status = "unused"
             /\ attempt' = [attempt EXCEPT ![u] =
                   [app |-> request[c].app, by |-> request[c].session, day |-> day,
                    status |-> "submitting"]]
        BY <1>1, <1>7, StartEffect
    <2>3. attempt[u].app = None
        BY <2>2 DEF HistoryAgrees, Ledgered
    <2>4. \A t \in Attempts : Made(t)
        BY <1>1, <2>2, <2>3 DEF TypeOK
    <2> QED
        BY <1>2, <2>1, <2>4
<1>8. ASSUME NEW c \in Callers, CommitReceipt(c)
      PROVE  (\A b \in Apps : Stays(b)) /\ \A t \in Attempts : Made(t)
    <2>1. /\ request[c].app \in Apps /\ Touches(request[c].app) /\ Stays(request[c].app)
          /\ attempt' = [t \in Attempts |-> IF t = request[c].attempt
                THEN [attempt[t] EXCEPT !.status = "submitted"] ELSE attempt[t]]
        BY <1>1, <1>8, ReceiptEffect
    <2> QED
        BY <1>2, <1>4, <2>1
<1>9. ASSUME NEW c \in Callers, CommitOwnerReceipt(c)
      PROVE  (\A b \in Apps : Stays(b)) /\ \A t \in Attempts : Made(t)
    <2>1. request[c].app \in Apps /\ Touches(request[c].app) /\ attempt' = attempt
          /\ Stays(request[c].app)
        BY <1>1, <1>9, OwnerReceiptEffect DEF Keeps
    <2> QED
        BY <1>2, <1>3, <2>1
<1>10. ASSUME NEW a \in Apps, NEW s \in Sessions, Claim(a, s)
       PROVE  (\A b \in Apps : Stays(b)) /\ \A t \in Attempts : Made(t)
    <2>1. Touches(a) /\ attempt' = attempt /\ Stays(a)
        BY <1>1, <1>10, ClaimEffect DEF Keeps
    <2> QED
        BY <1>2, <1>3, <2>1
<1>11. ASSUME NEW a \in Apps, NEW s \in Sessions, NEW stopped, Skip(a, s, stopped)
       PROVE  (\A b \in Apps : Stays(b)) /\ \A t \in Attempts : Made(t)
    <2>1. Touches(a) /\ attempt' = attempt /\ Stays(a)
        BY <1>1, <1>11, SkipEffect DEF Keeps
    <2> QED
        BY <1>2, <1>3, <2>1
<1>12. ASSUME NEW a \in Apps, NEW u, NEW outcome \in {"not_submitted", "validation_rejected"},
              Rejects(a, u, outcome)
       PROVE  (\A b \in Apps : Stays(b)) /\ \A t \in Attempts : Made(t)
    <2>1. /\ Touches(a) /\ Stays(a)
          /\ attempt' = [t \in Attempts |->
                IF t = u THEN [attempt[t] EXCEPT !.status = outcome] ELSE attempt[t]]
        BY <1>1, <1>12, ArchiveEffect DEF Rejects
    <2> QED
        BY <1>2, <1>4, <2>1
<1>13. (\A b \in Apps : Stays(b)) /\ \A t \in Attempts : Made(t)
    <2> HIDE DEF Stays, Made
    <2> QED
        BY <1>5, <1>6, <1>7, <1>8, <1>9, <1>10, <1>11, <1>12, StepKinds DEF HistoryAgrees
<1> QED
    BY <1>13

LEMMA AcceptedStays ==
    ASSUME HistoryAgrees, [Next]_vars, NEW a \in Apps, NEW t, Accepted(a, t)
    PROVE  Accepted(a, t)'
BY WhatStays, DecidedOnce DEF Accepted, HistoryAgrees, SendsAreAccountedFor

\* What a call read stays true until it commits.
LEMMA InformedStays ==
    ASSUME HistoryAgrees, [Next]_vars
    PROVE  \A c \in Callers : Informed(c)'
<1>1. TypeOK
    BY DEF HistoryAgrees, SendsAreAccountedFor
<1>2. ASSUME NEW c \in Callers, request'[c] = request[c] PROVE Informed(c)'
    <2>1. Informed(c)
        BY DEF HistoryAgrees
    <2>2. CASE request[c].op = "receipt"
        <3>1. request[c].app \in Apps
            BY <1>1, <2>2, RequestTyped
        <3> QED
            BY <1>2, <2>1, <2>2, <3>1, AcceptedStays DEF Informed
    <2> QED
        BY <1>2, <2>1, <2>2 DEF Informed
<1>3. ASSUME NEW c \in Callers, request'[c] = NoRequest PROVE Informed(c)'
    BY <1>3 DEF Informed, NoRequest
<1>4. ASSUME request' = request PROVE \A c \in Callers : Informed(c)'
    BY <1>2, <1>4
<1>5. ASSUME NEW d \in Callers, End(d) PROVE \A c \in Callers : Informed(c)'
    BY <1>1, <1>2, <1>3, <1>5 DEF End, TypeOK
<1>6. ASSUME NEW d \in Callers, NEW r, Begin(d, r),
             r.op = "start" => r.preview \in Previews,
             r.op = "receipt" => r.attempt # None /\ Accepted(r.app, r.attempt)'
      PROVE  \A c \in Callers : Informed(c)'
    <2>1. request'[d] = r /\ \A c \in Callers \ {d} : request'[c] = request[c]
        BY <1>1, <1>6 DEF Begin, TypeOK
    <2>2. Informed(d)'
        BY <1>6, <2>1 DEF Informed
    <2> QED
        BY <1>2, <2>1, <2>2
<1>7. ASSUME NEW d \in Callers, ReadPhase(d) PROVE \A c \in Callers : Informed(c)'
    <2>1. PICK a \in Apps :
              \/ BeginAdd(d, a)
              \/ \E s \in Sessions :
                    \/ \E p \in Previews : BeginReview(d, a, s, p) \/ BeginStart(d, a, s, p)
                    \/ \E t \in AttemptIds : BeginReceipt(d, a, s, t)
                    \/ BeginOwnerReceipt(d, a, s)
        BY <1>7 DEF ReadPhase
    <2>2. CASE BeginAdd(d, a)
        <3> DEFINE r == [NoRequest EXCEPT !.op = "add", !.app = a]
        <3>1. Begin(d, r) /\ r.op = "add"
            BY <2>2 DEF BeginAdd, NoRequest
        <3> QED
            BY <1>6, <3>1
    <2>3. ASSUME NEW s, NEW p, BeginReview(d, a, s, p) PROVE \A c \in Callers : Informed(c)'
        <3> DEFINE r == [NoRequest EXCEPT !.op = "review", !.app = a, !.session = s,
                                          !.profile = profile, !.preview = p]
        <3>1. Begin(d, r) /\ r.op = "review"
            BY <2>3 DEF BeginReview, NoRequest
        <3> QED
            BY <1>6, <3>1
    <2>4. ASSUME NEW s, NEW p \in Previews, BeginStart(d, a, s, p)
          PROVE  \A c \in Callers : Informed(c)'
        <3> DEFINE r == [NoRequest EXCEPT !.op = "start", !.app = a, !.session = s,
                                          !.profile = profile, !.preview = p]
        <3>1. Begin(d, r) /\ r.op = "start" /\ r.preview = p
            BY <2>4 DEF BeginStart, NoRequest
        <3> QED
            BY <1>6, <3>1
    <2>5. ASSUME NEW s, NEW t, BeginReceipt(d, a, s, t) PROVE \A c \in Callers : Informed(c)'
        <3> DEFINE r == [NoRequest EXCEPT !.op = "receipt", !.app = a, !.session = s,
                                          !.attempt = t]
        <3>1. Begin(d, r) /\ t # None /\ Accepted(a, t)
            BY <2>5 DEF BeginReceipt
        <3>2. r.op = "receipt" /\ r.app = a /\ r.attempt = t
            BY DEF NoRequest
        <3>3. Accepted(a, t)'
            BY <3>1, AcceptedStays
        <3> HIDE DEF r
        <3> QED
            BY <1>6, <3>1, <3>2, <3>3
    <2>6. ASSUME NEW s, BeginOwnerReceipt(d, a, s) PROVE \A c \in Callers : Informed(c)'
        <3> DEFINE r == [NoRequest EXCEPT !.op = "ownerReceipt", !.app = a, !.session = s]
        <3>1. Begin(d, r) /\ r.op = "ownerReceipt"
            BY <2>6 DEF BeginOwnerReceipt, NoRequest
        <3> QED
            BY <1>6, <3>1
    <2> QED
        BY <2>1, <2>2, <2>3, <2>4, <2>5, <2>6
<1>8. ASSUME NEW d \in Callers, CommitPhase(d) PROVE End(d)
    BY <1>8 DEF CommitPhase, Refuse, CommitAdd, CommitReview, CommitStart, Press, CommitReceipt,
       CommitOwnerReceipt, Commit
<1>9. ASSUME NEW a \in Apps, NEW s \in Sessions, SessionCall(a, s) PROVE request' = request
    BY <1>9 DEF SessionCall, Claim, Checkpoint, Resume, NotSubmitted, ValidationError, Archive,
       Takeover, Skip, Update
<1>10. CASE Environment \/ Recover \/ UNCHANGED vars
    BY <1>4, <1>10
    DEF Environment, NextDay, EditProfile, ChangePosting, ReviewExpires, EmployerDecides,
        Recover, vars
<1>11. CASE Crash
    BY <1>3, <1>11 DEF Crash
<1> QED
    BY <1>4, <1>5, <1>7, <1>8, <1>9, <1>10, <1>11 DEF Next

----------------------------------------------------------------------------
(* The records *)

\* A role that carries on stays recorded: nothing it names goes away.
LEMMA CarriedRecord ==
    ASSUME HistoryAgrees, [Next]_vars, NEW a \in Apps, Carries(a), Owned(a)' <=> Owned(a)
    PROVE  Recorded(a)'
<1>1. Recorded(a) /\ app[a] \in AppRecords /\ app[a].finalAction \in Attempts \cup {None}
    BY FieldsTyped DEF HistoryAgrees, SendsAreAccountedFor
<1>2. /\ InDoubt(a)' <=> InDoubt(a)
      /\ RecordedAttempt(a)' = RecordedAttempt(a)
      /\ app'[a].finalAction = app[a].finalAction /\ app'[a].finalActions = app[a].finalActions
      /\ app'[a].receipt = app[a].receipt /\ app'[a].mode = app[a].mode
    BY DEF Carries, Keeps, InDoubt, RecordedAttempt
<1>3. app'[a].mode = "none" => ~app'[a].legacySent
    BY <1>1, <1>2 DEF Recorded, Carries, Keeps
<1>4. ~Owned(a)' => app'[a].finalActions = {} /\ app'[a].receipt = None
    BY <1>1, <1>2 DEF Recorded
<1>5. ASSUME Owned(a)
      PROVE  /\ app'[a].status \in OwnStatuses
             /\ app'[a].receipt # None <=> app'[a].status = "submitted"
             /\ app'[a].status \in Submitting => InDoubt(a)'
    BY <1>1, <1>2, <1>5 DEF Recorded, Carries, OwnStatuses, Workable, Active, Terminal, Submitting
<1>6. app'[a].receipt # None =>
          app'[a].receipt = RecordedAttempt(a)' /\ Accepted(a, app[a].receipt)'
    <2>1. app[a].receipt # None => app[a].receipt = RecordedAttempt(a) /\ Accepted(a, app[a].receipt)
        BY <1>1 DEF Recorded
    <2> QED
        BY <1>2, <2>1, AcceptedStays
<1>7. Owned(a) /\ app'[a].finalAction = None /\ app'[a].review.preview # "none" =>
          app'[a].review.by = app'[a].session
    BY <1>1, <1>2 DEF Recorded, Carries, ReviewFollows
<1>8. app'[a].finalAction # None => attempt'[app'[a].finalAction].app = a
    BY <1>1, <1>2, WhatStays, ChromeQueueAssumption DEF Recorded, ChromeQueueAssumption
<1>9. /\ None \notin app'[a].finalActions /\ IsFiniteSet(app'[a].finalActions)
      /\ Cardinality(app'[a].finalActions) <= RetryLimit
    BY <1>1, <1>2 DEF Recorded
<1> QED
    BY <1>3, <1>4, <1>5, <1>6, <1>7, <1>8, <1>9 DEF Recorded

\* So do all roles but the one whose record is replaced.
LEMMA OtherRecords ==
    ASSUME HistoryAgrees, [Next]_vars, NEW a \in Apps, Touches(a), Recorded(a)'
    PROVE  \A b \in Apps : Recorded(b)'
<1>1. ASSUME NEW b \in Apps \ {a} PROVE Recorded(b)'
    BY Unchanged, CarriedRecord DEF Touches, Owned
<1> QED
    BY <1>1

\* An entry stays true while its role goes on naming the attempt.
LEMMA LedgerStays ==
    ASSUME HistoryAgrees, [Next]_vars, NEW t \in Attempts, attempt'[t] = attempt[t],
           \A a \in Apps : attempt[t].app = a =>
               /\ t \in app[a].finalActions => t \in app'[a].finalActions
               /\ app[a].finalAction = t /\ app[a].receipt = None =>
                      app'[a].finalAction = t /\ app'[a].receipt = None
               /\ app[a].receipt = t => app'[a].receipt = t
    PROVE  Ledgered(t)'
<1>1. attempt[t] \in AttemptRecords /\ Ledgered(t)
    BY DEF HistoryAgrees, SendsAreAccountedFor, TypeOK
<1>2. attempt[t].app = None => employer'[t] = "undecided"
    BY <1>1, DecidedOnce DEF Ledgered, HistoryAgrees, SendsAreAccountedFor
<1>3. CASE attempt[t].app = None
    BY <1>1, <1>2, <1>3 DEF Ledgered
<1>4. CASE attempt[t].app \in Apps
    BY <1>1, <1>2, <1>4 DEF Ledgered
<1> QED
    BY <1>1, <1>3, <1>4 DEF AttemptRecords

\* The entries of other roles' attempts are not touched.
LEMMA OtherLedgers ==
    ASSUME HistoryAgrees, [Next]_vars, NEW a \in Apps, Touches(a),
           NEW t \in Attempts, attempt[t].app # a, attempt'[t] = attempt[t]
    PROVE  Ledgered(t)'
BY LedgerStays DEF Touches

LEMMA PositionsStay ==
    ASSUME HistoryAgrees, [Next]_vars, \A a \in Apps : Owned(a)' => Owned(a)
    PROVE  PositionsDiffer'
BY WhatStays DEF HistoryAgrees, PositionsDiffer

LEMMA CarriedHistory ==
    ASSUME HistoryAgrees, [Next]_vars, CarriesAll
    PROVE  /\ \A a \in Apps : Recorded(a)'
           /\ \A t \in Attempts : Ledgered(t)'
           /\ PositionsDiffer'
<1>1. \A a \in Apps : Carries(a) /\ (Owned(a)' <=> Owned(a))
    BY DEF CarriesAll, Carries, Keeps, Owned
<1>2. \A a \in Apps : Recorded(a)'
    BY <1>1, CarriedRecord
<1>3. \A t \in Attempts : Ledgered(t)'
    BY LedgerStays DEF CarriesAll, Carries, Keeps
<1> QED
    BY <1>1, <1>2, <1>3, PositionsStay

\* Claim, skip and ownerReceipt change neither the attempts nor what the role
\* names.
LEMMA MovedHistory ==
    ASSUME HistoryAgrees, [Next]_vars, NEW a \in Apps, Owned(a), Touches(a), Keeps(a),
           attempt' = attempt,
           app[a].status # "submitted", app'[a].status \in OwnStatuses \ {"submitted"},
           app'[a].status \in Submitting => InDoubt(a),
           app'[a].finalAction = None /\ app'[a].review.preview # "none" =>
               app'[a].review.by = app'[a].session
    PROVE  /\ \A b \in Apps : Recorded(b)'
           /\ \A t \in Attempts : Ledgered(t)'
           /\ PositionsDiffer'
<1>1. Recorded(a) /\ app[a].finalAction \in Attempts \cup {None}
    BY FieldsTyped DEF HistoryAgrees, SendsAreAccountedFor
<1>2. app[a].receipt = None /\ app'[a].receipt = None
    BY <1>1 DEF Recorded, Keeps
<1>3. app'[a].status \in Submitting => InDoubt(a)'
    BY DEF Keeps, InDoubt
<1>4. Recorded(a)'
    BY <1>1, <1>2, <1>3 DEF Recorded, Keeps, Owned
<1>5. \A t \in Attempts : Ledgered(t)'
    BY LedgerStays DEF Touches, Keeps
<1>6. \A b \in Apps : Owned(b)' => Owned(b)
    BY DEF Touches, Keeps, Owned
<1> QED
    BY <1>4, <1>5, <1>6, OtherRecords, PositionsStay

LEMMA ClaimHistory ==
    ASSUME HistoryAgrees, [Next]_vars, NEW a \in Apps, NEW s \in Sessions, Claim(a, s)
    PROVE  /\ \A b \in Apps : Recorded(b)'
           /\ \A t \in Attempts : Ledgered(t)'
           /\ PositionsDiffer'
<1>1. TypeOK /\ Accountable(app[a]) /\ app[a].hold \in BOOLEAN
    BY FieldsTyped DEF HistoryAgrees, SendsAreAccountedFor
<1>2. /\ Touches(a) /\ Keeps(a) /\ attempt' = attempt
      /\ Owned(a) /\ app[a].status = "pending"
      /\ app'[a].status = IF app[a].hold THEN "submission_unverified" ELSE "in_progress"
      /\ app'[a].review = app[a].review
    BY <1>1, ClaimEffect DEF FirstPending
<1>3. app[a].review = NoReview
    BY <1>1, <1>2 DEF Accountable, Owned, Untouched
<1>4. app'[a].status \in OwnStatuses \ {"submitted"} /\ app'[a].review.preview = "none"
    BY <1>2, <1>3 DEF OwnStatuses, Workable, Submitting, NoReview
<1>5. app'[a].status \in Submitting => InDoubt(a)
    BY <1>2 DEF Submitting, InDoubt
<1> QED
    BY <1>2, <1>4, <1>5, MovedHistory

\* A review that was the session's own stays so.
LEMMA ReviewStays ==
    ASSUME HistoryAgrees, NEW a \in Apps, Owned(a), Keeps(a), ReviewFollows(a)
    PROVE  app'[a].finalAction = None /\ app'[a].review.preview # "none" =>
               app'[a].review.by = app'[a].session
BY DEF HistoryAgrees, Recorded, Keeps, ReviewFollows

LEMMA SkipHistory ==
    ASSUME HistoryAgrees, [Next]_vars, NEW a \in Apps, NEW s \in Sessions, NEW stopped,
           Skip(a, s, stopped)
    PROVE  /\ \A b \in Apps : Recorded(b)'
           /\ \A t \in Attempts : Ledgered(t)'
           /\ PositionsDiffer'
<1>1. /\ Touches(a) /\ Keeps(a) /\ attempt' = attempt
      /\ Owned(a) /\ app[a].status \notin Terminal /\ app'[a].status = "skipped"
      /\ ReviewFollows(a)
    BY SkipEffect DEF HistoryAgrees, SendsAreAccountedFor, Holds
<1>2. app'[a].status \in OwnStatuses \ {"submitted"} /\ app'[a].status \notin Submitting
    BY <1>1 DEF OwnStatuses, Submitting
<1> QED
    BY <1>1, <1>2, ReviewStays, MovedHistory DEF Terminal

LEMMA OwnerReceiptHistory ==
    ASSUME HistoryAgrees, [Next]_vars, NEW c \in Callers, CommitOwnerReceipt(c)
    PROVE  /\ \A b \in Apps : Recorded(b)'
           /\ \A t \in Attempts : Ledgered(t)'
           /\ PositionsDiffer'
<1> DEFINE a == request[c].app
<1>1. /\ a \in Apps /\ Touches(a) /\ Keeps(a) /\ attempt' = attempt
      /\ Owned(a) /\ app[a].status \notin Terminal
      /\ app'[a].status = "owner_reported_submitted"
      /\ ReviewFollows(a)
    BY OwnerReceiptEffect DEF HistoryAgrees, SendsAreAccountedFor, Holds
<1>2. app'[a].status \in OwnStatuses \ {"submitted"} /\ app'[a].status \notin Submitting
    BY <1>1 DEF OwnStatuses, Submitting
<1> HIDE DEF a
<1> QED
    BY <1>1, <1>2, ReviewStays, MovedHistory DEF Terminal

LEMMA AddHistory ==
    ASSUME HistoryAgrees, [Next]_vars, NEW c \in Callers, CommitAdd(c)
    PROVE  /\ \A b \in Apps : Recorded(b)'
           /\ \A t \in Attempts : Ledgered(t)'
           /\ PositionsDiffer'
<1>1. TypeOK
    BY DEF HistoryAgrees, SendsAreAccountedFor
<1>2. PICK a \in Apps : a = request[c].app
    BY <1>1, AddEffect
<1>3. /\ a \in Apps /\ Touches(a) /\ attempt' = attempt /\ ~Owned(a)
      /\ app'[a].mode = "chrome_session" /\ app'[a].status = "pending"
      /\ \A b \in Apps : app[b].position < app'[a].position
    BY <1>1, <1>2, AddEffect
<1>4. Recorded(a) /\ Accountable(app[a])
    BY <1>3 DEF HistoryAgrees, SendsAreAccountedFor
<1>5. app[a].finalAction = None /\ app[a].review = NoReview /\ app[a].finalActions = {}
      /\ app[a].receipt = None
    BY <1>3, <1>4 DEF Accountable, Untouched, Owned, Recorded
<1>6. app'[a].finalAction = None /\ app'[a].review = NoReview /\ app'[a].finalActions = {}
      /\ app'[a].receipt = None
    BY <1>1, <1>2, <1>5, AddEffect
<1>7. "pending" \in OwnStatuses /\ "pending" \notin Submitting /\ NoReview.preview = "none"
    BY DEF OwnStatuses, Submitting, NoReview
<1>8. Recorded(a)'
    BY <1>3, <1>6, <1>7, FS_EmptySet DEF Recorded, Owned, RetryLimit
<1>9. \A t \in Attempts : attempt[t].app # a
    BY <1>3, ChromeQueueAssumption
    DEF HistoryAgrees, SendsAreAccountedFor, ChromeQueueAssumption
<1>10. \A t \in Attempts : Ledgered(t)'
    BY <1>3, <1>9, OtherLedgers
<1>11. PositionsDiffer'
    <2> SUFFICES ASSUME NEW b1 \in Apps, NEW b2 \in Apps, Owned(b1)', Owned(b2)',
                        app'[b1].position = app'[b2].position
                 PROVE  b1 = b2
        BY DEF PositionsDiffer
    <2>1. \A b \in Apps \ {a} : app'[b] = app[b] /\ app[b].position \in Nat
        BY <1>1, <1>3, FieldsTyped DEF Touches
    <2>2. CASE b1 # a /\ b2 # a
        BY <2>1, <2>2 DEF HistoryAgrees, PositionsDiffer, Owned
    <2>3. \A b \in Apps \ {a} : app'[b].position # app'[a].position
        <3>1. \A b \in Apps \ {a} : app'[b].position < app'[a].position
            BY <1>3, <2>1
        <3>2. app'[a].position \in Nat
            BY <1>1, <1>3, NextTyped DEF TypeOK, AppRecords
        <3> QED
            BY <2>1, <3>1, <3>2
    <2> QED
        BY <2>2, <2>3
<1> QED
    BY <1>3, <1>8, <1>10, <1>11, OtherRecords

LEMMA StartHistory ==
    ASSUME HistoryAgrees, [Next]_vars, NEW c \in Callers, CommitStart(c)
    PROVE  /\ \A b \in Apps : Recorded(b)'
           /\ \A t \in Attempts : Ledgered(t)'
           /\ PositionsDiffer'
<1>1. TypeOK
    BY DEF HistoryAgrees, SendsAreAccountedFor
<1>2. PICK a \in Apps : a = request[c].app
    BY <1>1, StartEffect
<1>3. PICK t \in Attempts :
          /\ attempt[t].status = "unused"
          /\ app'[a].finalAction = t
          /\ attempt' = [attempt EXCEPT ![t] =
                [app |-> a, by |-> request[c].session, day |-> day, status |-> "submitting"]]
    BY <1>1, <1>2, StartEffect
<1>4. /\ Touches(a) /\ Owned(a)
      /\ app[a].status = "in_progress" /\ app'[a].status = "submission_started"
      /\ app[a].finalAction = None
      /\ app'[a].mode = app[a].mode /\ app'[a].finalActions = app[a].finalActions
      /\ app'[a].receipt = app[a].receipt
    BY <1>1, <1>2, StartEffect DEF Holds
<1>5. Recorded(a)
    BY DEF HistoryAgrees
<1>6. app[a].receipt = None /\ app'[a].receipt = None /\ t # None
    BY <1>4, <1>5, ChromeQueueAssumption DEF Recorded, ChromeQueueAssumption
<1>7. attempt'[t].app = a /\ attempt'[t].status = "submitting"
      /\ \A u \in Attempts \ {t} : attempt'[u] = attempt[u]
    BY <1>1, <1>3 DEF TypeOK
<1>8. "submission_started" \in OwnStatuses \cap Submitting
    BY DEF OwnStatuses, Submitting
<1>9. Recorded(a)'
    BY <1>3, <1>4, <1>5, <1>6, <1>7, <1>8 DEF Recorded, Owned, InDoubt
<1>10. Ledgered(t)'
    BY <1>3, <1>6, <1>7, ChromeQueueAssumption DEF Ledgered, ChromeQueueAssumption
<1>11. ASSUME NEW u \in Attempts \ {t} PROVE Ledgered(u)'
    <2>1. CASE attempt[u].app = a
        BY <1>4, <1>6, <1>7, <2>1, LedgerStays, ChromeQueueAssumption DEF ChromeQueueAssumption
    <2>2. CASE attempt[u].app # a
        BY <1>4, <1>7, <2>2, OtherLedgers
    <2> QED
        BY <2>1, <2>2
<1>12. \A b \in Apps : Owned(b)' => Owned(b)
    BY <1>4 DEF Touches, Owned
<1> QED
    BY <1>4, <1>9, <1>10, <1>11, <1>12, OtherRecords, PositionsStay

LEMMA ReceiptHistory ==
    ASSUME HistoryAgrees, [Next]_vars, NEW c \in Callers, CommitReceipt(c)
    PROVE  /\ \A b \in Apps : Recorded(b)'
           /\ \A t \in Attempts : Ledgered(t)'
           /\ PositionsDiffer'
<1>1. TypeOK /\ Informed(c) /\ request[c].op = "receipt"
    BY DEF HistoryAgrees, SendsAreAccountedFor, CommitReceipt
<1>2. PICK a \in Apps, t \in AttemptIds : a = request[c].app /\ t = request[c].attempt
    BY <1>1, RequestTyped
<1>3. t # None /\ Accepted(a, t)
    BY <1>1, <1>2 DEF Informed
<1>4. /\ Touches(a) /\ Owned(a) /\ app[a].status \notin Terminal
      /\ t = RecordedAttempt(a)
      /\ app'[a].status = "submitted" /\ app'[a].receipt = t
      /\ app'[a].mode = app[a].mode /\ app'[a].hold = app[a].hold
      /\ app'[a].finalAction = app[a].finalAction
      /\ app'[a].finalActions = app[a].finalActions
      /\ ReviewFollows(a)
      /\ attempt' = [u \in Attempts |->
            IF u = t THEN [attempt[u] EXCEPT !.status = "submitted"] ELSE attempt[u]]
    BY <1>1, <1>2, ReceiptEffect DEF Holds
<1>5. Recorded(a) /\ app[a].finalAction \in Attempts \cup {None}
    BY <1>1, FieldsTyped DEF HistoryAgrees
<1>6. RecordedAttempt(a)' = t /\ Accepted(a, t)'
    BY <1>3, <1>4, AcceptedStays DEF RecordedAttempt
<1>7. app[a].receipt = None
    BY <1>4, <1>5 DEF Recorded, Terminal
<1>8. t \in Attempts => t = app[a].finalAction /\ attempt[t].app = a
    BY <1>3, <1>4, <1>5, ChromeQueueAssumption
    DEF RecordedAttempt, Recorded, ChromeQueueAssumption
<1>9. app'[a].finalAction # None => attempt'[app'[a].finalAction].app = a
    BY <1>4, <1>5, WhatStays, ChromeQueueAssumption DEF Recorded, ChromeQueueAssumption
<1>10. "submitted" \in OwnStatuses /\ "submitted" \notin Submitting
    BY DEF OwnStatuses, Submitting
<1>11. app'[a].finalAction = None /\ app'[a].review.preview # "none" =>
           app'[a].review.by = app'[a].session
    BY <1>4, <1>5 DEF Recorded, ReviewFollows
<1>12. Recorded(a)'
    <2>1. Accepted(a, app[a].receipt)'
        BY <1>4, <1>6 DEF Accepted
    <2> QED
        BY <1>3, <1>4, <1>5, <1>6, <1>9, <1>10, <1>11, <2>1 DEF Recorded, Owned
<1>13. ASSUME NEW u \in Attempts PROVE Ledgered(u)'
    <2>1. CASE u = t
        <3>1. attempt[u] \in AttemptRecords
            BY <1>1 DEF TypeOK
        <3>2. attempt'[u].app = a /\ attempt'[u].status = "submitted"
            BY <1>4, <1>8, <2>1, <3>1 DEF AttemptRecords
        <3> QED
            BY <1>4, <2>1, <3>2, ChromeQueueAssumption DEF Ledgered, ChromeQueueAssumption
    <2>2. CASE u # t /\ attempt[u].app = a
        <3>1. attempt'[u] = attempt[u]
            BY <1>4, <2>2
        <3>2. app[a].finalAction # u /\ app[a].receipt # u
            BY <1>4, <1>7, <2>2, ChromeQueueAssumption DEF RecordedAttempt, ChromeQueueAssumption
        <3> QED
            BY <1>4, <2>2, <3>1, <3>2, LedgerStays
    <2>3. CASE u # t /\ attempt[u].app # a
        BY <1>4, <2>3, OtherLedgers
    <2> QED
        BY <2>1, <2>2, <2>3
<1>14. \A b \in Apps : Owned(b)' => Owned(b)
    BY <1>4 DEF Touches, Owned
<1> QED
    BY <1>4, <1>12, <1>13, <1>14, OtherRecords, PositionsStay

\* An attempt that is rejected was recorded: no archive names nothing.
LEMMA RejectsAnAttempt ==
    ASSUME HistoryAgrees, NEW a \in Apps, NEW t, NEW outcome, Rejects(a, t, outcome)
    PROVE  /\ t \in Attempts /\ t = app[a].finalAction /\ attempt[t].app = a
           /\ employer[t] = "rejected"
           /\ app[a].receipt = None
<1>1. Recorded(a) /\ app[a].finalAction \in Attempts \cup {None}
    BY FieldsTyped DEF HistoryAgrees, SendsAreAccountedFor
<1>2. Owned(a) /\ app[a].status \in Submitting /\ ~app[a].hold /\ t = app[a].finalAction
    BY DEF Rejects, Active
<1>3. t # None
    BY <1>1, <1>2 DEF Recorded, InDoubt
<1> QED
    BY <1>1, <1>2, <1>3 DEF Recorded, Submitting, Rejects

LEMMA RejectHistory ==
    ASSUME HistoryAgrees, [Next]_vars, NEW a \in Apps, NEW t,
           NEW outcome \in {"not_submitted", "validation_rejected"}, Rejects(a, t, outcome)
    PROVE  /\ \A b \in Apps : Recorded(b)'
           /\ \A u \in Attempts : Ledgered(u)'
           /\ PositionsDiffer'
<1>1. TypeOK /\ Recorded(a) /\ Owned(a)
    BY DEF HistoryAgrees, SendsAreAccountedFor, Rejects, Active
<1>2. t \in Attempts /\ t = app[a].finalAction /\ attempt[t].app = a /\ app[a].receipt = None
    BY RejectsAnAttempt
<1>3. /\ Touches(a)
      /\ Cardinality(app[a].finalActions) < RetryLimit
      /\ app'[a].status = "in_progress" /\ app'[a].finalAction = None
      /\ app'[a].finalActions = app[a].finalActions \cup {t}
      /\ app'[a].mode = app[a].mode /\ app'[a].receipt = app[a].receipt
      /\ app'[a].review = NoReview
      /\ attempt' = [u \in Attempts |->
            IF u = t THEN [attempt[u] EXCEPT !.status = outcome] ELSE attempt[u]]
    BY <1>1, ArchiveEffect DEF Rejects
<1>4. /\ IsFiniteSet(app'[a].finalActions)
      /\ Cardinality(app'[a].finalActions) <= RetryLimit
    <2>1. IsFiniteSet(app[a].finalActions)
        BY <1>1 DEF Recorded
    <2>2. /\ Cardinality(app[a].finalActions) \in Nat
          /\ IsFiniteSet(app[a].finalActions \cup {t})
          /\ \/ Cardinality(app[a].finalActions \cup {t}) = Cardinality(app[a].finalActions) + 1
             \/ Cardinality(app[a].finalActions \cup {t}) = Cardinality(app[a].finalActions)
        BY <2>1, FS_CardinalityType, FS_AddElement
    <2> QED
        BY <1>3, <2>2 DEF RetryLimit
<1>5. None \notin app'[a].finalActions
    BY <1>1, <1>2, <1>3, ChromeQueueAssumption DEF Recorded, ChromeQueueAssumption
<1>6. /\ app'[a].status \in OwnStatuses /\ app'[a].status \notin Submitting
      /\ app'[a].status # "submitted"
    BY <1>3 DEF OwnStatuses, Workable, Submitting
<1>7. app'[a].review.preview = "none"
    BY <1>3 DEF NoReview
<1>8. Recorded(a)'
    BY <1>1, <1>2, <1>3, <1>4, <1>5, <1>6, <1>7 DEF Recorded, Owned
<1>9. ASSUME NEW u \in Attempts PROVE Ledgered(u)'
    <2>1. CASE u = t
        <3>1. attempt[u] \in AttemptRecords
            BY <1>1 DEF TypeOK
        <3>2. attempt'[u].app = a /\ attempt'[u].status = outcome
            BY <1>2, <1>3, <2>1, <3>1 DEF AttemptRecords
        <3> QED
            BY <1>3, <2>1, <3>2, ChromeQueueAssumption DEF Ledgered, ChromeQueueAssumption
    <2>2. CASE u # t /\ attempt[u].app = a
        BY <1>2, <1>3, <2>2, LedgerStays
    <2>3. CASE u # t /\ attempt[u].app # a
        BY <1>3, <2>3, OtherLedgers
    <2> QED
        BY <2>1, <2>2, <2>3
<1>10. \A b \in Apps : Owned(b)' => Owned(b)
    BY <1>3 DEF Touches, Owned
<1> QED
    BY <1>3, <1>8, <1>9, <1>10, OtherRecords, PositionsStay

LEMMA NextHistory == HistoryAgrees /\ [Next]_vars => HistoryAgrees'
<1> SUFFICES ASSUME HistoryAgrees, [Next]_vars PROVE HistoryAgrees'
    OBVIOUS
<1>1. SendsAreAccountedFor'
    BY NextAccounted DEF HistoryAgrees
<1>2. \A c \in Callers : Informed(c)'
    BY InformedStays
<1>3. /\ \A b \in Apps : Recorded(b)'
      /\ \A t \in Attempts : Ledgered(t)'
      /\ PositionsDiffer'
    BY StepKinds, CarriedHistory, AddHistory, StartHistory, ReceiptHistory, OwnerReceiptHistory,
       ClaimHistory, SkipHistory, RejectHistory
    DEF HistoryAgrees
<1> QED
    BY <1>1, <1>2, <1>3 DEF HistoryAgrees

----------------------------------------------------------------------------
(* The theorems *)

\* In every reachable state the records agree on the past: the invariant the
\* results below rest on.
THEOREM HistoryKept == Spec => []HistoryAgrees
<1>1. Init => HistoryAgrees
    BY InitHistory
<1>2. HistoryAgrees /\ [Next]_vars => HistoryAgrees'
    BY NextHistory
<1> QED
    BY <1>1, <1>2, PTL DEF Spec

\* The attempts collection and the applications agree through every retry,
\* takeover and late receipt (chrome-queue.js: startSubmission, receipt,
\* notSubmitted, validationError).
THEOREM LedgerKept == Spec => []LedgerAgrees
<1>1. HistoryAgrees => LedgerAgrees
    BY DEF HistoryAgrees, Ledgered, LedgerAgrees
<1> QED
    BY <1>1, HistoryKept, PTL

\* A call that read a role before it finished changes nothing of it afterwards
\* (chrome-queue.js: #item, and the checks inside every transaction).
THEOREM FinishedKept == Spec => FinishedStaysFinished
<1> DEFINE Same(a) == /\ app'[a].status = app[a].status
                      /\ app'[a].finalAction = app[a].finalAction
                      /\ app'[a].receipt = app[a].receipt
                      /\ app'[a].ownerReport = app[a].ownerReport
<1>1. ASSUME HistoryAgrees, [Next]_vars, NEW a \in Apps, Owned(a), app[a].status \in Terminal
      PROVE  Same(a)
    <2>1. TypeOK /\ SendsAreAccountedFor
        BY <1>1 DEF HistoryAgrees, SendsAreAccountedFor
    <2>2. ASSUME NEW b \in Apps, Touches(b), ~Owned(b) \/ app[b].status \notin Terminal
          PROVE  Same(a)
        BY <1>1, <2>2 DEF Touches
    <2>3. CASE CarriesAll
        BY <1>1, <2>3 DEF CarriesAll, Carries, Keeps, Active
    <2>4. ASSUME NEW c \in Callers, CommitAdd(c) PROVE Same(a)
        BY <2>1, <2>2, <2>4, AddEffect
    <2>5. ASSUME NEW c \in Callers, CommitStart(c) PROVE Same(a)
        BY <2>1, <2>2, <2>5, StartEffect DEF Holds
    <2>6. ASSUME NEW c \in Callers, CommitReceipt(c) PROVE Same(a)
        BY <2>1, <2>2, <2>6, ReceiptEffect DEF Holds
    <2>7. ASSUME NEW c \in Callers, CommitOwnerReceipt(c) PROVE Same(a)
        BY <2>1, <2>2, <2>7, OwnerReceiptEffect DEF Holds
    <2>8. ASSUME NEW b \in Apps, NEW s \in Sessions, Claim(b, s) PROVE Same(a)
        BY <2>1, <2>2, <2>8, ClaimEffect DEF FirstPending, Terminal
    <2>9. ASSUME NEW b \in Apps, NEW s \in Sessions, NEW stopped, Skip(b, s, stopped)
          PROVE  Same(a)
        BY <2>1, <2>2, <2>9, SkipEffect DEF Holds
    <2>10. ASSUME NEW b \in Apps, NEW t, NEW outcome, Rejects(b, t, outcome) PROVE Same(a)
        BY <2>1, <2>2, <2>10, ArchiveEffect DEF Rejects, Active
    <2> QED
        BY <1>1, <2>1, <2>3, <2>4, <2>5, <2>6, <2>7, <2>8, <2>9, <2>10, StepKinds
<1>2. HistoryAgrees /\ [Next]_vars =>
          [\A a \in Apps : Owned(a) /\ app[a].status \in Terminal => Same(a)]_vars
    BY <1>1
<1> QED
    BY <1>2, HistoryKept, PTL DEF Spec, FinishedStaysFinished

\* Only a claim takes a role out of the queue, and it takes the first one
\* (chrome-queue.js: claim, add).
THEOREM FirstInFirstOut == Spec => QueueOrder
<1>1. ASSUME HistoryAgrees, [Next]_vars, NEW a \in Apps, NEW b \in Apps,
             Owned(a), app[a].status = "pending", app'[a].status # "pending",
             Owned(b), app[b].status = "pending", a # b
      PROVE  app[a].position < app[b].position
    <2>1. TypeOK /\ SendsAreAccountedFor /\ app[a].session = None
        BY <1>1 DEF HistoryAgrees, SendsAreAccountedFor, Accountable, Owned, Untouched
    <2>2. ASSUME NEW d \in Apps, Touches(d) PROVE d = a
        BY <1>1, <2>2 DEF Touches
    <2>3. ~CarriesAll
        BY <1>1 DEF CarriesAll, Carries, Active
    <2>4. ASSUME NEW c \in Callers PROVE ~CommitAdd(c)
        BY <1>1, <2>1, <2>2, AddEffect
    <2>5. ASSUME NEW c \in Callers PROVE ~CommitStart(c)
        BY <1>1, <2>1, <2>2, StartEffect
    <2>6. ASSUME NEW c \in Callers, CommitReceipt(c) PROVE FALSE
        BY <1>1, <2>1, <2>2, <2>6, ReceiptEffect, HeldRequest, SMTT(30), ZenonT(40) DEF CommitReceipt
    <2>7. ASSUME NEW c \in Callers PROVE ~CommitOwnerReceipt(c)
        BY <1>1, <2>1, <2>2, OwnerReceiptEffect DEF Workable
    <2>8. ASSUME NEW d \in Apps, NEW s \in Sessions, NEW stopped PROVE ~Skip(d, s, stopped)
        BY <1>1, <2>1, <2>2, SkipEffect, HeldIsActive
    <2>9. ASSUME NEW d \in Apps, NEW t, NEW outcome PROVE ~Rejects(d, t, outcome)
        BY <1>1, <2>1, <2>2, ArchiveEffect DEF Rejects, Submitting
    <2>10. PICK s \in Sessions : Claim(a, s)
        BY <1>1, <2>1, <2>2, <2>3, <2>4, <2>5, <2>6, <2>7, <2>8, <2>9, StepKinds, ClaimEffect
    <2>11. app[a].position <= app[b].position /\ app[a].position # app[b].position
        BY <1>1, <2>1, <2>10 DEF Claim, FirstPending, HistoryAgrees, PositionsDiffer
    <2>12. app[a].position \in Nat /\ app[b].position \in Nat
        BY <2>1, FieldsTyped
    <2> QED
        BY <2>11, <2>12
<1>2. HistoryAgrees /\ [Next]_vars =>
          [\A a, b \in Apps :
              /\ Owned(a) /\ app[a].status = "pending" /\ app'[a].status # "pending"
              /\ Owned(b) /\ app[b].status = "pending" /\ a # b
              => app[a].position < app[b].position]_vars
    BY <1>1
<1> QED
    BY <1>2, HistoryKept, PTL DEF Spec, QueueOrder

\* An attempt is used first by a start, and by no other step.
LEMMA FirstUse ==
    ASSUME HistoryAgrees, [Next]_vars, NEW t \in Attempts,
           attempt[t].status = "unused", attempt'[t].status # "unused"
    PROVE  \E c \in Callers :
              /\ CommitStart(c)
              /\ attempt'[t] = [app |-> request[c].app, by |-> request[c].session,
                                day |-> day, status |-> "submitting"]
              /\ \A u \in Attempts \ {t} : attempt'[u] = attempt[u]
<1>1. TypeOK
    BY DEF HistoryAgrees, SendsAreAccountedFor
<1>2. attempt' # attempt /\ attempt[t].app = None
    BY DEF HistoryAgrees, Ledgered
<1>3. \A c \in Callers : ~CommitAdd(c) /\ ~CommitOwnerReceipt(c)
    BY <1>1, <1>2, AddEffect, OwnerReceiptEffect
<1>4. \A a \in Apps, s \in Sessions : ~Claim(a, s) /\ \A stopped : ~Skip(a, s, stopped)
    BY <1>1, <1>2, ClaimEffect, SkipEffect
<1>5. ASSUME NEW c \in Callers, CommitReceipt(c) PROVE FALSE
    <2> DEFINE a == request[c].app
    <2>1. /\ a \in Apps /\ request[c].attempt = RecordedAttempt(a)
          /\ attempt' = [u \in Attempts |-> IF u = request[c].attempt
                THEN [attempt[u] EXCEPT !.status = "submitted"] ELSE attempt[u]]
        BY <1>1, <1>5, ReceiptEffect
    <2>2. t = RecordedAttempt(a)
        BY <2>1
    <2>3. t = app[a].finalAction /\ attempt[t].app = a
        BY <2>1, <2>2, ChromeQueueAssumption
        DEF RecordedAttempt, HistoryAgrees, Recorded, ChromeQueueAssumption
    <2> QED
        BY <1>2, <2>1, <2>3, ChromeQueueAssumption DEF ChromeQueueAssumption
<1>6. ASSUME NEW a \in Apps, NEW u, NEW outcome, Rejects(a, u, outcome) PROVE FALSE
    <2>1. attempt[u].app = a /\ \A v \in Attempts \ {u} : attempt'[v] = attempt[v]
        BY <1>1, <1>6, RejectsAnAttempt, ArchiveEffect DEF Rejects
    <2> QED
        BY <1>2, <2>1, ChromeQueueAssumption DEF ChromeQueueAssumption
<1>7. PICK c \in Callers : CommitStart(c)
    BY <1>2, <1>3, <1>4, <1>5, <1>6, StepKinds DEF HistoryAgrees, CarriesAll
<1>8. PICK u \in Attempts :
          attempt' = [attempt EXCEPT ![u] =
              [app |-> request[c].app, by |-> request[c].session, day |-> day,
               status |-> "submitting"]]
    BY <1>1, <1>7, StartEffect
<1>9. u = t
    BY <1>1, <1>8 DEF TypeOK
<1> QED
    BY <1>1, <1>7, <1>8, <1>9 DEF TypeOK

\* Permission to press Submit goes to the session that owns the role and made
\* the review (chrome-queue.js: startSubmission, takeover).
THEOREM SubmitIsOwned == Spec => SubmitByOwningSession
<1>1. ASSUME HistoryAgrees, [Next]_vars, NEW t \in Attempts,
             attempt[t].status = "unused", attempt'[t].status # "unused"
      PROVE  LET a == attempt'[t].app
             IN  attempt'[t].by = app'[a].session /\ app'[a].review.by = app'[a].session
    <2>1. TypeOK
        BY <1>1 DEF HistoryAgrees, SendsAreAccountedFor
    <2>2. PICK c \in Callers :
              /\ CommitStart(c)
              /\ attempt'[t] = [app |-> request[c].app, by |-> request[c].session,
                                day |-> day, status |-> "submitting"]
        BY <1>1, FirstUse
    <2> DEFINE a == request[c].app
    <2>3. /\ a \in Apps /\ Owned(a) /\ app[a].session = request[c].session
          /\ app[a].finalAction = None
          /\ app[a].review.preview = request[c].preview
          /\ app'[a].review = app[a].review /\ app'[a].session = app[a].session
        BY <2>1, <2>2, StartEffect DEF Holds
    <2>4. request[c].preview # "none"
        BY <1>1, <2>2, ChromeQueueAssumption
        DEF HistoryAgrees, Informed, CommitStart, ChromeQueueAssumption
    <2>5. app[a].review.by = app[a].session
        BY <1>1, <2>3, <2>4 DEF HistoryAgrees, Recorded
    <2> QED
        BY <2>2, <2>3, <2>5
<1>2. HistoryAgrees /\ [Next]_vars =>
          [\A t \in Attempts : attempt[t].status = "unused" /\ attempt'[t].status # "unused" =>
              LET a == attempt'[t].app
              IN  attempt'[t].by = app'[a].session /\ app'[a].review.by = app'[a].session]_vars
    BY <1>1
<1> QED
    BY <1>2, HistoryKept, PTL DEF Spec, SubmitByOwningSession

\* Permission rests on a review of the posting as it is then and of the profile
\* the call read (chrome-queue.js: startSubmission).
THEOREM SubmitIsReviewed == Spec => SubmitUnderReviewedFacts
<1>1. ASSUME HistoryAgrees, [Next]_vars, NEW t \in Attempts,
             attempt[t].status = "unused", attempt'[t].status # "unused"
      PROVE  LET a == attempt'[t].app
             IN  /\ app'[a].review.posting = posting[a]
                 /\ \E c \in Callers :
                       /\ request[c].op = "start" /\ request[c].app = a
                       /\ app'[a].review.profile = request[c].profile
                       /\ app'[a].review.preview = request[c].preview
    <2>1. TypeOK
        BY <1>1 DEF HistoryAgrees, SendsAreAccountedFor
    <2>2. PICK c \in Callers :
              /\ CommitStart(c)
              /\ attempt'[t] = [app |-> request[c].app, by |-> request[c].session,
                                day |-> day, status |-> "submitting"]
        BY <1>1, FirstUse
    <2> DEFINE a == request[c].app
    <2>3. /\ app[a].review.preview = request[c].preview
          /\ app[a].review.profile = request[c].profile
          /\ app[a].review.posting = posting[a]
          /\ app'[a].review = app[a].review
        BY <2>1, <2>2, StartEffect
    <2>4. request[c].op = "start" /\ attempt'[t].app = a
        BY <2>2 DEF CommitStart
    <2> QED
        BY <2>3, <2>4
<1>2. HistoryAgrees /\ [Next]_vars =>
          [\A t \in Attempts : attempt[t].status = "unused" /\ attempt'[t].status # "unused" =>
              LET a == attempt'[t].app
              IN  /\ app'[a].review.posting = posting[a]
                  /\ \E c \in Callers :
                        /\ request[c].op = "start" /\ request[c].app = a
                        /\ app'[a].review.profile = request[c].profile
                        /\ app'[a].review.preview = request[c].preview]_vars
    BY <1>1
<1> QED
    BY <1>2, HistoryKept, PTL DEF Spec, SubmitUnderReviewedFacts

----------------------------------------------------------------------------
(* The daily caps *)

\* The roles that got a final attempt on day d.
StartedOn(d) == {a \in Apps : \E t \in Attempts : attempt[t].app = a /\ attempt[t].day = d}

WithinCaps(S) ==
    /\ Cardinality(S) <= GlobalCap
    /\ \A m \in Modes : Cardinality({a \in S : ModeOf[a] = m}) <= ModeCap[m]

\* One more role stays within a cap if those already counted are below it.
LEMMA OneMore ==
    ASSUME NEW S, NEW T, IsFiniteSet(T), S \subseteq T, NEW x, NEW k \in Nat, Cardinality(T) < k
    PROVE  Cardinality(S \cup {x}) <= k
<1>1. IsFiniteSet(S) /\ Cardinality(S) <= Cardinality(T)
    BY FS_Subset
<1>2. Cardinality(S) \in Nat /\ Cardinality(T) \in Nat
    BY <1>1, FS_CardinalityType
<1>3. Cardinality(S \cup {x}) \in {Cardinality(S), Cardinality(S) + 1}
    BY <1>1, FS_AddElement
<1> QED
    BY <1>1, <1>2, <1>3

\* The caps of a day are used up by the roles counted on it, archived attempts
\* included.
LEMMA StartWithinCaps ==
    ASSUME SendsAreAccountedFor, NEW a \in Apps, WithinDailyCaps(a), WithinCaps(StartedOn(day))
    PROVE  WithinCaps(StartedOn(day) \cup {a})
<1> DEFINE others == {b \in Apps \ {a} : CountedToday(b)}
           before == StartedOn(day) \ {a}
<1>1. IsFiniteSet(others) /\ \A m : IsFiniteSet({b \in others : ModeOf[b] = m})
    BY ChromeQueueAssumption, FS_Subset DEF ChromeQueueAssumption
<1>2. before \subseteq others
    <2> SUFFICES ASSUME NEW b \in Apps \ {a}, NEW t \in Attempts,
                        attempt[t].app = b, attempt[t].day = day
                 PROVE  CountedToday(b)
        BY DEF StartedOn
    <2>1. t \in app[b].finalActions \cup {app[b].finalAction} /\ t # None
        BY ChromeQueueAssumption DEF SendsAreAccountedFor, ChromeQueueAssumption
    <2> QED
        BY <2>1 DEF CountedToday
<1>3. /\ Cardinality(others) < GlobalCap
      /\ Cardinality({b \in others : ModeOf[b] = ModeOf[a]}) < ModeCap[ModeOf[a]]
    BY DEF WithinDailyCaps
<1>4. GlobalCap \in Nat /\ ModeOf[a] \in Modes /\ \A m \in Modes : ModeCap[m] \in Nat
    BY ChromeQueueAssumption DEF ChromeQueueAssumption
<1>5. Cardinality(StartedOn(day) \cup {a}) <= GlobalCap
    <2>1. StartedOn(day) \cup {a} = before \cup {a}
        OBVIOUS
    <2> HIDE DEF before, others
    <2> QED
        BY <1>1, <1>2, <1>3, <1>4, <2>1, OneMore
<1>6. ASSUME NEW m \in Modes
      PROVE  Cardinality({b \in StartedOn(day) \cup {a} : ModeOf[b] = m}) <= ModeCap[m]
    <2>1. CASE ModeOf[a] = m
        <3> DEFINE mine == {b \in before : ModeOf[b] = m}
                   counted == {b \in others : ModeOf[b] = m}
        <3>1. {b \in StartedOn(day) \cup {a} : ModeOf[b] = m} = mine \cup {a}
            BY <2>1
        <3>2. mine \subseteq counted
            BY <1>2
        <3>3. IsFiniteSet(counted) /\ Cardinality(counted) < ModeCap[m] /\ ModeCap[m] \in Nat
            BY <1>1, <1>3, <1>4, <2>1
        <3> HIDE DEF mine, counted
        <3> QED
            BY <3>1, <3>2, <3>3, OneMore
    <2>2. CASE ModeOf[a] # m
        <3>1. {b \in StartedOn(day) \cup {a} : ModeOf[b] = m} = {b \in StartedOn(day) : ModeOf[b] = m}
            BY <2>2
        <3> QED
            BY <3>1 DEF WithinCaps
    <2> QED
        BY <2>1, <2>2
<1> QED
    BY <1>5, <1>6 DEF WithinCaps

CapsHold == \A d \in 0 .. MaxDay : WithinCaps(StartedOn(d))

LEMMA NextCaps ==
    ASSUME HistoryAgrees, CapsHold, [Next]_vars
    PROVE  CapsHold'
<1>1. TypeOK /\ SendsAreAccountedFor
    BY DEF HistoryAgrees, SendsAreAccountedFor
<1>2. ASSUME NEW d, StartedOn(d)' = StartedOn(d), WithinCaps(StartedOn(d))
      PROVE  WithinCaps(StartedOn(d))'
    BY <1>2 DEF WithinCaps
<1>3. CASE \A t \in Attempts : attempt[t].status = "unused" => attempt'[t].status = "unused"
    <2>1. ASSUME NEW t \in Attempts
          PROVE  attempt'[t].app \in Apps \/ attempt[t].app \in Apps =>
                     attempt'[t].app = attempt[t].app /\ attempt'[t].day = attempt[t].day
        <3>1. CASE attempt[t].app # None
            BY <3>1, WhatStays
        <3>2. CASE attempt[t].app = None
            BY <1>3, <3>2, NextHistory, ChromeQueueAssumption
            DEF HistoryAgrees, Ledgered, ChromeQueueAssumption
        <3> QED
            BY <3>1, <3>2
    <2>2. \A d \in 0 .. MaxDay : StartedOn(d)' = StartedOn(d)
        BY <2>1 DEF StartedOn
    <2> QED
        BY <1>2, <2>2 DEF CapsHold
<1>4. ASSUME NEW t \in Attempts, attempt[t].status = "unused", attempt'[t].status # "unused"
      PROVE  CapsHold'
    <2>1. PICK c \in Callers :
              /\ CommitStart(c)
              /\ attempt'[t] = [app |-> request[c].app, by |-> request[c].session,
                                day |-> day, status |-> "submitting"]
              /\ \A u \in Attempts \ {t} : attempt'[u] = attempt[u]
        BY <1>4, FirstUse
    <2>2. PICK a \in Apps : a = request[c].app
        BY <1>1, <2>1, StartEffect
    <2>3. WithinDailyCaps(a) /\ day \in 0 .. MaxDay
        BY <1>1, <2>1, <2>2 DEF CommitStart, TypeOK
    <2>4. attempt[t].app = None
        BY <1>4 DEF HistoryAgrees, Ledgered
    <2>5. ASSUME NEW d PROVE StartedOn(d)' = IF d = day THEN StartedOn(d) \cup {a} ELSE StartedOn(d)
        BY <2>1, <2>2, <2>4, ChromeQueueAssumption DEF StartedOn, ChromeQueueAssumption
    <2>6. ASSUME NEW d \in 0 .. MaxDay PROVE WithinCaps(StartedOn(d))'
        <3>1. CASE d = day
            <4>1. WithinCaps(StartedOn(day) \cup {a})
                BY <1>1, <2>3, StartWithinCaps DEF CapsHold
            <4> QED
                BY <2>5, <3>1, <4>1 DEF WithinCaps
        <3>2. CASE d # day
            BY <1>2, <2>5, <3>2 DEF CapsHold
        <3> QED
            BY <3>1, <3>2
    <2> QED
        BY <2>6 DEF CapsHold
<1> QED
    BY <1>3, <1>4

\* On no day do more roles get a final attempt than the caps allow, whatever is
\* archived, skipped or taken over on it (startSubmission in chrome-queue.js,
\* manualDailyCaps in service.js).
THEOREM CapsKept == Spec => []DailyCaps
<1>1. Init => CapsHold
    <2> SUFFICES ASSUME Init PROVE \A d \in 0 .. MaxDay : WithinCaps(StartedOn(d))
        BY DEF CapsHold
    <2>1. \A d : StartedOn(d) = {}
        BY ChromeQueueAssumption DEF Init, Unused, StartedOn, ChromeQueueAssumption
    <2>2. \A m : {a \in {} : ModeOf[a] = m} = {}
        OBVIOUS
    <2>3. Cardinality({}) = 0
        BY FS_EmptySet
    <2>4. GlobalCap \in Nat /\ \A m \in Modes : ModeCap[m] \in Nat
        BY ChromeQueueAssumption DEF ChromeQueueAssumption
    <2>5. WithinCaps({})
        BY <2>2, <2>3, <2>4 DEF WithinCaps
    <2> QED
        BY <2>1, <2>5
<1>2. HistoryAgrees /\ CapsHold /\ [Next]_vars => CapsHold'
    BY NextCaps
<1>3. CapsHold => DailyCaps
    BY DEF CapsHold, DailyCaps, WithinCaps, StartedOn
<1> QED
    BY <1>1, <1>2, <1>3, HistoryKept, PTL DEF Spec

----------------------------------------------------------------------------
(* The refinement of SubmissionProtocol *)

TriesOf(a) == Cardinality({t \in Attempts : attempt[t].app = a})

\* A role that carries on is where it was for the protocol, too.
LEMMA CarriedPhase ==
    ASSUME NEW a \in Apps, Carries(a)
    PROVE  PhaseOf(a)' = PhaseOf(a)
<1>1. (Owned(a)' <=> Owned(a)) /\ (InDoubt(a)' <=> InDoubt(a))
    BY DEF Carries, Keeps, Owned, InDoubt
<1>2. CASE app'[a].status = app[a].status
    BY <1>2 DEF PhaseOf, Carries, Keeps, Owned, InDoubt
<1>3. CASE ~Owned(a)
    BY <1>1, <1>3 DEF PhaseOf
<1>4. CASE /\ Owned(a)
           /\ app[a].status \notin Terminal \cup {"pending"}
           /\ app'[a].status \in Workable \cup Submitting
    <2>1. PhaseOf(a) = IF InDoubt(a) THEN "in_doubt" ELSE "working"
        BY <1>4 DEF PhaseOf, Terminal
    <2>2. PhaseOf(a)' = IF InDoubt(a)' THEN "in_doubt" ELSE "working"
        BY <1>1, <1>4 DEF PhaseOf, Workable, Submitting
    <2> QED
        BY <1>1, <2>1, <2>2
<1> QED
    BY <1>2, <1>3, <1>4 DEF Carries, Active

LEMMA OtherPhases ==
    ASSUME NEW a \in Apps, Touches(a), NEW b \in Apps, b # a
    PROVE  PhaseOf(b)' = PhaseOf(b)
BY Unchanged, CarriedPhase DEF Touches

\* A role that a session works on.
LEMMA PhaseOfCurrent ==
    ASSUME NEW a \in Apps, Owned(a), app[a].status \notin Terminal, app[a].status # "pending"
    PROVE  PhaseOf(a) = IF InDoubt(a) THEN "in_doubt" ELSE "working"
BY DEF PhaseOf, Terminal

LEMMA ProtocolMove ==
    ASSUME NEW a \in Apps, Touches(a), NEW from, NEW to, PhaseOf(a) = from, PhaseOf(a)' = to
    PROVE  Protocol!Move(a, from, to)
BY OtherPhases DEF Protocol!Move

\* Only a start makes attempts.
LEMMA TriesStay ==
    ASSUME HistoryAgrees, [Next]_vars,
           \A t \in Attempts : attempt[t].status = "unused" => attempt'[t].status = "unused"
    PROVE  \A a \in Apps : TriesOf(a)' = TriesOf(a)
<1>1. ASSUME NEW t \in Attempts, NEW a \in Apps
      PROVE  attempt'[t].app = a <=> attempt[t].app = a
    <2>1. CASE attempt[t].app # None
        BY <2>1, WhatStays
    <2>2. CASE attempt[t].app = None
        BY <2>2, NextHistory, ChromeQueueAssumption
        DEF HistoryAgrees, Ledgered, ChromeQueueAssumption
    <2> QED
        BY <2>1, <2>2
<1> QED
    BY <1>1 DEF TriesOf

\* Nothing but the employer's decision makes a send arrive.
LEMMA SendsStay ==
    ASSUME HistoryAgrees, [Next]_vars, employer' = employer
    PROVE  \A a \in Apps : Sends(a)' = Sends(a)
<1>1. ASSUME NEW t \in Attempts, NEW a \in Apps, employer[t] = "accepted"
      PROVE  attempt'[t].app = a <=> attempt[t].app = a
    <2>1. attempt[t].app # None
        BY <1>1 DEF HistoryAgrees, Ledgered
    <2> QED
        BY <2>1, WhatStays
<1>2. \A a \in Apps : app'[a].legacySent <=> app[a].legacySent
    BY WhatStays
<1> QED
    BY <1>1, <1>2 DEF Sends

Stutter ==
    /\ \A a \in Apps : PhaseOf(a)' = PhaseOf(a)
    /\ \A a \in Apps : TriesOf(a)' = TriesOf(a)
    /\ \A a \in Apps : Sends(a)' = Sends(a)

LEMMA StutterMaps ==
    ASSUME Stutter
    PROVE  UNCHANGED Protocol!vars
BY DEF Stutter, TriesOf, Protocol!vars

\* The tries and the arrivals as the protocol's steps leave them.
LEMMA WorldUnchanged ==
    ASSUME HistoryAgrees, [Next]_vars, employer' = employer,
           \A t \in Attempts : attempt[t].status = "unused" => attempt'[t].status = "unused"
    PROVE  /\ [a \in Apps |-> Cardinality({t \in Attempts : attempt[t].app = a})]'
                = [a \in Apps |-> Cardinality({t \in Attempts : attempt[t].app = a})]
           /\ {a \in Apps : Sends(a) # {}}' = {a \in Apps : Sends(a) # {}}
BY TriesStay, SendsStay DEF TriesOf

LEMMA CarriedMaps ==
    ASSUME HistoryAgrees, [Next]_vars, CarriesAll, employer' = employer
    PROVE  UNCHANGED Protocol!vars
<1>1. \A a \in Apps : PhaseOf(a)' = PhaseOf(a)
    BY CarriedPhase DEF CarriesAll
<1>2. \A t \in Attempts : attempt[t].status = "unused" => attempt'[t].status = "unused"
    BY DEF CarriesAll
<1> QED
    BY <1>1, <1>2, TriesStay, SendsStay, StutterMaps DEF Stutter

\* A send that arrives is that of the attempt in doubt, of a role of which
\* nothing has arrived before.
LEMMA ArrivalMaps ==
    ASSUME HistoryAgrees, [Next]_vars, NEW t \in Attempts, EmployerDecides(t)
    PROVE  [Protocol!Next]_Protocol!vars
<1>1. /\ TypeOK /\ attempt[t].status # "unused" /\ employer[t] = "undecided"
      /\ app' = app /\ attempt' = attempt
      /\ employer' \in {[employer EXCEPT ![t] = o] : o \in {"accepted", "rejected"}}
    BY DEF EmployerDecides, HistoryAgrees, SendsAreAccountedFor
<1>2. PICK a \in Apps : a = attempt[t].app
    BY <1>1 DEF HistoryAgrees, Ledgered, TypeOK, AttemptRecords
<1>3. /\ \A b \in Apps : PhaseOf(b)' = PhaseOf(b)
      /\ \A b \in Apps : TriesOf(b)' = TriesOf(b)
    BY <1>1 DEF PhaseOf, Owned, InDoubt, TriesOf
<1>4. CASE employer' = [employer EXCEPT ![t] = "rejected"]
    <2>1. \A u \in Attempts : employer'[u] = "accepted" <=> employer[u] = "accepted"
        BY <1>1, <1>4 DEF TypeOK
    <2>2. \A b \in Apps : Sends(b)' = Sends(b)
        BY <1>1, <2>1 DEF Sends
    <2> QED
        BY <1>3, <2>2, StutterMaps DEF Stutter
<1>5. CASE employer' = [employer EXCEPT ![t] = "accepted"]
    <2>1. \A u \in Attempts : employer'[u] = "accepted" <=> employer[u] = "accepted" \/ u = t
        BY <1>1, <1>5 DEF TypeOK
    <2>2. Owned(a) /\ ~app[a].hold /\ t = app[a].finalAction
        <3>1. /\ Owned(a) /\ ~app[a].hold
              /\ t \in app[a].finalActions \cup {app[a].finalAction}
            BY <1>2, ChromeQueueAssumption
            DEF HistoryAgrees, SendsAreAccountedFor, ChromeQueueAssumption
        <3>2. t \in app[a].finalActions => employer[t] = "rejected"
            BY ChromeQueueAssumption
            DEF HistoryAgrees, SendsAreAccountedFor, ChromeQueueAssumption
        <3> QED
            BY <1>1, <3>1, <3>2
    <2>3. Sends(a) = {}
        <3>1. ASSUME NEW u \in Attempts, u \in Sends(a) PROVE FALSE
            <4>1. attempt[u].app = a /\ employer[u] = "accepted"
                BY <3>1, ChromeQueueAssumption DEF Sends, ChromeQueueAssumption
            <4>2. u \in app[a].finalActions \cup {app[a].finalAction}
                BY <4>1, ChromeQueueAssumption
                DEF HistoryAgrees, SendsAreAccountedFor, ChromeQueueAssumption
            <4>3. u \notin app[a].finalActions
                BY <4>1, ChromeQueueAssumption
                DEF HistoryAgrees, SendsAreAccountedFor, ChromeQueueAssumption
            <4> QED
                BY <1>1, <2>2, <4>1, <4>2, <4>3
        <3>2. ~app[a].legacySent
            BY <2>2 DEF HistoryAgrees, SendsAreAccountedFor, Accountable, Owned
        <3> QED
            BY <3>1, <3>2 DEF Sends
    <2>4. PhaseOf(a) \in {"in_doubt", "abandoned"}
        <3>1. t # None /\ InDoubt(a)
            BY <2>2, ChromeQueueAssumption DEF InDoubt, ChromeQueueAssumption
        <3>2. app[a].status \in Submitting \cup {"submitted", "skipped"}
            BY <2>2, <3>1 DEF HistoryAgrees, SendsAreAccountedFor, Accountable, Owned
        <3>3. app[a].status # "submitted"
            <4>1. SUFFICES ASSUME app[a].status = "submitted" PROVE FALSE
                OBVIOUS
            <4>2. app[a].receipt = t /\ Accepted(a, t)
                BY <2>2, <3>1, <4>1 DEF HistoryAgrees, Recorded, RecordedAttempt
            <4> QED
                BY <1>1, <4>2, ChromeQueueAssumption DEF Accepted, ChromeQueueAssumption
        <3>4. CASE app[a].status = "skipped"
            BY <2>2, <3>1, <3>4 DEF PhaseOf
        <3>5. CASE app[a].status \in Submitting
            BY <2>2, <3>1, <3>5, PhaseOfCurrent DEF Submitting, Terminal
        <3> QED
            BY <3>2, <3>3, <3>4, <3>5
    <2>5. \A b \in Apps : Sends(b)' = IF b = a THEN Sends(b) \cup {t} ELSE Sends(b)
        BY <1>1, <1>2, <2>1 DEF Sends
    <2>6. Protocol!Arrive(a)
        BY <1>3, <2>3, <2>4, <2>5 DEF Protocol!Arrive, TriesOf
    <2> QED
        BY <2>6 DEF Protocol!Next
<1> QED
    BY <1>1, <1>4, <1>5


\* Steps that only move one role: the attempts used and the sends that arrived
\* stay, so the protocol's other variables do.
LEMMA MoveMaps ==
    ASSUME HistoryAgrees, [Next]_vars, NEW a \in Apps, Touches(a),
           \A t \in Attempts : attempt[t].status = "unused" => attempt'[t].status = "unused",
           NEW from, NEW to, PhaseOf(a) = from, PhaseOf(a)' = to,
           \/ from = "working" /\ to \in {"owner_sent", "dropped"}
           \/ from = "in_doubt" /\ to = "abandoned"
           \/ from = "in_doubt" /\ to = "working" /\ Sends(a) = {}
           \/ from = "in_doubt" /\ to = "confirmed" /\ Sends(a) # {}
    PROVE  Protocol!Next
<1>1. Protocol!Move(a, from, to)
    BY ProtocolMove
<1>2. employer' = employer
    BY DEF Touches
<1>3. Protocol!OwnerSends(a) \/ Protocol!GiveUp(a) \/ Protocol!Reopen(a) \/ Protocol!Confirm(a)
    BY <1>1, <1>2, WorldUnchanged
    DEF Protocol!OwnerSends, Protocol!GiveUp, Protocol!Reopen, Protocol!Confirm
<1> QED
    BY <1>3 DEF Protocol!Next

\* A claim takes a role when no other is current: in doubt, if it is held for
\* what a retired worker may have sent.
LEMMA ClaimMaps ==
    ASSUME HistoryAgrees, [Next]_vars, NEW a \in Apps, NEW s \in Sessions, Claim(a, s)
    PROVE  Protocol!Next
<1>1. /\ TypeOK /\ Accountable(app[a])
    BY DEF HistoryAgrees, SendsAreAccountedFor
<1>2. /\ Touches(a) /\ Keeps(a) /\ attempt' = attempt /\ employer' = employer
      /\ Owned(a) /\ app[a].status = "pending" /\ \A b \in Apps : ~Active(b)
      /\ app'[a].status = IF app[a].hold THEN "submission_unverified" ELSE "in_progress"
    BY <1>1, ClaimEffect DEF FirstPending, Touches
<1>3. app[a].finalAction = None
    BY <1>1, <1>2 DEF Accountable, Owned, Untouched
<1>4. PhaseOf(a) = "waiting"
    BY <1>2 DEF PhaseOf
<1>5. PhaseOf(a)' = IF app[a].hold THEN "in_doubt" ELSE "working"
    BY <1>2, <1>3 DEF PhaseOf, Keeps, Owned, InDoubt
<1>6. Sends(a) # {} => app[a].hold
    <2>1. app[a].legacySent => app[a].hold
        BY <1>1, <1>2 DEF Accountable, Owned
    <2>2. ASSUME NEW u \in Attempts PROVE ~(attempt[u].app = a /\ employer[u] = "accepted")
        <3>1. SUFFICES ASSUME attempt[u].app = a, employer[u] = "accepted" PROVE FALSE
            OBVIOUS
        <3>2. u \in app[a].finalActions
            BY <1>3, <3>1, ChromeQueueAssumption
            DEF HistoryAgrees, SendsAreAccountedFor, ChromeQueueAssumption
        <3> QED
            BY <3>1, <3>2, ChromeQueueAssumption
            DEF HistoryAgrees, SendsAreAccountedFor, ChromeQueueAssumption
    <2> QED
        BY <2>1, <2>2 DEF Sends
<1>7. \A b \in Apps : PhaseOf(b) \notin {"working", "in_doubt"}
    BY <1>2 DEF PhaseOf, Active, Terminal, HistoryAgrees, Recorded, OwnStatuses, Workable,
       Submitting
<1>8. \E to \in {"working", "in_doubt"} :
          Protocol!Move(a, "waiting", to) /\ (Sends(a) # {} => to = "in_doubt")
    BY <1>2, <1>4, <1>5, <1>6, ProtocolMove
<1>9. Protocol!Take(a)
    BY <1>2, <1>7, <1>8, WorldUnchanged DEF Protocol!Take, Protocol!Current
<1> QED
    BY <1>9 DEF Protocol!Next

\* A start presses once more; at most RetryLimit presses are archived.
LEMMA StartMaps ==
    ASSUME HistoryAgrees, [Next]_vars, NEW c \in Callers, CommitStart(c)
    PROVE  Protocol!Next
<1>1. TypeOK
    BY DEF HistoryAgrees, SendsAreAccountedFor
<1>2. PICK a \in Apps : a = request[c].app
    BY <1>1, StartEffect
<1>3. PICK t \in Attempts :
          /\ attempt[t].status = "unused"
          /\ app'[a].finalAction = t
          /\ attempt' = [attempt EXCEPT ![t] =
                [app |-> a, by |-> request[c].session, day |-> day, status |-> "submitting"]]
    BY <1>1, <1>2, StartEffect
<1>4. /\ Touches(a) /\ Owned(a) /\ employer' = employer
      /\ app[a].status = "in_progress" /\ app'[a].status = "submission_started"
      /\ app[a].finalAction = None /\ app'[a].mode = app[a].mode
    BY <1>1, <1>2, StartEffect DEF Holds, Touches
<1>5. Accountable(app[a]) /\ Recorded(a) /\ attempt[t].app = None
    BY <1>3 DEF HistoryAgrees, SendsAreAccountedFor, Ledgered
<1>6. PhaseOf(a) = "working"
    BY <1>4, <1>5 DEF PhaseOf, Accountable, Owned, InDoubt
<1>7. PhaseOf(a)' = "in_doubt"
    BY <1>3, <1>4, ChromeQueueAssumption DEF PhaseOf, Owned, InDoubt, ChromeQueueAssumption
<1> DEFINE mine(b) == {u \in Attempts : attempt[u].app = b}
<1>8. mine(a) \subseteq app[a].finalActions
    BY <1>4, ChromeQueueAssumption
    DEF HistoryAgrees, SendsAreAccountedFor, ChromeQueueAssumption
<1>9. IsFiniteSet(mine(a)) /\ Cardinality(mine(a)) \in Nat /\ Cardinality(mine(a)) <= RetryLimit
    <2>1. IsFiniteSet(app[a].finalActions) /\ Cardinality(app[a].finalActions) <= RetryLimit
        BY <1>5 DEF Recorded
    <2>2. IsFiniteSet(mine(a)) /\ Cardinality(mine(a)) <= Cardinality(app[a].finalActions)
        BY <1>8, <2>1, FS_Subset
    <2>3. Cardinality(mine(a)) \in Nat /\ Cardinality(app[a].finalActions) \in Nat
        BY <2>1, <2>2, FS_CardinalityType
    <2> QED
        BY <2>1, <2>2, <2>3 DEF RetryLimit
<1>10. \A b \in Apps : mine(b)' = IF b = a THEN mine(b) \cup {t} ELSE mine(b)
    BY <1>1, <1>3, <1>5, ChromeQueueAssumption DEF TypeOK, ChromeQueueAssumption
<1>11. Cardinality(mine(a) \cup {t}) = Cardinality(mine(a)) + 1
    <2>1. t \notin mine(a)
        BY <1>5, ChromeQueueAssumption DEF ChromeQueueAssumption
    <2> QED
        BY <1>9, <2>1, FS_AddElement
<1> DEFINE tried == [b \in Apps |-> Cardinality(mine(b))]
<1>12. tried' = [tried EXCEPT ![a] = @ + 1] /\ tried[a] < RetryLimit + 1
    <2>1. \A b \in Apps : Cardinality(mine(b))' = IF b = a THEN Cardinality(mine(b)) + 1
                                                          ELSE Cardinality(mine(b))
        BY <1>10, <1>11
    <2>2. tried[a] < RetryLimit + 1
        BY <1>9 DEF RetryLimit
    <2> HIDE DEF mine
    <2> QED
        BY <2>1, <2>2
<1>13. Protocol!Move(a, "working", "in_doubt")
    BY <1>4, <1>6, <1>7, ProtocolMove
<1>14. {b \in Apps : Sends(b) # {}}' = {b \in Apps : Sends(b) # {}}
    BY <1>4, SendsStay
<1>15. Protocol!Press(a)
    BY <1>12, <1>13, <1>14 DEF Protocol!Press
<1> QED
    BY <1>15 DEF Protocol!Next

LEMMA ReceiptMaps ==
    ASSUME HistoryAgrees, [Next]_vars, NEW c \in Callers, CommitReceipt(c)
    PROVE  Protocol!Next
<1>1. TypeOK /\ SendsAreAccountedFor /\ Informed(c) /\ request[c].op = "receipt"
    BY DEF HistoryAgrees, SendsAreAccountedFor, CommitReceipt
<1>2. PICK a \in Apps, t \in AttemptIds : a = request[c].app /\ t = request[c].attempt
    BY <1>1, RequestTyped
<1>3. t # None /\ Accepted(a, t)
    BY <1>1, <1>2 DEF Informed
<1>4. /\ Touches(a) /\ Owned(a) /\ app[a].status \notin Terminal /\ app[a].status # "pending"
      /\ t = RecordedAttempt(a)
      /\ app'[a].status = "submitted" /\ app'[a].mode = app[a].mode
      /\ attempt' = [u \in Attempts |->
            IF u = t THEN [attempt[u] EXCEPT !.status = "submitted"] ELSE attempt[u]]
    BY <1>1, <1>2, ReceiptEffect, HeldRequest DEF Holds
<1>5. PhaseOf(a) = "in_doubt"
    <2>1. InDoubt(a)
        BY <1>3, <1>4 DEF InDoubt, RecordedAttempt
    <2> QED
        BY <1>4, <2>1, PhaseOfCurrent
<1>6. PhaseOf(a)' = "confirmed"
    BY <1>4 DEF PhaseOf, Owned
<1>7. t \in Attempts => attempt[t].app = a
    <2>1. Recorded(a) /\ (t \in Attempts => t = app[a].finalAction)
        BY <1>3, <1>4, ChromeQueueAssumption
        DEF RecordedAttempt, HistoryAgrees, ChromeQueueAssumption
    <2> QED
        BY <1>3, <2>1 DEF Recorded
<1>8. Sends(a) # {}
    BY <1>3, <1>7 DEF Accepted, Sends
<1>9. \A u \in Attempts : attempt[u].status = "unused" => attempt'[u].status = "unused"
    BY <1>4, <1>7, ChromeQueueAssumption DEF HistoryAgrees, Ledgered, ChromeQueueAssumption
<1> QED
    BY <1>4, <1>5, <1>6, <1>8, <1>9, MoveMaps

LEMMA OwnerReceiptMaps ==
    ASSUME HistoryAgrees, [Next]_vars, NEW c \in Callers, CommitOwnerReceipt(c)
    PROVE  Protocol!Next
<1>1. TypeOK
    BY DEF HistoryAgrees, SendsAreAccountedFor
<1>2. PICK a \in Apps : a = request[c].app
    BY <1>1, OwnerReceiptEffect
<1>3. /\ Touches(a) /\ Keeps(a) /\ attempt' = attempt /\ Owned(a) /\ ~InDoubt(a)
      /\ app[a].status \in Workable /\ app'[a].status = "owner_reported_submitted"
    BY <1>1, <1>2, OwnerReceiptEffect DEF Holds
<1>4. PhaseOf(a) = "working"
    BY <1>3, PhaseOfCurrent DEF Workable, Terminal
<1>5. PhaseOf(a)' = "owner_sent"
    BY <1>3 DEF PhaseOf, Keeps, Owned
<1> QED
    BY <1>3, <1>4, <1>5, MoveMaps

LEMMA SkipMaps ==
    ASSUME HistoryAgrees, [Next]_vars, NEW a \in Apps, NEW s \in Sessions, NEW stopped,
           Skip(a, s, stopped)
    PROVE  Protocol!Next
<1>1. TypeOK /\ SendsAreAccountedFor
    BY DEF HistoryAgrees, SendsAreAccountedFor
<1>2. /\ Touches(a) /\ Keeps(a) /\ attempt' = attempt
      /\ Owned(a) /\ app[a].status \notin Terminal /\ app[a].status # "pending"
      /\ app'[a].status = "skipped"
    BY <1>1, SkipEffect, HeldIsActive DEF Holds
<1>3. PhaseOf(a) = IF InDoubt(a) THEN "in_doubt" ELSE "working"
    BY <1>2, PhaseOfCurrent
<1>4. PhaseOf(a)' = IF InDoubt(a) THEN "abandoned" ELSE "dropped"
    BY <1>2 DEF PhaseOf, Keeps, Owned, InDoubt
<1> QED
    BY <1>2, <1>3, <1>4, MoveMaps

\* An attempt is archived only when nothing of its role has arrived.
LEMMA RejectMaps ==
    ASSUME HistoryAgrees, [Next]_vars, NEW a \in Apps, NEW t,
           NEW outcome \in {"not_submitted", "validation_rejected"}, Rejects(a, t, outcome)
    PROVE  Protocol!Next
<1>1. /\ TypeOK /\ Accountable(app[a]) /\ Owned(a) /\ ~app[a].hold
      /\ app[a].status \in Submitting
    BY DEF HistoryAgrees, SendsAreAccountedFor, Rejects, Active
<1>2. /\ t \in Attempts /\ t = app[a].finalAction /\ attempt[t].app = a
      /\ employer[t] = "rejected"
    BY RejectsAnAttempt
<1>3. /\ Touches(a)
      /\ app'[a].status = "in_progress" /\ app'[a].finalAction = None
      /\ app'[a].mode = app[a].mode /\ app'[a].hold = app[a].hold
      /\ attempt' = [u \in Attempts |->
            IF u = t THEN [attempt[u] EXCEPT !.status = outcome] ELSE attempt[u]]
    BY <1>1, ArchiveEffect DEF Rejects
<1>4. PhaseOf(a) = "in_doubt"
    <2>1. InDoubt(a)
        BY <1>2, ChromeQueueAssumption DEF InDoubt, ChromeQueueAssumption
    <2> QED
        BY <1>1, <2>1, PhaseOfCurrent DEF Submitting, Terminal
<1>5. PhaseOf(a)' = "working"
    BY <1>1, <1>3 DEF PhaseOf, Owned, InDoubt
<1>6. Sends(a) = {}
    <2>1. ASSUME NEW u \in Attempts, attempt[u].app = a PROVE employer[u] # "accepted"
        <3>1. u \in app[a].finalActions \cup {t}
            BY <1>2, <2>1, ChromeQueueAssumption
            DEF HistoryAgrees, SendsAreAccountedFor, ChromeQueueAssumption
        <3> QED
            BY <1>2, <3>1, ChromeQueueAssumption
            DEF HistoryAgrees, SendsAreAccountedFor, ChromeQueueAssumption
    <2>2. ~app[a].legacySent
        BY <1>1 DEF Accountable, Owned
    <2> QED
        BY <2>1, <2>2 DEF Sends
<1>7. \A u \in Attempts : attempt[u].status = "unused" => attempt'[u].status = "unused"
    BY <1>2, <1>3, ChromeQueueAssumption DEF HistoryAgrees, Ledgered, ChromeQueueAssumption
<1> QED
    BY <1>3, <1>4, <1>5, <1>6, <1>7, MoveMaps

\* A role that joins the queue waits, as it did before.
LEMMA AddMaps ==
    ASSUME HistoryAgrees, [Next]_vars, NEW c \in Callers, CommitAdd(c)
    PROVE  UNCHANGED Protocol!vars
<1>1. TypeOK
    BY DEF HistoryAgrees, SendsAreAccountedFor
<1>2. PICK a \in Apps : a = request[c].app
    BY <1>1, AddEffect
<1>3. /\ Touches(a) /\ attempt' = attempt /\ employer' = employer /\ ~Owned(a)
      /\ app'[a].status = "pending"
    BY <1>1, <1>2, AddEffect DEF Touches
<1>4. PhaseOf(a) = "waiting" /\ PhaseOf(a)' = "waiting"
    BY <1>3 DEF PhaseOf
<1>5. \A b \in Apps : PhaseOf(b)' = PhaseOf(b)
    BY <1>3, <1>4, OtherPhases
<1> QED
    BY <1>3, <1>5, TriesStay, SendsStay, StutterMaps DEF Stutter

LEMMA InitMaps == Init => Protocol!Init
<1> SUFFICES ASSUME Init PROVE Protocol!Init
    OBVIOUS
<1>1. \A a \in Apps : ~Owned(a)
    BY InitRecord
<1>2. \A a \in Apps : PhaseOf(a) = "waiting"
    BY <1>1 DEF PhaseOf
<1>3. \A a \in Apps : {t \in Attempts : attempt[t].app = a} = {}
    BY ChromeQueueAssumption DEF Init, Unused, ChromeQueueAssumption
<1> QED
    BY <1>2, <1>3, FS_EmptySet DEF Protocol!Init

LEMMA NextMaps == HistoryAgrees /\ [Next]_vars => [Protocol!Next]_Protocol!vars
<1> SUFFICES ASSUME HistoryAgrees, [Next]_vars PROVE [Protocol!Next]_Protocol!vars
    OBVIOUS
<1>1. CASE \E t \in Attempts : EmployerDecides(t)
    BY <1>1, ArrivalMaps
<1>2. CASE employer' = employer
    BY <1>2, StepKinds, CarriedMaps, AddMaps, StartMaps, ReceiptMaps, OwnerReceiptMaps,
       ClaimMaps, SkipMaps, RejectMaps
    DEF HistoryAgrees
<1> QED
    BY <1>1, <1>2, OnlyTheEmployerDecides

\* The queue, with all its interleaved calls, crashes and takeovers, implements
\* the protocol of one submission at a time (chrome-queue.js as a whole).
THEOREM QueueImplementsProtocol == Spec => ImplementsProtocol
<1>1. Init => Protocol!Init
    BY InitMaps
<1>2. HistoryAgrees /\ [Next]_vars => [Protocol!Next]_Protocol!vars
    BY NextMaps
<1> QED
    BY <1>1, <1>2, HistoryKept, PTL DEF Spec, ImplementsProtocol, Protocol!Spec
=============================================================================
