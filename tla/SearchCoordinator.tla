------------------------- MODULE SearchCoordinator -------------------------
(***************************************************************************)
(* Search and preparation leases of one applicant                          *)
(* (src/src/discovery/search-coordinator.js).  A main chat session starts  *)
(* a search; its workers lease ranked sources, report progress, scan and   *)
(* append the roles they find to the pending end of the application queue, *)
(* and prepare drafts for pending roles.  Searching is allowed only while  *)
(* the queue is being refilled: from LowWatermark up to HighWatermark.     *)
(*                                                                         *)
(* Every operation is one store transaction, except that scan and enqueue  *)
(* check a snapshot, wait for the source, and check again, and that        *)
(* preparation reads the applicant's facts before its transaction.  The    *)
(* other side of the queue is here only as far as it changes what is       *)
(* pending: the owner adds roles and the main session takes the first.     *)
(***************************************************************************)
EXTENDS Integers, Sequences

CONSTANTS
    Sources,        \* sources of the search plan
    Rank,           \* their order in the plan
    Workers,        \* search-1, search-2
    Mains,          \* (main chat session, actor) pairs
    Roles,          \* roles that can be found or added
    Callers,        \* calls under way at once
    Profiles,       \* contents of the applicant's facts
    Ops,            \* the calls with an await that are made
    Pages,          \* what progress calls report
    Outcomes,       \* how a worker finishes with a source
    LowWatermark,   \* 20
    HighWatermark,  \* 30
    MaxLeases,      \* bounds the leases ever given
    MaxDay,         \* bounds the calendar
    None

ASSUME SearchCoordinatorAssumption ==
    /\ Rank \in [Sources -> Nat]
    /\ \A s, t \in Sources : Rank[s] = Rank[t] => s = t
    /\ LowWatermark \in Nat /\ HighWatermark \in Nat
    /\ LowWatermark < HighWatermark
    /\ MaxLeases \in Nat /\ MaxDay \in Nat
    /\ Ops \subseteq {"scan", "enqueue", "prepareClaim", "prepareSave"}
    /\ Pages \subseteq {"heartbeat", "poor", "good"}
    /\ Outcomes \subseteq {"low_quality", "pass_complete", "blocked", "paused"}
    /\ Sources \cap Roles = {}
    /\ None \notin Workers \cup Mains \cup Roles \cup Profiles

VARIABLES
    today,      \* day in Europe/Sofia
    profile,    \* the applicant's current facts
    session,    \* the applicant's search session
    source,     \* the sources of its plan
    pending,    \* pending roles in queue order
    role,       \* whether a role has an application, its draft and preparation lease
    request,    \* calls that have read something and wait
    granted,    \* every lease given, in order: an id is a place in it
    delivered   \* lease under which a scan's results were last handed to a worker

vars == <<today, profile, session, source, pending, role, request, granted, delivered>>

----------------------------------------------------------------------------
(* Records *)

LeaseIds == 0 .. MaxLeases      \* 0 is no lease
Leases == [id : LeaseIds, worker : Workers \cup {None}, day : 0 .. MaxDay, live : BOOLEAN]
NoLease == [id |-> 0, worker |-> None, day |-> 0, live |-> FALSE]

\* cursor, reason: the lease under which they were written, 0 for none.
\* poor: poor pages in a row; only "two or more" matters.
SourceRecords ==
    [status : {"ready", "low_quality", "pass_complete", "blocked"},
     cursor : LeaseIds, reason : LeaseIds, poor : 0 .. 2, lease : Leases]
Ready == [status |-> "ready", cursor |-> 0, reason |-> 0, poor |-> 0, lease |-> NoLease]

Sessions == [main : Mains \cup {None}, active : BOOLEAN, day : 0 .. MaxDay, refilling : BOOLEAN]

\* draft: the facts a draft was written from.
RoleRecords ==
    [known : BOOLEAN, draft : Profiles \cup {None},
     prep : LeaseIds, prepLive : BOOLEAN]
Unknown == [known |-> FALSE, draft |-> None, prep |-> 0, prepLive |-> FALSE]

Grants == [of : Sources \cup Roles, worker : Workers, main : Mains, day : 0 .. MaxDay]

NoRequest == [op |-> "none", main |-> None, worker |-> None, lease |-> 0,
              role |-> None, facts |-> None]
Requests ==
    [op : {"none", "scan", "enqueue", "prepareClaim", "prepareSave"},
     main : Mains \cup {None}, worker : Workers \cup {None}, lease : LeaseIds,
     role : Roles \cup {None}, facts : Profiles \cup {None}]

----------------------------------------------------------------------------
(* What every call sees *)

\* Defect: midnight takes the leases away.
RefreshedAtMidnight(s) ==
    IF session.day # today THEN Ready
    ELSE IF source[s].lease.live THEN source[s] ELSE [source[s] EXCEPT !.lease = NoLease]

\* #refresh: a new day reopens every source and keeps the leases that live; a
\* lease that has expired is gone.
Refreshed(s) ==
    LET renewed == IF session.day = today THEN source[s]
                   ELSE [source[s] EXCEPT !.status = "ready", !.cursor = 0, !.reason = 0, !.poor = 0]
    IN  IF renewed.lease.live THEN renewed ELSE [renewed EXCEPT !.lease = NoLease]

\* #buffer: the refill flag with n roles pending.
Buffered(n, refilling) == n < HighWatermark /\ (n <= LowWatermark \/ refilling)

\* #session: the main session owns the active search.
Owns(m) == session.active /\ session.main = m

SessionWith(n) == [session EXCEPT !.day = today, !.refilling = Buffered(n, @)]

\* #searchAllowed
SearchAllowed == Buffered(Len(pending), session.refilling)

\* #lease: worker w still holds lease l of source s.
HoldsLease(s, w, l) ==
    l # 0 /\ source[s].lease.live /\ source[s].lease.id = l /\ source[s].lease.worker = w

\* What a transaction of the active session leaves behind, n roles being pending
\* and the sources named in changed having a new record.
Leave(n, changed) ==
    /\ session' = SessionWith(n)
    /\ source' = [s \in Sources |-> IF s \in DOMAIN changed THEN changed[s] ELSE Refreshed(s)]

NothingChanged == [s \in {} |-> Ready]
Only(s, r) == [x \in {s} |-> r]

NewLease == Len(granted) + 1
Grant(of, w, m) ==
    /\ NewLease <= MaxLeases
    /\ granted' = Append(granted, [of |-> of, worker |-> w, main |-> m, day |-> today])

InQueue(r) == \E i \in 1 .. Len(pending) : pending[i] = r

----------------------------------------------------------------------------

Init ==
    /\ today = 0
    /\ profile \in Profiles
    /\ session = [main |-> None, active |-> FALSE, day |-> 0, refilling |-> FALSE]
    /\ source = [s \in Sources |-> Ready]
    /\ pending = <<>>
    /\ role = [r \in Roles |-> Unknown]
    /\ request = [c \in Callers |-> NoRequest]
    /\ granted = <<>>
    /\ delivered = 0

(* The world outside *)

Midnight ==
    /\ today < MaxDay
    /\ today' = today + 1
    /\ UNCHANGED <<profile, session, source, pending, role, request, granted, delivered>>

EditFacts ==
    /\ profile' \in Profiles \ {profile}
    /\ UNCHANGED <<today, session, source, pending, role, request, granted, delivered>>

\* Twenty minutes pass without a renewal.
LeaseExpires(s) ==
    /\ source[s].lease.live
    /\ source' = [source EXCEPT ![s].lease.live = FALSE]
    /\ UNCHANGED <<today, profile, session, pending, role, request, granted, delivered>>

PreparationExpires(r) ==
    /\ role[r].prepLive
    /\ role' = [role EXCEPT ![r].prepLive = FALSE]
    /\ UNCHANGED <<today, profile, session, source, pending, request, granted, delivered>>

\* The owner, or the main session on the owner's word, adds a role to the queue.
OwnerAdds(r) ==
    /\ ~role[r].known
    /\ role' = [role EXCEPT ![r].known = TRUE]
    /\ pending' = Append(pending, r)
    /\ UNCHANGED <<today, profile, session, source, request, granted, delivered>>

\* The main session claims the first pending role.
MainTakes ==
    /\ pending # <<>>
    /\ pending' = Tail(pending)
    /\ UNCHANGED <<today, profile, session, source, role, request, granted, delivered>>

----------------------------------------------------------------------------
(* Calls that are one transaction *)

\* start(): a stopped search may be taken over by any main session.
Start(m) ==
    /\ ~session.active
    /\ session' = [main |-> m, active |-> TRUE, day |-> today,
                   refilling |-> Buffered(Len(pending), FALSE)]
    /\ source' = [s \in Sources |-> Ready]
    /\ UNCHANGED <<today, profile, pending, role, request, granted, delivered>>

\* control(), a repeated start(), and a claim() that finds no source or the
\* lease its worker already has.
Look(m) ==
    /\ Owns(m)
    /\ Leave(Len(pending), NothingChanged)
    /\ UNCHANGED <<today, profile, pending, role, request, granted, delivered>>

Available(s) == Refreshed(s).lease = NoLease /\ Refreshed(s).status = "ready"

\* Defect: a worker that has a lease is given another.
ClaimAnother(m, w, s) ==
    /\ Owns(m)
    /\ SearchAllowed
    /\ Available(s)
    /\ \A t \in Sources : Available(t) => Rank[s] <= Rank[t]
    /\ Grant(s, w, m)
    /\ Leave(Len(pending), Only(s, [Refreshed(s) EXCEPT !.lease =
          [id |-> NewLease, worker |-> w, day |-> today, live |-> TRUE]]))
    /\ UNCHANGED <<today, profile, pending, role, request, delivered>>

\* claim(): the highest-ranked source that is ready and free.
Claim(m, w, s) ==
    /\ Owns(m)
    /\ SearchAllowed
    /\ \A t \in Sources : Refreshed(t).lease.worker # w
    /\ Available(s)
    /\ \A t \in Sources : Available(t) => Rank[s] <= Rank[t]
    /\ Grant(s, w, m)
    /\ Leave(Len(pending), Only(s, [Refreshed(s) EXCEPT !.lease =
          [id |-> NewLease, worker |-> w, day |-> today, live |-> TRUE]]))
    /\ UNCHANGED <<today, profile, pending, role, request, delivered>>

\* Defect: a worker of yesterday overwrites today's cursor.
ProgressOfAnyDay(m, w, s, page, saved) ==
    /\ Owns(m)
    /\ HoldsLease(s, w, source[s].lease.id)
    /\ Leave(Len(pending), Only(s, [Refreshed(s) EXCEPT
          !.poor   = CASE page = "poor" -> IF @ = 2 THEN 2 ELSE @ + 1
                       [] page = "good" -> 0
                       [] OTHER -> @,
          !.cursor = IF saved THEN source[s].lease.id ELSE @]))
    /\ UNCHANGED <<today, profile, pending, role, request, granted, delivered>>

\* progress(): renews the lease; only a lease of this day reports a page and
\* saves a cursor.
Progress(m, w, s, page, saved) ==
    /\ Owns(m)
    /\ HoldsLease(s, w, source[s].lease.id)
    /\ Leave(Len(pending), Only(s,
          IF source[s].lease.day = today
          THEN [Refreshed(s) EXCEPT
                   !.poor   = CASE page = "poor" -> IF @ = 2 THEN 2 ELSE @ + 1
                                [] page = "good" -> 0
                                [] OTHER -> @,
                   !.cursor = IF saved THEN source[s].lease.id ELSE @]
          ELSE Refreshed(s)))
    /\ UNCHANGED <<today, profile, pending, role, request, granted, delivered>>

\* finish(): releases the lease; only a lease of this day ends the day's pass.
Finish(m, w, s, outcome) ==
    /\ Owns(m)
    /\ HoldsLease(s, w, source[s].lease.id)
    /\ outcome = "low_quality" /\ source[s].lease.day = today => Refreshed(s).poor = 2
    /\ Leave(Len(pending), Only(s, [Refreshed(s) EXCEPT
          !.lease = NoLease,
          !.reason = IF source[s].lease.day = today THEN source[s].lease.id ELSE @,
          !.status = IF source[s].lease.day # today THEN @
                     ELSE IF outcome = "paused" THEN "ready" ELSE outcome]))
    /\ UNCHANGED <<today, profile, pending, role, request, granted, delivered>>

\* Defect: preparation leases outlive the search.
StopSearchOnly(m) ==
    /\ Owns(m)
    /\ session' = [SessionWith(Len(pending)) EXCEPT !.active = FALSE]
    /\ source' = [s \in Sources |-> [Refreshed(s) EXCEPT !.lease = NoLease]]
    /\ UNCHANGED <<today, profile, pending, role, request, granted, delivered>>

\* stop(): every lease ends, of sources and of pending roles.
Stop(m) ==
    /\ Owns(m)
    /\ session' = [SessionWith(Len(pending)) EXCEPT !.active = FALSE]
    /\ source' = [s \in Sources |-> [Refreshed(s) EXCEPT !.lease = NoLease]]
    /\ role' = [r \in Roles |->
          IF InQueue(r) THEN [role[r] EXCEPT !.prep = 0, !.prepLive = FALSE] ELSE role[r]]
    /\ UNCHANGED <<today, profile, pending, request, granted, delivered>>

----------------------------------------------------------------------------
(* Calls that read first and commit later *)

Begin(c, r) ==
    /\ r.op \in Ops
    /\ request[c] = NoRequest
    /\ request' = [request EXCEPT ![c] = r]
    /\ UNCHANGED <<today, profile, session, source, pending, role, granted, delivered>>

End(c) == request' = [request EXCEPT ![c] = NoRequest]

\* A call ends without effect: it is refused, its source fails, or the process
\* stops.
Refuse(c) ==
    /\ request[c] # NoRequest
    /\ End(c)
    /\ UNCHANGED <<today, profile, session, source, pending, role, granted, delivered>>

\* The common first look of scan and enqueue, on a snapshot.
MaySearch(m, w, s, l) == Owns(m) /\ HoldsLease(s, w, l) /\ SearchAllowed

BeginScan(c, m, w, s) ==
    /\ MaySearch(m, w, s, source[s].lease.id)
    /\ Begin(c, [NoRequest EXCEPT !.op = "scan", !.main = m, !.worker = w,
                                  !.lease = source[s].lease.id])

\* Defect: the lease is not looked at again after the scan.
EndScanWithoutRecheck(c) ==
    LET q == request[c]
    IN  /\ q.op = "scan"
        /\ Owns(q.main)
        /\ SearchAllowed
        /\ delivered' = q.lease
        /\ End(c)
        /\ UNCHANGED <<today, profile, session, source, pending, role, granted>>

\* scan(): the result is handed over only after a second look.
EndScan(c) ==
    LET q == request[c]
    IN  /\ q.op = "scan"
        /\ MaySearch(q.main, q.worker, granted[q.lease].of, q.lease)
        /\ delivered' = q.lease
        /\ End(c)
        /\ UNCHANGED <<today, profile, session, source, pending, role, granted>>

BeginEnqueue(c, m, w, s, r) ==
    /\ MaySearch(m, w, s, source[s].lease.id)
    /\ Begin(c, [NoRequest EXCEPT !.op = "enqueue", !.main = m, !.worker = w,
                                  !.lease = source[s].lease.id, !.role = r])

\* enqueue() reads the facts its draft must have been written from; the employer's
\* posting is considered after that.
ReadFacts(c) ==
    /\ request[c].op = "enqueue"
    /\ request[c].facts = None
    /\ request' = [request EXCEPT ![c].facts = profile]
    /\ UNCHANGED <<today, profile, session, source, pending, role, granted, delivered>>

\* Defect: the queue is appended to on the strength of the first look.
EnqueueWithoutAuthorize(c) ==
    LET q == request[c]
    IN  /\ q.op = "enqueue"
        /\ q.facts # None
        /\ ~role[q.role].known
        /\ role' = [role EXCEPT ![q.role] =
              [known |-> TRUE, draft |-> q.facts, prep |-> 0, prepLive |-> FALSE]]
        /\ pending' = Append(pending, q.role)
        /\ Leave(Len(pending) + 1, NothingChanged)
        /\ End(c)
        /\ UNCHANGED <<today, profile, granted, delivered>>

\* The transaction of enqueue(): authorize, the queue's add, the draft, and the
\* buffer of the longer queue.  A role that is known already stays as it is.
CommitEnqueue(c) ==
    LET q == request[c]
    IN  /\ q.op = "enqueue"
        /\ q.facts # None
        /\ MaySearch(q.main, q.worker, granted[q.lease].of, q.lease)
        /\ IF role[q.role].known
           THEN Leave(Len(pending), NothingChanged) /\ UNCHANGED <<pending, role>>
           ELSE /\ role' = [role EXCEPT ![q.role] =
                      [known |-> TRUE, draft |-> q.facts, prep |-> 0, prepLive |-> FALSE]]
                /\ pending' = Append(pending, q.role)
                /\ session' = [session EXCEPT !.day = today,
                                  !.refilling = Buffered(Len(pending) + 1, TRUE)]
                /\ source' = [s \in Sources |-> Refreshed(s)]
        /\ End(c)
        /\ UNCHANGED <<today, profile, granted, delivered>>

BeginPrepareClaim(c, m, w) ==
    Begin(c, [NoRequest EXCEPT !.op = "prepareClaim", !.main = m, !.worker = w, !.facts = profile])

\* Role r has a live preparation lease, of worker w of main session m.
Prepares(r, w, m) ==
    role[r].prepLive /\ granted[role[r].prep].worker = w /\ granted[role[r].prep].main = m

\* A pending role that nobody prepares and that has no draft of these facts.
NeedsDraft(r, facts) == ~role[r].prepLive /\ role[r].draft # facts

\* Expired preparation leases of pending roles are dropped.
WithoutExpired(r) ==
    IF InQueue(r) /\ ~role[r].prepLive THEN [role[r] EXCEPT !.prep = 0] ELSE role[r]

\* prepareClaim(): nothing once the queue is full enough; else the role the worker
\* already prepares, or the oldest one that needs a draft, if there is one.
CommitPrepareClaim(c) ==
    LET q == request[c]
        kept == [r \in Roles |-> WithoutExpired(r)]
        own == \E i \in 1 .. Len(pending) : Prepares(pending[i], q.worker, q.main)
        wanted == {i \in 1 .. Len(pending) : NeedsDraft(pending[i], q.facts)}
    IN  /\ q.op = "prepareClaim"
        /\ Owns(q.main)
        /\ Leave(Len(pending), NothingChanged)
        /\ \/ /\ ~SearchAllowed
              /\ UNCHANGED <<role, granted>>
           \/ /\ SearchAllowed
              /\ own \/ wanted = {}
              /\ role' = kept
              /\ UNCHANGED granted
           \/ /\ SearchAllowed
              /\ ~own
              /\ \E i \in wanted :
                    /\ \A j \in wanted : i <= j
                    /\ Grant(pending[i], q.worker, q.main)
                    /\ role' = [kept EXCEPT ![pending[i]].prep = NewLease,
                                            ![pending[i]].prepLive = TRUE]
        /\ End(c)
        /\ UNCHANGED <<today, profile, pending, delivered>>

\* The worker saves under a lease it was once given.
BeginPrepareSave(c, l) ==
    /\ granted[l].of \in Roles
    /\ Begin(c, [op |-> "prepareSave", main |-> granted[l].main, worker |-> granted[l].worker,
                 lease |-> l, role |-> granted[l].of, facts |-> profile])

\* Defect: the role may have been taken by the main session.
SaveTakenRole(c) ==
    LET q == request[c]
    IN  /\ q.op = "prepareSave"
        /\ Owns(q.main)
        /\ role[q.role].prep = q.lease
        /\ role[q.role].prepLive
        /\ Leave(Len(pending), NothingChanged)
        /\ role' = [role EXCEPT ![q.role] =
              [@ EXCEPT !.draft = q.facts, !.prep = 0, !.prepLive = FALSE]]
        /\ End(c)
        /\ UNCHANGED <<today, profile, pending, granted, delivered>>

\* prepareSave(): only a pending role, only under its lease.
CommitPrepareSave(c) ==
    LET q == request[c]
    IN  /\ q.op = "prepareSave"
        /\ Owns(q.main)
        /\ InQueue(q.role)
        /\ role[q.role].prep = q.lease
        /\ role[q.role].prepLive
        /\ Leave(Len(pending), NothingChanged)
        /\ role' = [role EXCEPT ![q.role] =
              [@ EXCEPT !.draft = q.facts, !.prep = 0, !.prepLive = FALSE]]
        /\ End(c)
        /\ UNCHANGED <<today, profile, pending, granted, delivered>>

----------------------------------------------------------------------------

Outside ==
    \/ Midnight
    \/ EditFacts
    \/ MainTakes
    \/ \E s \in Sources : LeaseExpires(s)
    \/ \E r \in Roles : PreparationExpires(r) \/ OwnerAdds(r)

MainCall(m) == Start(m) \/ Look(m) \/ Stop(m)

WorkerCall(m, w, s) ==
    \/ Claim(m, w, s)
    \/ \E page \in Pages, saved \in BOOLEAN : Progress(m, w, s, page, saved)
    \/ \E outcome \in Outcomes : Finish(m, w, s, outcome)

ReadPhase(c) ==
    \/ \E m \in Mains, w \in Workers :
          \/ BeginPrepareClaim(c, m, w)
          \/ \E s \in Sources : BeginScan(c, m, w, s) \/ \E r \in Roles : BeginEnqueue(c, m, w, s, r)
    \/ \E l \in 1 .. Len(granted) : BeginPrepareSave(c, l)
    \/ ReadFacts(c)

CommitPhase(c) ==
    EndScan(c) \/ CommitEnqueue(c) \/ CommitPrepareClaim(c) \/ CommitPrepareSave(c) \/ Refuse(c)

Next ==
    \/ Outside
    \/ \E m \in Mains : MainCall(m) \/ \E w \in Workers, s \in Sources : WorkerCall(m, w, s)
    \/ \E c \in Callers : ReadPhase(c) \/ CommitPhase(c)

Spec == Init /\ [][Next]_vars

----------------------------------------------------------------------------
(* Properties *)

TypeOK ==
    /\ today \in 0 .. MaxDay
    /\ profile \in Profiles
    /\ session \in Sessions
    /\ source \in [Sources -> SourceRecords]
    /\ pending \in Seq(Roles)
    /\ role \in [Roles -> RoleRecords]
    /\ request \in [Callers -> Requests]
    /\ granted \in Seq(Grants) /\ Len(granted) <= MaxLeases
    /\ delivered \in LeaseIds

\* A worker is never told to search two sources at once, over expiries, releases
\* and midnight.
OneLeasePerWorker ==
    \A s, t \in Sources :
        /\ source[s].lease.live /\ source[t].lease.live
        /\ source[s].lease.worker = source[t].lease.worker
        => s = t

\* The cursor and the outcome of a source's pass were reported by a worker of the
\* same search, for this source, on the day the pass belongs to: what a worker of
\* yesterday still reports does not touch today's pass.
TodaysPass ==
    \A s \in Sources :
        /\ \A l \in {source[s].cursor, source[s].reason} \ {0} :
              /\ granted[l].of = s
              /\ granted[l].day = session.day
              /\ granted[l].main = session.main
        /\ source[s].status # "ready" => source[s].reason # 0

\* A preparation lease of a pending role belongs to the search that is running,
\* and no worker prepares two roles: no role stays blocked by a search that has
\* ended.
PreparationLeases ==
    \A i, j \in 1 .. Len(pending) :
        LET p == role[pending[i]] q == role[pending[j]]
        IN  /\ p.prepLive => session.active /\ granted[p.prep].main = session.main
            /\ p.prepLive /\ q.prepLive /\ granted[p.prep].worker = granted[q.prep].worker
               => i = j

\* "Midnight must not create overlap" (discovery/search-coordinator.js): a source
\* is given away only when the lease before it was released or has expired.
NoOverlap ==
    [][\A l \in (Len(granted) + 1) .. Len(granted') :
          LET of == granted'[l].of
          IN  of \in Sources => ~source[of].lease.live]_vars

\* Call c has this step append its role to the queue, or hand over its result.
Appends(c) == request[c].op = "enqueue" /\ request'[c] # request[c] /\ Len(pending') > Len(pending)
Delivers(c) == request[c].op = "scan" /\ request'[c] # request[c] /\ delivered' # delivered

\* "stale workers cannot enqueue after release, stop or expiry"
\* (docs/agent-led-workflow.md), nor use what they scanned: while the call waited
\* for its source, nobody else was given that source and the search went on.
StaleWorkersAreFenced ==
    [][\A c \in Callers : Appends(c) \/ Delivers(c) =>
          LET q == request[c]
          IN  /\ session.active
              /\ session.main = q.main
              /\ \A l \in (q.lease + 1) .. Len(granted) : granted[l].of # granted[q.lease].of]_vars

\* "The atomic enqueue guard also prevents two workers from crossing 30"
\* (skills/job-application/references/search-workers.md).  Workers append only in
\* a refill cycle, and a cycle begins only at the low watermark.
RefillCycles ==
    [][/\ \A c \in Callers : Appends(c) =>
             /\ Len(pending') <= HighWatermark
             /\ session.refilling \/ Len(pending) <= LowWatermark
       /\ ~session.refilling /\ session'.refilling => Len(pending) <= LowWatermark]_vars

\* "A main-session claim or expired lease rejects the write"
\* (skills/job-application/references/search-workers.md): the draft of a role the
\* main session has taken is not replaced under its hands.
TakenDraftsAreKept ==
    [][\A r \in Roles : role[r].known /\ ~InQueue(r) => role'[r].draft = role[r].draft]_vars
=============================================================================
