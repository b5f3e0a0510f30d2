---------------------- MODULE SearchCoordinatorProofs ----------------------
(***************************************************************************)
(* Why searches do not overlap and stale workers change nothing, whatever  *)
(* the plan, the number of workers and the watermarks.                     *)
(***************************************************************************)
EXTENDS SearchCoordinator, TLAPS

----------------------------------------------------------------------------
(* The inductive invariant *)

Given == 1 .. Len(granted)

\* A source's lease was given to its worker, for this source, by the main session
\* that is searching; while it lives nobody was given the source after it.
LeaseGranted(s) ==
    LET x == source[s].lease
    IN  /\ x.id # 0 =>
              /\ session.active
              /\ x.id \in Given
              /\ granted[x.id] = [of |-> s, worker |-> x.worker, main |-> session.main,
                                  day |-> x.day]
        /\ x.live => x.id # 0 /\ \A l \in Given : l > x.id => granted[l].of # s

OneLease(s, t) ==
    /\ source[s].lease.live /\ source[t].lease.live
    /\ source[s].lease.worker = source[t].lease.worker
    => s = t

\* What is written of a source's pass was written under a lease that was given
\* for it, in this search and on the day of the pass.
PassRecorded(s) ==
    /\ \A l \in {source[s].cursor, source[s].reason} \ {0} :
          /\ l \in Given
          /\ granted[l].of = s
          /\ granted[l].day = session.day
          /\ granted[l].main = session.main
    /\ source[s].status # "ready" => source[s].reason # 0

QueueKept ==
    /\ \A i \in 1 .. Len(pending) : role[pending[i]].known
    /\ \A i, j \in 1 .. Len(pending) : pending[i] = pending[j] => i = j

\* A preparation that lives was given, for a known role; if its role is still pending, by the main
\* session that is searching, and no other role's has the same worker.
PreparationKept ==
    /\ \A r \in Roles : role[r].prepLive => role[r].known /\ role[r].prep \in Given
    /\ \A r \in Roles : InQueue(r) /\ role[r].prepLive =>
          session.active /\ granted[role[r].prep].main = session.main
    /\ \A r, t \in Roles :
          /\ InQueue(r) /\ role[r].prepLive
          /\ InQueue(t) /\ role[t].prepLive
          /\ granted[role[r].prep].worker = granted[role[t].prep].worker
          => r = t

\* What a call read names things that exist.
Informed(c) ==
    LET q == request[c]
    IN  /\ q.op # "none" => q.main \in Mains /\ q.worker \in Workers
        /\ q.op \in {"scan", "enqueue", "prepareSave"} => q.lease \in Given
        /\ q.op \in {"scan", "enqueue"} => granted[q.lease].of \in Sources
        /\ q.op \in {"enqueue", "prepareSave"} => q.role \in Roles

SearchKept ==
    /\ TypeOK
    /\ \A s \in Sources : LeaseGranted(s)
    /\ \A s, t \in Sources : OneLease(s, t)
    /\ \A s \in Sources : PassRecorded(s)
    /\ QueueKept
    /\ PreparationKept
    /\ \A c \in Callers : Informed(c)

----------------------------------------------------------------------------
(* What every transaction leaves behind *)

LEMMA ReadyTyped == Ready \in SourceRecords /\ NoLease \in Leases
BY SearchCoordinatorAssumption
DEF Ready, NoLease, SourceRecords, Leases, LeaseIds, SearchCoordinatorAssumption

LEMMA SourceTyped ==
    ASSUME TypeOK, NEW s \in Sources
    PROVE  /\ source[s] \in SourceRecords
           /\ source[s].lease \in Leases
           /\ source[s].lease.id \in Nat
           /\ source[s].cursor \in Nat /\ source[s].reason \in Nat
BY DEF TypeOK, SourceRecords, Leases, LeaseIds

\* A refresh keeps the leases that live, and the pass of this day.
LEMMA RefreshedFacts ==
    ASSUME TypeOK, NEW s \in Sources
    PROVE  /\ Refreshed(s) \in SourceRecords
           /\ Refreshed(s).lease = IF source[s].lease.live THEN source[s].lease ELSE NoLease
           /\ session.day = today =>
                 /\ Refreshed(s).status = source[s].status
                 /\ Refreshed(s).cursor = source[s].cursor
                 /\ Refreshed(s).reason = source[s].reason
           /\ session.day # today =>
                 /\ Refreshed(s).status = "ready"
                 /\ Refreshed(s).cursor = 0
                 /\ Refreshed(s).reason = 0
<1> DEFINE renewed == IF session.day = today THEN source[s]
                      ELSE [source[s] EXCEPT !.status = "ready", !.cursor = 0, !.reason = 0,
                                             !.poor = 0]
<1>1. source[s] \in SourceRecords /\ NoLease \in Leases
    BY SourceTyped, ReadyTyped
<1>2. /\ renewed \in SourceRecords
      /\ renewed.lease = source[s].lease
      /\ session.day = today => renewed = source[s]
      /\ session.day # today => renewed.status = "ready" /\ renewed.cursor = 0 /\ renewed.reason = 0
    <2>1. CASE session.day = today
        BY <1>1, <2>1
    <2>2. CASE session.day # today
        <3>1. renewed = [source[s] EXCEPT !.status = "ready", !.cursor = 0, !.reason = 0, !.poor = 0]
            BY <2>2
        <3>2. 0 \in LeaseIds
            BY SearchCoordinatorAssumption DEF SearchCoordinatorAssumption, LeaseIds
        <3> HIDE DEF renewed
        <3>3. renewed = [status |-> "ready", cursor |-> 0, reason |-> 0, poor |-> 0,
                         lease |-> source[s].lease]
            BY <1>1, <3>1 DEF SourceRecords
        <3>4. source[s].lease \in Leases
            BY <1>1 DEF SourceRecords
        <3>5. renewed \in SourceRecords
            BY <3>2, <3>3, <3>4 DEF SourceRecords
        <3> QED
            BY <2>2, <3>3, <3>5
    <2> QED
        BY <2>1, <2>2
<1>3. Refreshed(s) = IF renewed.lease.live THEN renewed ELSE [renewed EXCEPT !.lease = NoLease]
    BY DEF Refreshed
<1> HIDE DEF renewed
<1>4. CASE renewed.lease.live
    BY <1>2, <1>3, <1>4
<1>5. CASE ~renewed.lease.live
    <2>1. Refreshed(s) = [renewed EXCEPT !.lease = NoLease]
        BY <1>3, <1>5
    <2>2. /\ Refreshed(s) \in SourceRecords /\ Refreshed(s).lease = NoLease
          /\ Refreshed(s).status = renewed.status /\ Refreshed(s).cursor = renewed.cursor
          /\ Refreshed(s).reason = renewed.reason
        BY <1>1, <1>2, <2>1 DEF SourceRecords
    <2> QED
        BY <1>2, <1>5, <2>2
<1> QED
    BY <1>4, <1>5

\* The search goes on under the same main session, and is of this day.
SessionGoesOn ==
    /\ session' \in Sessions
    /\ session'.main = session.main
    /\ session'.active = session.active
    /\ session'.day = today

\* Its watermarks: a cycle begins only at the low one.
CycleGoesOn == session'.refilling => session.refilling \/ Len(pending) <= LowWatermark

LEMMA LeaveFacts ==
    ASSUME TypeOK, NEW changed, Leave(Len(pending), changed)
    PROVE  /\ SessionGoesOn /\ CycleGoesOn
           /\ \A s \in Sources :
                 source'[s] = IF s \in DOMAIN changed THEN changed[s] ELSE Refreshed(s)
<1>1. session \in Sessions /\ today \in 0 .. MaxDay
    BY DEF TypeOK
<1>2. session' = [session EXCEPT !.day = today, !.refilling = Buffered(Len(pending), session.refilling)]
    BY <1>1 DEF Leave, SessionWith, Sessions
<1> QED
    BY <1>1, <1>2 DEF Leave, SessionGoesOn, CycleGoesOn, Sessions, Buffered

LEMMA LeaveSame ==
    ASSUME TypeOK, Leave(Len(pending), NothingChanged)
    PROVE  /\ SessionGoesOn /\ CycleGoesOn
           /\ source' = [s \in Sources |-> Refreshed(s)]
BY LeaveFacts DEF NothingChanged, Leave

LEMMA LeaveOnly ==
    ASSUME TypeOK, NEW s \in Sources, NEW r, Leave(Len(pending), Only(s, r))
    PROVE  /\ SessionGoesOn /\ CycleGoesOn
           /\ source' = [t \in Sources |-> IF t = s THEN r ELSE Refreshed(t)]
<1>1. DOMAIN Only(s, r) = {s} /\ Only(s, r)[s] = r
    BY DEF Only
<1> QED
    BY <1>1, LeaveFacts DEF Leave

----------------------------------------------------------------------------
(* What a step does to leases and passes *)

MainStays == session'.main = session.main /\ session'.active = session.active

\* A lease is kept, expires or is dropped.
LeaseKept(s) ==
    \/ source'[s].lease = NoLease
    \/ /\ source'[s].lease.id = source[s].lease.id
       /\ source'[s].lease.worker = source[s].lease.worker
       /\ source'[s].lease.day = source[s].lease.day
       /\ source'[s].lease.live => source[s].lease.live

\* What is written of a pass was there, or is written under the lease of the day.
PassCarried(s) ==
    /\ \A l \in {source'[s].cursor, source'[s].reason} \ {0} :
          /\ session'.main = session.main
          /\ \/ l \in {source[s].cursor, source[s].reason} /\ session'.day = session.day
             \/ l = source[s].lease.id /\ source[s].lease.day = session'.day
    /\ source'[s].status # "ready" => source'[s].reason # 0

\* No source is given away.
NoneGiven ==
    \/ granted' = granted
    \/ \E g \in Grants : g.of \in Roles /\ granted' = Append(granted, g)

Carried == MainStays /\ NoneGiven /\ \A s \in Sources : LeaseKept(s)

Released == granted' = granted /\ \A s \in Sources : source'[s].lease = NoLease

ClaimedBy(s, w) ==
    /\ MainStays
    /\ session.active
    /\ ~source[s].lease.live
    /\ granted' = Append(granted, [of |-> s, worker |-> w, main |-> session.main, day |-> today])
    /\ source'[s].lease = [id |-> Len(granted) + 1, worker |-> w, day |-> today, live |-> TRUE]
    /\ \A t \in Sources \ {s} :
          LeaseKept(t) /\ ~(source'[t].lease.live /\ source'[t].lease.worker = w)

SourcesStep ==
    /\ \A s \in Sources : PassCarried(s)
    /\ \/ Carried
       \/ Released
       \/ \E s \in Sources, w \in Workers : ClaimedBy(s, w)

LEMMA Untouched ==
    ASSUME SearchKept, UNCHANGED <<session, source, granted>>
    PROVE  SourcesStep
<1>1. \A s \in Sources : LeaseKept(s) /\ PassCarried(s)
    BY DEF LeaseKept, PassCarried, SearchKept, PassRecorded
<1> QED
    BY <1>1 DEF SourcesStep, Carried, MainStays, NoneGiven

LEMMA RefreshCarries ==
    ASSUME SearchKept, NEW s \in Sources, SessionGoesOn, source'[s] = Refreshed(s)
    PROVE  LeaseKept(s) /\ PassCarried(s)
<1>1. TypeOK /\ PassRecorded(s)
    BY DEF SearchKept
<1>2. LeaseKept(s)
    BY <1>1, RefreshedFacts DEF LeaseKept
<1>3. PassCarried(s)
    BY <1>1, RefreshedFacts DEF PassCarried, PassRecorded, SessionGoesOn
<1> QED
    BY <1>2, <1>3

LEMMA RefreshSources ==
    ASSUME SearchKept, SessionGoesOn, source' = [s \in Sources |-> Refreshed(s)], NoneGiven
    PROVE  SourcesStep
<1>1. \A s \in Sources : LeaseKept(s) /\ PassCarried(s)
    BY RefreshCarries
<1> QED
    BY <1>1 DEF SourcesStep, Carried, MainStays, SessionGoesOn

LEMMA ExpiryEffect ==
    ASSUME SearchKept, NEW s \in Sources, LeaseExpires(s)
    PROVE  SourcesStep
<1> USE DEF LeaseExpires
<1>1. \A t \in Sources : source[t] \in SourceRecords
    BY SourceTyped DEF SearchKept
<1>2. /\ source'[s] = [source[s] EXCEPT !.lease = [source[s].lease EXCEPT !.live = FALSE]]
      /\ \A t \in Sources \ {s} : source'[t] = source[t]
    BY DEF SearchKept, TypeOK
<1>3. \A t \in Sources : LeaseKept(t) /\ PassCarried(t)
    <2> SUFFICES ASSUME NEW t \in Sources PROVE LeaseKept(t) /\ PassCarried(t)
        OBVIOUS
    <2>1. PassRecorded(t)
        BY DEF SearchKept
    <2>2. CASE t = s
        <3>1. /\ source'[s].lease = [source[s].lease EXCEPT !.live = FALSE]
              /\ source'[s].cursor = source[s].cursor /\ source'[s].reason = source[s].reason
              /\ source'[s].status = source[s].status
            <4>1. PICK x \in SourceRecords : x = source[s]
                BY <1>1
            <4>2. PICK y : y = [x.lease EXCEPT !.live = FALSE]
                OBVIOUS
            <4>3. source'[s] = [x EXCEPT !.lease = y]
                BY <1>2, <4>1, <4>2
            <4>4. /\ source'[s].lease = y /\ source'[s].cursor = x.cursor
                  /\ source'[s].reason = x.reason /\ source'[s].status = x.status
                BY <4>3 DEF SourceRecords
            <4> QED
                BY <4>1, <4>2, <4>4
        <3>2. source[s].lease \in Leases
            BY <1>1 DEF SourceRecords
        <3> QED
            BY <2>1, <2>2, <3>1, <3>2 DEF LeaseKept, PassCarried, PassRecorded, Leases
    <2>3. CASE t # s
        BY <1>2, <2>1, <2>3 DEF LeaseKept, PassCarried, PassRecorded
    <2> QED
        BY <2>2, <2>3
<1> QED
    BY <1>3 DEF SourcesStep, Carried, MainStays, NoneGiven

LEMMA StartEffect ==
    ASSUME SearchKept, NEW m \in Mains, Start(m)
    PROVE  SourcesStep
<1>1. \A s \in Sources : source'[s] = Ready
    BY DEF Start
<1> QED
    BY <1>1 DEF SourcesStep, Released, PassCarried, Ready, NoLease, Start

LEMMA StopEffect ==
    ASSUME SearchKept, NEW m \in Mains, Stop(m)
    PROVE  /\ SourcesStep
           /\ session' \in Sessions /\ session'.main = session.main /\ ~session'.active
           /\ session'.day = today
<1>1. session \in Sessions /\ today \in 0 .. MaxDay /\ TypeOK
    BY DEF SearchKept, TypeOK
<1>2. session' = [session EXCEPT !.day = today, !.refilling = Buffered(Len(pending), session.refilling),
                                 !.active = FALSE]
    BY <1>1 DEF Stop, SessionWith, Sessions
<1>3. /\ session' \in Sessions /\ session'.main = session.main /\ ~session'.active
      /\ session'.day = today
    BY <1>1, <1>2 DEF Sessions, Buffered
<1>4. \A s \in Sources : source'[s].lease = NoLease /\ PassCarried(s)
    <2> SUFFICES ASSUME NEW s \in Sources PROVE source'[s].lease = NoLease /\ PassCarried(s)
        OBVIOUS
    <2>1. PassRecorded(s)
        BY DEF SearchKept
    <2>2. source'[s] = [Refreshed(s) EXCEPT !.lease = NoLease]
        BY DEF Stop
    <2>3. Refreshed(s) \in SourceRecords
        BY <1>1, RefreshedFacts
    <2>4. /\ source'[s].lease = NoLease
          /\ source'[s].cursor = Refreshed(s).cursor /\ source'[s].reason = Refreshed(s).reason
          /\ source'[s].status = Refreshed(s).status
        BY <2>2, <2>3 DEF SourceRecords
    <2> QED
        BY <1>1, <1>3, <2>1, <2>4, RefreshedFacts DEF PassCarried, PassRecorded
<1> QED
    BY <1>3, <1>4 DEF SourcesStep, Released, Stop

LEMMA ClaimEffect ==
    ASSUME SearchKept, NEW m \in Mains, NEW w \in Workers, NEW s \in Sources, Claim(m, w, s)
    PROVE  SourcesStep /\ SessionGoesOn /\ CycleGoesOn /\ ClaimedBy(s, w)
<1> DEFINE given == [id |-> NewLease, worker |-> w, day |-> today, live |-> TRUE]
           r == [Refreshed(s) EXCEPT !.lease = given]
<1>1. TypeOK
    BY DEF SearchKept
<1>2. /\ SessionGoesOn /\ CycleGoesOn
      /\ source' = [t \in Sources |-> IF t = s THEN r ELSE Refreshed(t)]
    BY <1>1, LeaveOnly DEF Claim
<1>3. Refreshed(s) \in SourceRecords
    BY <1>1, RefreshedFacts
<1>4. /\ r.lease = given
      /\ r.cursor = Refreshed(s).cursor /\ r.reason = Refreshed(s).reason
      /\ r.status = Refreshed(s).status
    BY <1>3 DEF SourceRecords
<1>5. source'[s] = r /\ \A t \in Sources \ {s} : source'[t] = Refreshed(t)
    BY <1>2
<1> HIDE DEF r
<1>6. PassCarried(s)
    <2>1. PassRecorded(s)
        BY DEF SearchKept
    <2> QED
        BY <1>1, <1>2, <1>4, <1>5, <2>1, RefreshedFacts DEF PassCarried, PassRecorded, SessionGoesOn
<1>7. \A t \in Sources \ {s} : LeaseKept(t) /\ PassCarried(t)
    BY <1>2, <1>5, RefreshCarries
<1>8. ~source[s].lease.live
    <2>1. Refreshed(s).lease = NoLease
        BY DEF Claim, Available
    <2> QED
        BY <1>1, <2>1, RefreshedFacts DEF NoLease
<1>9. \A t \in Sources \ {s} : ~(source'[t].lease.live /\ source'[t].lease.worker = w)
    BY <1>5 DEF Claim
<1>10. ClaimedBy(s, w)
    BY <1>2, <1>4, <1>5, <1>7, <1>8, <1>9
    DEF ClaimedBy, SessionGoesOn, MainStays, Claim, Owns, Grant, NewLease
<1> QED
    BY <1>2, <1>6, <1>7, <1>10 DEF SourcesStep

\* A report of worker w on source s, with its new record r: the other sources are
\* only refreshed.
LEMMA ReportEffect ==
    ASSUME SearchKept, NEW s \in Sources, NEW r,
           Leave(Len(pending), Only(s, r)), granted' = granted,
           r.lease = source[s].lease \/ r.lease = NoLease,
           r.status # "ready" => r.reason # 0,
           \A l \in {r.cursor, r.reason} \ {0} :
               \/ l \in {Refreshed(s).cursor, Refreshed(s).reason}
               \/ l = source[s].lease.id /\ source[s].lease.day = today
    PROVE  SourcesStep /\ SessionGoesOn /\ CycleGoesOn
           /\ source' = [t \in Sources |-> IF t = s THEN r ELSE Refreshed(t)]
<1>1. TypeOK /\ PassRecorded(s)
    BY DEF SearchKept
<1>2. /\ SessionGoesOn /\ CycleGoesOn
      /\ source' = [t \in Sources |-> IF t = s THEN r ELSE Refreshed(t)]
    BY <1>1, LeaveOnly
<1>3. source'[s] = r /\ \A t \in Sources \ {s} : source'[t] = Refreshed(t)
    BY <1>2
<1>4. LeaseKept(s)
    BY <1>3 DEF LeaseKept
<1>5. PassCarried(s)
    BY <1>1, <1>2, <1>3, RefreshedFacts DEF PassCarried, SessionGoesOn, PassRecorded
<1>6. \A t \in Sources \ {s} : LeaseKept(t) /\ PassCarried(t)
    BY <1>2, <1>3, RefreshCarries
<1> QED
    BY <1>2, <1>4, <1>5, <1>6 DEF SourcesStep, Carried, MainStays, NoneGiven, SessionGoesOn

LEMMA ProgressEffect ==
    ASSUME SearchKept, NEW m \in Mains, NEW w \in Workers, NEW s \in Sources,
           NEW page \in Pages, NEW saved \in BOOLEAN, Progress(m, w, s, page, saved)
    PROVE  /\ SourcesStep /\ SessionGoesOn /\ CycleGoesOn
           /\ source' \in [Sources -> SourceRecords]
<1> DEFINE R == Refreshed(s)
           poor == CASE page = "poor" -> IF R.poor = 2 THEN 2 ELSE R.poor + 1
                     [] page = "good" -> 0
                     [] OTHER -> R.poor
           cursor == IF saved THEN source[s].lease.id ELSE R.cursor
           r == IF source[s].lease.day = today
                THEN [R EXCEPT !.poor = poor, !.cursor = cursor] ELSE R
<1>1. TypeOK /\ PassRecorded(s)
    BY DEF SearchKept
<1>2. R \in SourceRecords /\ source[s].lease.live /\ R.lease = source[s].lease
    BY <1>1, RefreshedFacts DEF Progress, HoldsLease
<1>3. source[s].lease.id \in LeaseIds
    BY <1>1, SourceTyped DEF Leases
<1>4. poor \in 0 .. 2
    <2>1. R.poor \in 0 .. 2
        BY <1>2 DEF SourceRecords
    <2> HIDE DEF R
    <2> QED
        BY <2>1
<1>5. cursor \in LeaseIds
    BY <1>2, <1>3 DEF SourceRecords
<1>6. /\ r \in SourceRecords /\ r.lease = R.lease /\ r.reason = R.reason /\ r.status = R.status
      /\ r.cursor \in {R.cursor, source[s].lease.id}
      /\ r.cursor # R.cursor => source[s].lease.day = today
    <2> HIDE DEF poor
    <2>1. cursor \in {R.cursor, source[s].lease.id}
        OBVIOUS
    <2> HIDE DEF cursor, R
    <2>2. CASE source[s].lease.day = today
        <3>1. r = [R EXCEPT !.poor = poor, !.cursor = cursor]
            BY <2>2
        <3> HIDE DEF r
        <3> QED
            BY <1>2, <1>4, <1>5, <2>1, <2>2, <3>1 DEF SourceRecords
    <2>3. CASE source[s].lease.day # today
        BY <1>2, <2>3
    <2> QED
        BY <2>2, <2>3
<1>7. Leave(Len(pending), Only(s, r)) /\ granted' = granted
    BY DEF Progress
<1>8. R.status # "ready" => R.reason # 0
    BY <1>1, RefreshedFacts DEF PassRecorded
<1> HIDE DEF r, poor, cursor
<1>9. \A l \in {r.cursor, r.reason} \ {0} :
          \/ l \in {R.cursor, R.reason}
          \/ l = source[s].lease.id /\ source[s].lease.day = today
    BY <1>6
<1>10. /\ SourcesStep /\ SessionGoesOn /\ CycleGoesOn
       /\ source' = [t \in Sources |-> IF t = s THEN r ELSE Refreshed(t)]
    BY <1>2, <1>6, <1>7, <1>8, <1>9, ReportEffect
<1> QED
    BY <1>1, <1>6, <1>10, RefreshedFacts

LEMMA FinishEffect ==
    ASSUME SearchKept, NEW m \in Mains, NEW w \in Workers, NEW s \in Sources,
           NEW outcome \in Outcomes, Finish(m, w, s, outcome)
    PROVE  /\ SourcesStep /\ SessionGoesOn /\ CycleGoesOn
           /\ source' \in [Sources -> SourceRecords]
<1> DEFINE R == Refreshed(s)
           reason == IF source[s].lease.day = today THEN source[s].lease.id ELSE R.reason
           status == IF source[s].lease.day # today THEN R.status
                     ELSE IF outcome = "paused" THEN "ready" ELSE outcome
           r == [R EXCEPT !.lease = NoLease, !.reason = reason, !.status = status]
<1>1. TypeOK /\ PassRecorded(s)
    BY DEF SearchKept
<1>2. R \in SourceRecords
    BY <1>1, RefreshedFacts
<1>3. source[s].lease.id \in LeaseIds /\ source[s].lease.id # 0
    BY <1>1, SourceTyped DEF Leases, Finish, HoldsLease
<1>4. reason \in LeaseIds
    BY <1>2, <1>3 DEF SourceRecords
<1>5. status \in {"ready", "low_quality", "pass_complete", "blocked"}
    BY <1>2, SearchCoordinatorAssumption DEF SourceRecords, SearchCoordinatorAssumption
<1>6. R.status # "ready" => R.reason # 0
    BY <1>1, RefreshedFacts DEF PassRecorded
<1>7. /\ status # "ready" => reason # 0
      /\ reason = R.reason \/ (reason = source[s].lease.id /\ source[s].lease.day = today)
    BY <1>3, <1>6
<1>8. Leave(Len(pending), Only(s, r)) /\ granted' = granted
    BY DEF Finish
<1> HIDE DEF reason, status
<1>9. /\ r \in SourceRecords /\ r.lease = NoLease /\ r.reason = reason /\ r.status = status
      /\ r.cursor = R.cursor
    BY <1>2, <1>4, <1>5, ReadyTyped DEF SourceRecords
<1> HIDE DEF r
<1>10. /\ SourcesStep /\ SessionGoesOn /\ CycleGoesOn
       /\ source' = [t \in Sources |-> IF t = s THEN r ELSE Refreshed(t)]
    BY <1>7, <1>8, <1>9, ReportEffect
<1> QED
    BY <1>1, <1>9, <1>10, RefreshedFacts

LEMMA RefreshedTyped ==
    ASSUME TypeOK, source' = [s \in Sources |-> Refreshed(s)]
    PROVE  source' \in [Sources -> SourceRecords]
BY RefreshedFacts

LEMMA EnqueueEffect ==
    ASSUME SearchKept, NEW c \in Callers, CommitEnqueue(c)
    PROVE  /\ SourcesStep /\ SessionGoesOn /\ CycleGoesOn
           /\ source' \in [Sources -> SourceRecords]
<1>1. TypeOK
    BY DEF SearchKept
<1>2. granted' = granted
    BY DEF CommitEnqueue
<1>3. /\ SessionGoesOn /\ CycleGoesOn
      /\ source' = [s \in Sources |-> Refreshed(s)]
    <2>1. CASE Leave(Len(pending), NothingChanged)
        BY <1>1, <2>1, LeaveSame
    <2>2. CASE ~Leave(Len(pending), NothingChanged)
        <3>1. /\ session' = [session EXCEPT !.day = today,
                                            !.refilling = Buffered(Len(pending) + 1, TRUE)]
              /\ source' = [s \in Sources |-> Refreshed(s)]
              /\ SearchAllowed
            BY <2>2 DEF CommitEnqueue, MaySearch
        <3>2. session \in Sessions /\ today \in 0 .. MaxDay
            BY <1>1 DEF TypeOK
        <3>3. Buffered(Len(pending) + 1, TRUE) \in BOOLEAN
            BY DEF Buffered
        <3>4. SessionGoesOn
            BY <3>1, <3>2, <3>3 DEF SessionGoesOn, Sessions
        <3>5. CycleGoesOn
            BY <3>1 DEF CycleGoesOn, SearchAllowed, Buffered
        <3> QED
            BY <3>1, <3>4, <3>5
    <2> QED
        BY <2>1, <2>2
<1> QED
    BY <1>1, <1>2, <1>3, RefreshSources, RefreshedTyped DEF NoneGiven

LEMMA LookEffect ==
    ASSUME SearchKept, Leave(Len(pending), NothingChanged), NoneGiven
    PROVE  /\ SourcesStep /\ SessionGoesOn /\ CycleGoesOn
           /\ source' \in [Sources -> SourceRecords]
BY LeaveSame, RefreshSources, RefreshedTyped DEF SearchKept

\* The three ways prepareClaim() ends; only the last one gives a lease.
PrepareAnswers(c) ==
    \/ role' = role /\ granted' = granted
    \/ role' = [r \in Roles |-> WithoutExpired(r)] /\ granted' = granted
    \/ /\ \A i \in 1 .. Len(pending) : ~Prepares(pending[i], request[c].worker, request[c].main)
       /\ \E i \in 1 .. Len(pending) :
             /\ NeedsDraft(pending[i], request[c].facts)
             /\ Grant(pending[i], request[c].worker, request[c].main)
             /\ role' = [[r \in Roles |-> WithoutExpired(r)]
                            EXCEPT ![pending[i]].prep = NewLease, ![pending[i]].prepLive = TRUE]

LEMMA PrepareAnswered ==
    ASSUME NEW c \in Callers, CommitPrepareClaim(c)
    PROVE  PrepareAnswers(c)
BY DEF CommitPrepareClaim, PrepareAnswers

LEMMA PrepareClaimEffect ==
    ASSUME SearchKept, NEW c \in Callers, CommitPrepareClaim(c)
    PROVE  /\ SourcesStep /\ SessionGoesOn /\ CycleGoesOn
           /\ source' \in [Sources -> SourceRecords]
           /\ NoneGiven
<1>1. NoneGiven
    <2>1. CASE granted' = granted
        BY <2>1 DEF NoneGiven
    <2>2. CASE granted' # granted
        <3>1. PICK i \in 1 .. Len(pending) : Grant(pending[i], request[c].worker, request[c].main)
            BY <2>2, PrepareAnswered DEF PrepareAnswers
        <3>2. pending[i] \in Roles /\ today \in 0 .. MaxDay
            BY DEF SearchKept, TypeOK
        <3>3. request[c].worker \in Workers /\ request[c].main \in Mains
            BY DEF SearchKept, Informed, CommitPrepareClaim
        <3>4. [of |-> pending[i], worker |-> request[c].worker, main |-> request[c].main, day |-> today]
                 \in Grants
            BY <3>2, <3>3 DEF Grants
        <3> QED
            BY <3>1, <3>2, <3>4 DEF Grant, NoneGiven
    <2> QED
        BY <2>1, <2>2
<1> QED
    BY <1>1, LookEffect DEF CommitPrepareClaim

----------------------------------------------------------------------------
(* Types *)

LEMMA RequestTyped ==
    ASSUME TypeOK, NEW c \in Callers
    PROVE  /\ request[c] \in Requests /\ NoRequest \in Requests
           /\ End(c) => request' \in [Callers -> Requests]
           /\ \A r : Begin(c, r) /\ r \in Requests => request' \in [Callers -> Requests]
<1>1. NoRequest \in Requests
    BY SearchCoordinatorAssumption
    DEF NoRequest, Requests, LeaseIds, SearchCoordinatorAssumption
<1> QED
    BY <1>1 DEF TypeOK, End, Begin

LEMMA BegunTyped ==
    ASSUME TypeOK, NEW c \in Callers, NEW m \in Mains, NEW w \in Workers
    PROVE  /\ BeginPrepareClaim(c, m, w) => request' \in [Callers -> Requests]
           /\ \A s \in Sources : BeginScan(c, m, w, s) => request' \in [Callers -> Requests]
           /\ \A s \in Sources, r \in Roles :
                 BeginEnqueue(c, m, w, s, r) => request' \in [Callers -> Requests]
<1>1. profile \in Profiles
    BY DEF TypeOK
<1>2. NoRequest \in Requests
    BY RequestTyped
<1>3. ASSUME NEW q \in Requests, request' = [request EXCEPT ![c] = q]
      PROVE  request' \in [Callers -> Requests]
    BY <1>3 DEF TypeOK
<1>4. BeginPrepareClaim(c, m, w) => request' \in [Callers -> Requests]
    <2> DEFINE q == [NoRequest EXCEPT !.op = "prepareClaim", !.main = m, !.worker = w,
                                      !.facts = profile]
    <2>1. q \in Requests
        BY <1>1, <1>2 DEF Requests
    <2>2. BeginPrepareClaim(c, m, w) => request' = [request EXCEPT ![c] = q]
        BY DEF BeginPrepareClaim, Begin
    <2> HIDE DEF q
    <2> QED
        BY <1>3, <2>1, <2>2
<1>5. ASSUME NEW s \in Sources, BeginScan(c, m, w, s)
      PROVE  request' \in [Callers -> Requests]
    <2> DEFINE q == [NoRequest EXCEPT !.op = "scan", !.main = m, !.worker = w,
                                      !.lease = source[s].lease.id]
    <2>1. source[s].lease.id \in LeaseIds
        BY SourceTyped DEF Leases
    <2>2. q \in Requests
        BY <1>2, <2>1 DEF Requests
    <2>3. request' = [request EXCEPT ![c] = q]
        BY <1>5 DEF BeginScan, Begin
    <2> HIDE DEF q
    <2> QED
        BY <1>3, <2>2, <2>3
<1>6. ASSUME NEW s \in Sources, NEW r \in Roles, BeginEnqueue(c, m, w, s, r)
      PROVE  request' \in [Callers -> Requests]
    <2> DEFINE q == [NoRequest EXCEPT !.op = "enqueue", !.main = m, !.worker = w,
                                      !.lease = source[s].lease.id, !.role = r]
    <2>1. source[s].lease.id \in LeaseIds
        BY SourceTyped DEF Leases
    <2>2. q \in Requests
        BY <1>2, <2>1 DEF Requests
    <2>3. request' = [request EXCEPT ![c] = q]
        BY <1>6 DEF BeginEnqueue, Begin
    <2> HIDE DEF q
    <2> QED
        BY <1>3, <2>2, <2>3
<1> QED
    BY <1>4, <1>5, <1>6

LEMMA SaveBegunTyped ==
    ASSUME TypeOK, NEW c \in Callers, NEW l \in Given, BeginPrepareSave(c, l)
    PROVE  request' \in [Callers -> Requests]
<1> DEFINE q == [op |-> "prepareSave", main |-> granted[l].main, worker |-> granted[l].worker,
                 lease |-> l, role |-> granted[l].of, facts |-> profile]
<1>1. granted[l] \in Grants /\ l \in LeaseIds /\ profile \in Profiles
    BY SearchCoordinatorAssumption
    DEF TypeOK, Given, LeaseIds, SearchCoordinatorAssumption
<1>2. q \in Requests
    BY <1>1 DEF Requests, Grants, BeginPrepareSave
<1> QED
    BY <1>2, RequestTyped DEF BeginPrepareSave

LEMMA ReadTyped ==
    ASSUME TypeOK, NEW c \in Callers, ReadFacts(c)
    PROVE  request' \in [Callers -> Requests]
<1>1. profile \in Profiles /\ request[c] \in Requests
    BY RequestTyped DEF TypeOK
<1>2. [request[c] EXCEPT !.facts = profile] \in Requests
    BY <1>1 DEF Requests
<1> QED
    BY <1>2 DEF ReadFacts, TypeOK


LEMMA DroppedTyped ==
    ASSUME TypeOK, NEW r \in Roles
    PROVE  /\ role[r] \in RoleRecords
           /\ WithoutExpired(r) \in RoleRecords
           /\ WithoutExpired(r).prepLive = role[r].prepLive
           /\ WithoutExpired(r).known = role[r].known
           /\ WithoutExpired(r).draft = role[r].draft
           /\ role[r].prepLive => WithoutExpired(r).prep = role[r].prep
<1>1. role[r] \in RoleRecords /\ 0 \in LeaseIds
    BY SearchCoordinatorAssumption
    DEF TypeOK, LeaseIds, SearchCoordinatorAssumption
<1>2. [role[r] EXCEPT !.prep = 0] \in RoleRecords
    BY <1>1 DEF RoleRecords
<1> QED
    BY <1>1, <1>2 DEF WithoutExpired, RoleRecords

\* The roles after prepareClaim(): their preparations, and what stays.
LEMMA PrepareRoles ==
    ASSUME TypeOK, NEW c \in Callers, PrepareAnswers(c)
    PROVE  /\ role' \in [Roles -> RoleRecords]
           /\ \A r \in Roles : role'[r].known = role[r].known /\ role'[r].draft = role[r].draft
           /\ \/ /\ granted' = granted
                 /\ \A r \in Roles : /\ role'[r].prepLive = role[r].prepLive
                                     /\ role[r].prepLive => role'[r].prep = role[r].prep
              \/ \E i \in 1 .. Len(pending) :
                    /\ Grant(pending[i], request[c].worker, request[c].main)
                    /\ \A j \in 1 .. Len(pending) :
                          ~Prepares(pending[j], request[c].worker, request[c].main)
                    /\ role'[pending[i]].prep = NewLease
                    /\ \A r \in Roles \ {pending[i]} :
                          /\ role'[r].prepLive = role[r].prepLive
                          /\ role[r].prepLive => role'[r].prep = role[r].prep
<1> DEFINE kept == [r \in Roles |-> WithoutExpired(r)]
<1>1. /\ role \in [Roles -> RoleRecords] /\ kept \in [Roles -> RoleRecords]
      /\ \A r \in Roles :
            /\ kept[r].prepLive = role[r].prepLive
            /\ kept[r].known = role[r].known
            /\ kept[r].draft = role[r].draft
            /\ role[r].prepLive => kept[r].prep = role[r].prep
    BY DroppedTyped DEF TypeOK
<1>2. CASE role' = role /\ granted' = granted
    BY <1>1, <1>2
<1> HIDE DEF kept
<1>3. CASE role' = kept /\ granted' = granted
    BY <1>1, <1>3
<1>4. ASSUME NEW i \in 1 .. Len(pending),
             \A j \in 1 .. Len(pending) : ~Prepares(pending[j], request[c].worker, request[c].main),
             Grant(pending[i], request[c].worker, request[c].main),
             role' = [kept EXCEPT ![pending[i]].prep = NewLease, ![pending[i]].prepLive = TRUE]
      PROVE  /\ role' \in [Roles -> RoleRecords]
             /\ \A r \in Roles : role'[r].known = role[r].known /\ role'[r].draft = role[r].draft
             /\ role'[pending[i]].prep = NewLease
             /\ \A r \in Roles \ {pending[i]} :
                   /\ role'[r].prepLive = role[r].prepLive
                   /\ role[r].prepLive => role'[r].prep = role[r].prep
    <2>1. PICK p \in Roles : p = pending[i]
        BY DEF TypeOK
    <2>2. NewLease \in LeaseIds
        BY <1>4 DEF Grant, NewLease, LeaseIds, TypeOK
    <2> DEFINE x == [kept[p] EXCEPT !.prep = NewLease, !.prepLive = TRUE]
    <2>3. /\ x \in RoleRecords /\ x.known = kept[p].known /\ x.draft = kept[p].draft
          /\ x.prep = NewLease
        BY <1>1, <2>2 DEF RoleRecords
    <2>4. role' = [kept EXCEPT ![p] = x]
        BY <1>1, <1>4, <2>1
    <2> HIDE DEF x
    <2> QED
        BY <1>1, <2>1, <2>3, <2>4
<1>5. \/ role' = role /\ granted' = granted
      \/ role' = kept /\ granted' = granted
      \/ \E i \in 1 .. Len(pending) :
            /\ \A j \in 1 .. Len(pending) : ~Prepares(pending[j], request[c].worker, request[c].main)
            /\ Grant(pending[i], request[c].worker, request[c].main)
            /\ role' = [kept EXCEPT ![pending[i]].prep = NewLease, ![pending[i]].prepLive = TRUE]
    BY DEF PrepareAnswers, kept
<1> QED
    BY <1>2, <1>3, <1>4, <1>5

\* A saved draft, and an appended role: one record changes.
LEMMA SavedRole ==
    ASSUME TypeOK, NEW c \in Callers, CommitPrepareSave(c), request[c].role \in Roles
    PROVE  /\ role' \in [Roles -> RoleRecords]
           /\ role'[request[c].role].known = role[request[c].role].known
           /\ ~role'[request[c].role].prepLive
           /\ \A r \in Roles \ {request[c].role} : role'[r] = role[r]
<1>1. PICK p \in Roles : p = request[c].role
    OBVIOUS
<1> DEFINE x == [role[p] EXCEPT !.draft = request[c].facts, !.prep = 0, !.prepLive = FALSE]
<1>2. role[p] \in RoleRecords /\ request[c].facts \in Profiles \cup {None} /\ 0 \in LeaseIds
    BY RequestTyped, SearchCoordinatorAssumption
    DEF TypeOK, Requests, LeaseIds, SearchCoordinatorAssumption
<1>3. x \in RoleRecords /\ x.known = role[p].known /\ x.prepLive = FALSE
    BY <1>2 DEF RoleRecords
<1>4. role' = [role EXCEPT ![p] = x]
    BY <1>1 DEF CommitPrepareSave
<1> HIDE DEF x
<1> QED
    BY <1>1, <1>3, <1>4 DEF TypeOK

LEMMA AppendedRole ==
    ASSUME TypeOK, NEW c \in Callers, CommitEnqueue(c), request[c].role \in Roles,
           ~role[request[c].role].known
    PROVE  /\ role' \in [Roles -> RoleRecords]
           /\ pending' = Append(pending, request[c].role)
           /\ role'[request[c].role].known /\ ~role'[request[c].role].prepLive
           /\ \A r \in Roles \ {request[c].role} : role'[r] = role[r]
<1>1. PICK p \in Roles : p = request[c].role
    OBVIOUS
<1>2. request[c].facts \in Profiles \cup {None} /\ 0 \in LeaseIds
    BY RequestTyped, SearchCoordinatorAssumption
    DEF TypeOK, Requests, LeaseIds, SearchCoordinatorAssumption
<1> DEFINE x == [known |-> TRUE, draft |-> request[c].facts, prep |-> 0, prepLive |-> FALSE]
<1>3. x \in RoleRecords /\ x.known = TRUE /\ x.prepLive = FALSE
    BY <1>2 DEF RoleRecords
<1>4. role' = [role EXCEPT ![p] = x] /\ pending' = Append(pending, p)
    BY <1>1 DEF CommitEnqueue
<1> HIDE DEF x
<1> QED
    BY <1>1, <1>3, <1>4 DEF TypeOK

----------------------------------------------------------------------------
(* What a step does to the queue, to preparations and to calls *)

QueueGoesOn ==
    /\ \A r \in Roles : role[r].known => role'[r].known
    /\ \/ pending' = pending
       \/ pending # <<>> /\ pending' = Tail(pending)
       \/ \E r \in Roles :
             /\ ~role[r].known
             /\ role'[r].known /\ ~role'[r].prepLive
             /\ pending' = Append(pending, r)

PreparationCarried ==
    /\ \A r \in Roles : role'[r].prepLive => role[r].prepLive /\ role'[r].prep = role[r].prep
    /\ \A r \in Roles : InQueue(r)' /\ role'[r].prepLive => MainStays

\* A pending role is given to a worker that prepares none.
PreparationGiven ==
    /\ MainStays /\ session.active
    /\ pending' = pending
    /\ \E i \in 1 .. Len(pending), w \in Workers :
          /\ Grant(pending[i], w, session.main)
          /\ \A j \in 1 .. Len(pending) : ~Prepares(pending[j], w, session.main)
          /\ role'[pending[i]].prep = NewLease
          /\ \A r \in Roles \ {pending[i]} :
                role'[r].prepLive => role[r].prepLive /\ role'[r].prep = role[r].prep

RolesStep == QueueGoesOn /\ (PreparationCarried \/ PreparationGiven)

CallsStep ==
    \A c \in Callers :
        LET q == request'[c]
        IN  /\ q.op # "none" => q.main \in Mains /\ q.worker \in Workers
            /\ q.op \in {"scan", "enqueue", "prepareSave"} => q.lease \in Given
            /\ q.op \in {"scan", "enqueue"} => granted[q.lease].of \in Sources
            /\ q.op \in {"enqueue", "prepareSave"} => q.role \in Roles

LEMMA RolesUntouched ==
    ASSUME UNCHANGED <<pending, role>>, MainStays
    PROVE  RolesStep
BY DEF RolesStep, QueueGoesOn, PreparationCarried

LEMMA CallsUntouched ==
    ASSUME SearchKept, UNCHANGED request
    PROVE  CallsStep
BY DEF SearchKept, CallsStep, Informed

LEMMA CallEnds ==
    ASSUME SearchKept, NEW c \in Callers, End(c)
    PROVE  CallsStep
<1>1. /\ request'[c] = NoRequest
      /\ \A d \in Callers \ {c} : request'[d] = request[d]
    BY DEF End, SearchKept, TypeOK
<1> QED
    BY <1>1 DEF SearchKept, CallsStep, Informed, NoRequest

LEMMA CallBegins ==
    ASSUME SearchKept, NEW c \in Callers, NEW q, request' = [request EXCEPT ![c] = q],
           q.op # "none" => q.main \in Mains /\ q.worker \in Workers,
           q.op \in {"scan", "enqueue", "prepareSave"} => q.lease \in Given,
           q.op \in {"scan", "enqueue"} => granted[q.lease].of \in Sources,
           q.op \in {"enqueue", "prepareSave"} => q.role \in Roles
    PROVE  CallsStep
<1>1. /\ request'[c] = q
      /\ \A d \in Callers \ {c} : request'[d] = request[d]
    BY DEF SearchKept, TypeOK
<1> QED
    BY <1>1 DEF SearchKept, CallsStep, Informed

StepKept == TypeOK' /\ SourcesStep /\ RolesStep /\ CallsStep

LEMMA OutsideKept ==
    ASSUME SearchKept, Outside
    PROVE  StepKept
<1> USE DEF SearchKept
<1>1. CASE Midnight
    <2>1. today' \in 0 .. MaxDay
        BY <1>1, SearchCoordinatorAssumption DEF Midnight, TypeOK, SearchCoordinatorAssumption
    <2>2. TypeOK'
        BY <1>1, <2>1 DEF Midnight, TypeOK
    <2> QED
        BY <1>1, <2>2, Untouched, RolesUntouched, CallsUntouched DEF StepKept, MainStays, Midnight
<1>2. CASE EditFacts
    <2>1. TypeOK'
        BY <1>2 DEF EditFacts, TypeOK
    <2> QED
        BY <1>2, <2>1, Untouched, RolesUntouched, CallsUntouched DEF StepKept, MainStays, EditFacts
<1>3. CASE MainTakes
    <2>1. TypeOK'
        BY <1>3 DEF MainTakes, TypeOK
    <2>2. RolesStep
        BY <1>3 DEF MainTakes, RolesStep, QueueGoesOn, PreparationCarried, MainStays
    <2> QED
        BY <1>3, <2>1, <2>2, Untouched, CallsUntouched DEF StepKept, MainTakes
<1>4. ASSUME NEW s \in Sources, LeaseExpires(s)
      PROVE  StepKept
    <2>1. source' \in [Sources -> SourceRecords]
        <3>1. PICK x \in SourceRecords : x = source[s]
            BY SourceTyped
        <3>2. PICK y : y = [x.lease EXCEPT !.live = FALSE]
            OBVIOUS
        <3>3. y \in Leases
            BY <3>1, <3>2 DEF SourceRecords, Leases
        <3>4. [x EXCEPT !.lease = y] \in SourceRecords
            BY <3>1, <3>3 DEF SourceRecords
        <3>5. source' = [source EXCEPT ![s] = [x EXCEPT !.lease = y]]
            BY <1>4, <3>1, <3>2 DEF LeaseExpires
        <3> QED
            BY <3>4, <3>5 DEF TypeOK
    <2>2. TypeOK'
        BY <1>4, <2>1 DEF LeaseExpires, TypeOK
    <2> QED
        BY <1>4, <2>2, ExpiryEffect, RolesUntouched, CallsUntouched
        DEF StepKept, MainStays, LeaseExpires
<1>5. ASSUME NEW r \in Roles, PreparationExpires(r)
      PROVE  StepKept
    <2>1. /\ role' \in [Roles -> RoleRecords]
          /\ \A t \in Roles : /\ role'[t].known = role[t].known
                              /\ role'[t].prepLive => role[t].prepLive /\ role'[t].prep = role[t].prep
        <3> DEFINE x == [role[r] EXCEPT !.prepLive = FALSE]
        <3>1. x \in RoleRecords /\ x.known = role[r].known /\ x.prepLive = FALSE
            BY DEF TypeOK, RoleRecords
        <3>2. role' = [role EXCEPT ![r] = x]
            BY <1>5 DEF PreparationExpires
        <3> HIDE DEF x
        <3> QED
            BY <3>1, <3>2 DEF TypeOK
    <2>2. TypeOK'
        BY <1>5, <2>1 DEF PreparationExpires, TypeOK
    <2>3. RolesStep
        BY <1>5, <2>1 DEF PreparationExpires, RolesStep, QueueGoesOn, PreparationCarried, MainStays
    <2> QED
        BY <1>5, <2>2, <2>3, Untouched, CallsUntouched DEF StepKept, PreparationExpires
<1>6. ASSUME NEW r \in Roles, OwnerAdds(r)
      PROVE  StepKept
    <2>1. /\ role' \in [Roles -> RoleRecords]
          /\ role'[r].known
          /\ \A t \in Roles : /\ role[t].known => role'[t].known
                              /\ role'[t].prepLive = role[t].prepLive
                              /\ role'[t].prep = role[t].prep
        <3> DEFINE x == [role[r] EXCEPT !.known = TRUE]
        <3>1. /\ x \in RoleRecords /\ x.known = TRUE
              /\ x.prepLive = role[r].prepLive /\ x.prep = role[r].prep
            BY DEF TypeOK, RoleRecords
        <3>2. role' = [role EXCEPT ![r] = x]
            BY <1>6 DEF OwnerAdds
        <3> HIDE DEF x
        <3> QED
            BY <3>1, <3>2 DEF TypeOK
    <2>2. TypeOK'
        BY <1>6, <2>1 DEF OwnerAdds, TypeOK
    <2>3. ~role[r].known /\ ~role[r].prepLive
        BY <1>6 DEF OwnerAdds, PreparationKept
    <2>4. RolesStep
        BY <1>6, <2>1, <2>3
        DEF OwnerAdds, RolesStep, QueueGoesOn, PreparationCarried, MainStays
    <2> QED
        BY <1>6, <2>2, <2>4, Untouched, CallsUntouched DEF StepKept, OwnerAdds
<1> QED
    BY <1>1, <1>2, <1>3, <1>4, <1>5, <1>6 DEF Outside


LEMMA MainCallKept ==
    ASSUME SearchKept, NEW m \in Mains, MainCall(m)
    PROVE  StepKept
<1>1. TypeOK
    BY DEF SearchKept
<1>2. CASE Start(m)
    <2>1. /\ session' \in Sessions
          /\ source' \in [Sources -> SourceRecords]
        BY <1>1, <1>2, ReadyTyped DEF Start, Sessions, Buffered, TypeOK
    <2>2. TypeOK'
        BY <1>1, <1>2, <2>1 DEF Start, TypeOK
    <2>3. RolesStep
        BY <1>2 DEF Start, SearchKept, PreparationKept, InQueue, RolesStep, QueueGoesOn,
                    PreparationCarried
    <2> QED
        BY <1>2, <2>2, <2>3, StartEffect, CallsUntouched DEF StepKept, Start
<1>3. CASE Look(m)
    <2>1. NoneGiven
        BY <1>3 DEF Look, NoneGiven
    <2>2. /\ SourcesStep /\ SessionGoesOn /\ source' \in [Sources -> SourceRecords]
        BY <1>3, <2>1, LookEffect DEF Look
    <2>3. TypeOK' /\ MainStays
        BY <1>1, <1>3, <2>2 DEF Look, TypeOK, SessionGoesOn, MainStays
    <2> QED
        BY <1>3, <2>2, <2>3, RolesUntouched, CallsUntouched DEF StepKept, Look
<1>4. CASE Stop(m)
    <2>1. /\ role' \in [Roles -> RoleRecords]
          /\ \A r \in Roles : /\ role[r].known => role'[r].known
                              /\ role'[r].prepLive => ~InQueue(r) /\ role'[r] = role[r]
        <3> SUFFICES ASSUME NEW r \in Roles
                     PROVE  /\ role'[r] \in RoleRecords
                            /\ role[r].known => role'[r].known
                            /\ role'[r].prepLive => ~InQueue(r) /\ role'[r] = role[r]
            BY <1>4 DEF Stop
        <3>1. role[r] \in RoleRecords /\ 0 \in LeaseIds
            BY <1>1, DroppedTyped, SearchCoordinatorAssumption
            DEF LeaseIds, SearchCoordinatorAssumption
        <3>2. CASE InQueue(r)
            <4>1. role'[r] = [role[r] EXCEPT !.prep = 0, !.prepLive = FALSE]
                BY <1>4, <3>2 DEF Stop
            <4> QED
                BY <3>1, <4>1 DEF RoleRecords
        <3>3. CASE ~InQueue(r)
            BY <1>4, <3>1, <3>3 DEF Stop
        <3> QED
            BY <3>2, <3>3
    <2>2. \A s \in Sources : source'[s] \in SourceRecords
        <3> SUFFICES ASSUME NEW s \in Sources PROVE source'[s] \in SourceRecords
            OBVIOUS
        <3>1. Refreshed(s) \in SourceRecords /\ source'[s] = [Refreshed(s) EXCEPT !.lease = NoLease]
            BY <1>1, <1>4, RefreshedFacts DEF Stop
        <3> QED
            BY <3>1, ReadyTyped DEF SourceRecords
    <2>3. source' \in [Sources -> SourceRecords]
        BY <1>4, <2>2 DEF Stop
    <2>4. session' \in Sessions
        BY <1>4, StopEffect
    <2>5. TypeOK'
        BY <1>1, <1>4, <2>1, <2>3, <2>4 DEF Stop, TypeOK
    <2>6. RolesStep
        BY <1>4, <2>1 DEF Stop, RolesStep, QueueGoesOn, PreparationCarried, InQueue
    <2> QED
        BY <1>4, <2>5, <2>6, StopEffect, CallsUntouched DEF StepKept, Stop
<1> QED
    BY <1>2, <1>3, <1>4 DEF MainCall

LEMMA WorkerCallKept ==
    ASSUME SearchKept, NEW m \in Mains, NEW w \in Workers, NEW s \in Sources, WorkerCall(m, w, s)
    PROVE  StepKept
<1>1. TypeOK
    BY DEF SearchKept
<1>2. CASE Claim(m, w, s)
    <2>1. /\ SourcesStep /\ SessionGoesOn
        BY <1>2, ClaimEffect
    <2>2. source' \in [Sources -> SourceRecords]
        <3> DEFINE given == [id |-> NewLease, worker |-> w, day |-> today, live |-> TRUE]
                   r == [Refreshed(s) EXCEPT !.lease = given]
        <3>1. NewLease \in LeaseIds /\ today \in 0 .. MaxDay
            BY <1>1, <1>2 DEF Claim, Grant, NewLease, LeaseIds, TypeOK
        <3>2. given \in Leases
            BY <3>1 DEF Leases
        <3> HIDE DEF given
        <3>3. r \in SourceRecords
            BY <1>1, <3>2, RefreshedFacts DEF SourceRecords
        <3>4. source' = [t \in Sources |-> IF t = s THEN r ELSE Refreshed(t)]
            BY <1>1, <1>2, LeaveOnly DEF Claim, given
        <3> HIDE DEF r
        <3> QED
            BY <1>1, <3>3, <3>4, RefreshedFacts
    <2>3. granted' \in Seq(Grants) /\ Len(granted') <= MaxLeases
        <3>1. today \in 0 .. MaxDay /\ granted \in Seq(Grants) /\ NewLease <= MaxLeases
            BY <1>1, <1>2 DEF TypeOK, Claim, Grant
        <3>2. [of |-> s, worker |-> w, main |-> m, day |-> today] \in Grants
            BY <3>1 DEF Grants
        <3> QED
            BY <1>2, <3>1, <3>2 DEF Claim, Grant, NewLease
    <2>4. TypeOK'
        BY <1>1, <1>2, <2>1, <2>2, <2>3 DEF Claim, TypeOK, SessionGoesOn
    <2> QED
        BY <1>2, <2>1, <2>4, RolesUntouched, CallsUntouched DEF StepKept, Claim, SessionGoesOn, MainStays
<1>3. ASSUME SourcesStep, SessionGoesOn, source' \in [Sources -> SourceRecords],
             UNCHANGED <<today, profile, pending, role, request, granted, delivered>>
      PROVE  StepKept
    <2>1. TypeOK'
        BY <1>1, <1>3 DEF TypeOK, SessionGoesOn
    <2> QED
        BY <1>3, <2>1, RolesUntouched, CallsUntouched DEF StepKept, SessionGoesOn, MainStays
<1>4. ASSUME NEW page \in Pages, NEW saved \in BOOLEAN, Progress(m, w, s, page, saved)
      PROVE  StepKept
    <2>1. SourcesStep /\ SessionGoesOn /\ source' \in [Sources -> SourceRecords]
        BY <1>4, ProgressEffect
    <2> QED
        BY <1>3, <1>4, <2>1 DEF Progress
<1>5. ASSUME NEW outcome \in Outcomes, Finish(m, w, s, outcome)
      PROVE  StepKept
    <2>1. SourcesStep /\ SessionGoesOn /\ source' \in [Sources -> SourceRecords]
        BY <1>5, FinishEffect
    <2> QED
        BY <1>3, <1>5, <2>1 DEF Finish
<1> QED
    BY <1>2, <1>4, <1>5 DEF WorkerCall

LEMMA ReadPhaseKept ==
    ASSUME SearchKept, NEW c \in Callers, ReadPhase(c)
    PROVE  StepKept
<1>1. TypeOK
    BY DEF SearchKept
<1>2. ASSUME UNCHANGED <<today, profile, session, source, pending, role, granted, delivered>>,
             request' \in [Callers -> Requests], CallsStep
      PROVE  StepKept
    <2>1. TypeOK'
        BY <1>1, <1>2 DEF TypeOK
    <2> QED
        BY <1>2, <2>1, Untouched, RolesUntouched DEF StepKept, MainStays
<1>3. ASSUME NEW m \in Mains, NEW w \in Workers, BeginPrepareClaim(c, m, w)
      PROVE  StepKept
    <2> DEFINE q == [NoRequest EXCEPT !.op = "prepareClaim", !.main = m, !.worker = w,
                                      !.facts = profile]
    <2>1. q.op = "prepareClaim" /\ q.main = m /\ q.worker = w
        BY DEF NoRequest
    <2>2. request' = [request EXCEPT ![c] = q]
        BY <1>3 DEF BeginPrepareClaim, Begin
    <2> HIDE DEF q
    <2>3. CallsStep
        BY <2>1, <2>2, CallBegins
    <2>4. request' \in [Callers -> Requests]
        BY <1>1, <1>3, BegunTyped
    <2> QED
        BY <1>2, <1>3, <2>3, <2>4 DEF BeginPrepareClaim, Begin
<1>4. ASSUME NEW s \in Sources, source[s].lease.id # 0
      PROVE  source[s].lease.id \in Given /\ granted[source[s].lease.id].of = s
    <2>1. LeaseGranted(s)
        BY DEF SearchKept
    <2>2. /\ source[s].lease.id \in Given
          /\ granted[source[s].lease.id] = [of |-> s, worker |-> source[s].lease.worker,
                                            main |-> session.main, day |-> source[s].lease.day]
        BY <1>4, <2>1 DEF LeaseGranted
    <2> QED
        BY <2>2
<1>5. ASSUME NEW m \in Mains, NEW w \in Workers, NEW s \in Sources, BeginScan(c, m, w, s)
      PROVE  StepKept
    <2> DEFINE q == [NoRequest EXCEPT !.op = "scan", !.main = m, !.worker = w,
                                      !.lease = source[s].lease.id]
    <2>1. q.op = "scan" /\ q.main = m /\ q.worker = w /\ q.lease = source[s].lease.id
        BY DEF NoRequest
    <2>2. q.lease \in Given /\ granted[q.lease].of \in Sources
        BY <1>4, <1>5, <2>1 DEF BeginScan, MaySearch, HoldsLease
    <2>3. request' = [request EXCEPT ![c] = q]
        BY <1>5 DEF BeginScan, Begin
    <2> HIDE DEF q
    <2>4. CallsStep
        BY <2>1, <2>2, <2>3, CallBegins
    <2>5. request' \in [Callers -> Requests]
        BY <1>1, <1>5, BegunTyped
    <2> QED
        BY <1>2, <1>5, <2>4, <2>5 DEF BeginScan, Begin
<1>6. ASSUME NEW m \in Mains, NEW w \in Workers, NEW s \in Sources, NEW r \in Roles,
             BeginEnqueue(c, m, w, s, r)
      PROVE  StepKept
    <2> DEFINE q == [NoRequest EXCEPT !.op = "enqueue", !.main = m, !.worker = w,
                                      !.lease = source[s].lease.id, !.role = r]
    <2>1. /\ q.op = "enqueue" /\ q.main = m /\ q.worker = w /\ q.lease = source[s].lease.id
          /\ q.role = r
        BY DEF NoRequest
    <2>2. q.lease \in Given /\ granted[q.lease].of \in Sources
        BY <1>4, <1>6, <2>1 DEF BeginEnqueue, MaySearch, HoldsLease
    <2>3. request' = [request EXCEPT ![c] = q]
        BY <1>6 DEF BeginEnqueue, Begin
    <2> HIDE DEF q
    <2>4. CallsStep
        BY <2>1, <2>2, <2>3, CallBegins
    <2>5. request' \in [Callers -> Requests]
        BY <1>1, <1>6, BegunTyped
    <2> QED
        BY <1>2, <1>6, <2>4, <2>5 DEF BeginEnqueue, Begin
<1>7. ASSUME NEW l \in Given, BeginPrepareSave(c, l)
      PROVE  StepKept
    <2> DEFINE q == [op |-> "prepareSave", main |-> granted[l].main, worker |-> granted[l].worker,
                     lease |-> l, role |-> granted[l].of, facts |-> profile]
    <2>1. granted[l] \in Grants
        BY <1>1 DEF TypeOK, Given
    <2>2. /\ q.op = "prepareSave" /\ q.main \in Mains /\ q.worker \in Workers
          /\ q.lease \in Given /\ q.role \in Roles
        BY <1>7, <2>1 DEF Grants, BeginPrepareSave
    <2>3. request' = [request EXCEPT ![c] = q]
        BY <1>7 DEF BeginPrepareSave, Begin
    <2> HIDE DEF q
    <2>4. CallsStep
        BY <2>2, <2>3, CallBegins
    <2>5. request' \in [Callers -> Requests]
        BY <1>1, <1>7, SaveBegunTyped
    <2> QED
        BY <1>2, <1>7, <2>4, <2>5 DEF BeginPrepareSave, Begin
<1>8. CASE ReadFacts(c)
    <2> DEFINE q == [request[c] EXCEPT !.facts = profile]
    <2>1. request[c] \in Requests /\ Informed(c)
        BY <1>1, RequestTyped DEF SearchKept
    <2>2. /\ q.op = request[c].op /\ q.main = request[c].main /\ q.worker = request[c].worker
          /\ q.lease = request[c].lease /\ q.role = request[c].role
        BY <2>1 DEF Requests
    <2>3. request' = [request EXCEPT ![c] = q]
        BY <1>8 DEF ReadFacts
    <2> HIDE DEF q
    <2>4. CallsStep
        BY <2>1, <2>2, <2>3, CallBegins DEF Informed
    <2>5. request' \in [Callers -> Requests]
        BY <1>1, <1>8, ReadTyped
    <2> QED
        BY <1>2, <1>8, <2>4, <2>5 DEF ReadFacts
<1> QED
    BY <1>3, <1>5, <1>6, <1>7, <1>8 DEF ReadPhase, Given


LEMMA CommitPhaseKept ==
    ASSUME SearchKept, NEW c \in Callers, CommitPhase(c)
    PROVE  StepKept
<1>1. TypeOK /\ Informed(c)
    BY DEF SearchKept
<1>2. End(c) => CallsStep /\ request' \in [Callers -> Requests]
    BY <1>1, CallEnds, RequestTyped
<1>3. CASE Refuse(c)
    <2>1. TypeOK'
        BY <1>1, <1>2, <1>3 DEF Refuse, TypeOK
    <2> QED
        BY <1>2, <1>3, <2>1, Untouched, RolesUntouched DEF StepKept, Refuse, MainStays
<1>4. CASE EndScan(c)
    <2>1. request[c].lease \in LeaseIds
        BY <1>1, RequestTyped DEF Requests
    <2>2. TypeOK'
        BY <1>1, <1>2, <1>4, <2>1 DEF EndScan, TypeOK
    <2> QED
        BY <1>2, <1>4, <2>2, Untouched, RolesUntouched DEF StepKept, EndScan, MainStays
<1>5. CASE CommitEnqueue(c)
    <2>1. request[c].role \in Roles
        BY <1>1, <1>5 DEF Informed, CommitEnqueue
    <2>2. SourcesStep /\ SessionGoesOn /\ source' \in [Sources -> SourceRecords]
        BY <1>5, EnqueueEffect
    <2>3. CASE role[request[c].role].known
        <3>1. UNCHANGED <<pending, role>>
            BY <1>5, <2>3 DEF CommitEnqueue
        <3>2. TypeOK'
            BY <1>1, <1>2, <1>5, <2>2, <3>1 DEF CommitEnqueue, TypeOK, SessionGoesOn
        <3> QED
            BY <1>2, <1>5, <2>2, <3>1, <3>2, RolesUntouched
            DEF StepKept, CommitEnqueue, MainStays, SessionGoesOn
    <2>4. CASE ~role[request[c].role].known
        <3>1. /\ role' \in [Roles -> RoleRecords]
              /\ pending' = Append(pending, request[c].role)
              /\ role'[request[c].role].known /\ ~role'[request[c].role].prepLive
              /\ \A r \in Roles \ {request[c].role} : role'[r] = role[r]
            BY <1>1, <1>5, <2>1, <2>4, AppendedRole
        <3>2. pending' \in Seq(Roles)
            BY <1>1, <2>1, <3>1 DEF TypeOK
        <3>3. TypeOK'
            BY <1>1, <1>2, <1>5, <2>2, <3>1, <3>2 DEF CommitEnqueue, TypeOK, SessionGoesOn
        <3>4. QueueGoesOn
            BY <2>1, <2>4, <3>1 DEF QueueGoesOn
        <3>5. PreparationCarried
            BY <2>2, <3>1 DEF PreparationCarried, SessionGoesOn, MainStays
        <3> QED
            BY <1>2, <1>5, <2>2, <3>3, <3>4, <3>5 DEF StepKept, CommitEnqueue, RolesStep
    <2> QED
        BY <2>3, <2>4
<1>6. CASE CommitPrepareClaim(c)
    <2>1. /\ SourcesStep /\ SessionGoesOn /\ source' \in [Sources -> SourceRecords]
          /\ NoneGiven
        BY <1>6, PrepareClaimEffect
    <2>2. PrepareAnswers(c)
        BY <1>6, PrepareAnswered
    <2>3. /\ role' \in [Roles -> RoleRecords]
          /\ \A r \in Roles : role'[r].known = role[r].known
        BY <1>1, <2>2, PrepareRoles
    <2>4. granted' \in Seq(Grants) /\ Len(granted') <= MaxLeases
        <3>1. CASE granted' = granted
            BY <1>1, <3>1 DEF TypeOK
        <3>2. CASE granted' # granted
            <4>1. PICK i \in 1 .. Len(pending) : Grant(pending[i], request[c].worker, request[c].main)
                BY <1>1, <2>2, <3>2, PrepareRoles
            <4>2. PICK g \in Grants : granted' = Append(granted, g)
                BY <2>1, <3>2 DEF NoneGiven
            <4> QED
                BY <1>1, <4>1, <4>2 DEF TypeOK, Grant, NewLease
        <3> QED
            BY <3>1, <3>2
    <2>5. TypeOK'
        BY <1>1, <1>2, <1>6, <2>1, <2>3, <2>4 DEF CommitPrepareClaim, TypeOK, SessionGoesOn
    <2>6. QueueGoesOn /\ MainStays /\ pending' = pending
        BY <1>6, <2>1, <2>3 DEF QueueGoesOn, CommitPrepareClaim, SessionGoesOn, MainStays
    <2>7. PreparationCarried \/ PreparationGiven
        <3>1. CASE \A r \in Roles : /\ role'[r].prepLive = role[r].prepLive
                                    /\ role[r].prepLive => role'[r].prep = role[r].prep
            BY <2>6, <3>1 DEF PreparationCarried
        <3>2. ASSUME NEW i \in 1 .. Len(pending),
                     Grant(pending[i], request[c].worker, request[c].main),
                     \A j \in 1 .. Len(pending) :
                         ~Prepares(pending[j], request[c].worker, request[c].main),
                     role'[pending[i]].prep = NewLease,
                     \A r \in Roles \ {pending[i]} :
                         /\ role'[r].prepLive = role[r].prepLive
                         /\ role[r].prepLive => role'[r].prep = role[r].prep
              PROVE  PreparationGiven
            <4>1. request[c].worker \in Workers /\ request[c].main = session.main /\ session.active
                BY <1>1, <1>6 DEF Informed, CommitPrepareClaim, Owns
            <4> QED
                BY <2>6, <3>2, <4>1 DEF PreparationGiven
        <3> QED
            BY <1>1, <2>2, <3>1, <3>2, PrepareRoles
    <2> QED
        BY <1>2, <1>6, <2>1, <2>5, <2>6, <2>7 DEF StepKept, RolesStep, CommitPrepareClaim
<1>7. CASE CommitPrepareSave(c)
    <2>1. request[c].role \in Roles
        BY <1>1, <1>7 DEF Informed, CommitPrepareSave
    <2>2. NoneGiven
        BY <1>7 DEF CommitPrepareSave, NoneGiven
    <2>3. SourcesStep /\ SessionGoesOn /\ source' \in [Sources -> SourceRecords]
        BY <1>7, <2>2, LookEffect DEF CommitPrepareSave
    <2>4. /\ role' \in [Roles -> RoleRecords]
          /\ role'[request[c].role].known = role[request[c].role].known
          /\ ~role'[request[c].role].prepLive
          /\ \A r \in Roles \ {request[c].role} : role'[r] = role[r]
        BY <1>1, <1>7, <2>1, SavedRole
    <2>5. TypeOK'
        BY <1>1, <1>2, <1>7, <2>3, <2>4 DEF CommitPrepareSave, TypeOK, SessionGoesOn
    <2>6. QueueGoesOn
        BY <1>7, <2>4 DEF QueueGoesOn, CommitPrepareSave
    <2>7. PreparationCarried
        BY <2>3, <2>4 DEF PreparationCarried, SessionGoesOn, MainStays
    <2> QED
        BY <1>2, <1>7, <2>3, <2>5, <2>6, <2>7 DEF StepKept, RolesStep, CommitPrepareSave
<1> QED
    BY <1>3, <1>4, <1>5, <1>6, <1>7 DEF CommitPhase

\* What every step of the specification does.
LEMMA EveryStep ==
    ASSUME SearchKept, [Next]_vars
    PROVE  StepKept
<1>1. CASE Next
    BY <1>1, OutsideKept, MainCallKept, WorkerCallKept, ReadPhaseKept, CommitPhaseKept DEF Next
<1>2. CASE UNCHANGED vars
    <2>1. TypeOK'
        BY <1>2 DEF vars, TypeOK, SearchKept
    <2> QED
        BY <1>2, <2>1, Untouched, RolesUntouched, CallsUntouched DEF StepKept, vars, MainStays
<1> QED
    BY <1>1, <1>2

----------------------------------------------------------------------------
(* The invariant is kept *)

\* Lease ids only grow, and keep what they were given for.
LEMMA GivenStays ==
    ASSUME SearchKept, StepKept
    PROVE  /\ granted \in Seq(Grants) /\ granted' \in Seq(Grants)
           /\ Given \subseteq Given'
           /\ \A l \in Given : granted'[l] = granted[l]
           /\ (\E s \in Sources, w \in Workers : ClaimedBy(s, w)) \/
                 \A l \in Given' \ Given : granted'[l].of \in Roles
<1>1. granted \in Seq(Grants) /\ granted' \in Seq(Grants)
    BY DEF SearchKept, StepKept, TypeOK
<1>2. CASE granted' = granted
    BY <1>1, <1>2 DEF Given
<1>3. ASSUME NEW g, granted' = Append(granted, g)
      PROVE  /\ Given \subseteq Given'
             /\ \A l \in Given : granted'[l] = granted[l]
             /\ \A l \in Given' \ Given : granted'[l] = g
    BY <1>1, <1>3 DEF Given
<1>4. \/ granted' = granted
      \/ \E s \in Sources, w \in Workers :
            ClaimedBy(s, w) /\ granted' = Append(granted, [of |-> s, worker |-> w,
                                                   main |-> session.main, day |-> today])
      \/ \E g \in Grants : g.of \in Roles /\ granted' = Append(granted, g)
    BY DEF StepKept, SourcesStep, Carried, Released, NoneGiven, ClaimedBy
<1> QED
    BY <1>1, <1>2, <1>3, <1>4


LEMMA LeasesKept ==
    ASSUME SearchKept, StepKept, NEW s \in Sources
    PROVE  LeaseGranted(s)'
<1>1. /\ granted \in Seq(Grants) /\ granted' \in Seq(Grants)
      /\ Given \subseteq Given'
      /\ \A l \in Given : granted'[l] = granted[l]
    BY GivenStays
<1>2. LeaseGranted(s) /\ source[s].lease.id \in Nat /\ s \notin Roles
    BY SourceTyped, SearchCoordinatorAssumption DEF SearchKept, SearchCoordinatorAssumption
<1>3. CASE source'[s].lease = NoLease
    BY <1>3 DEF LeaseGranted, NoLease
<1>4. ASSUME LeaseKept(s), MainStays, \A l \in Given' \ Given : granted'[l].of # s,
             source'[s].lease # NoLease
      PROVE  LeaseGranted(s)'
    <2>1. /\ source'[s].lease.id = source[s].lease.id
          /\ source'[s].lease.worker = source[s].lease.worker
          /\ source'[s].lease.day = source[s].lease.day
          /\ source'[s].lease.live => source[s].lease.live
        BY <1>4 DEF LeaseKept
    <2>2. ASSUME source'[s].lease.id # 0
          PROVE  /\ session'.active
                 /\ source'[s].lease.id \in Given'
                 /\ granted'[source'[s].lease.id] =
                       [of |-> s, worker |-> source'[s].lease.worker, main |-> session'.main,
                        day |-> source'[s].lease.day]
        BY <1>1, <1>2, <1>4, <2>1, <2>2 DEF LeaseGranted, MainStays
    <2>3. ASSUME source'[s].lease.live
          PROVE  /\ source'[s].lease.id # 0
                 /\ \A l \in Given' : l > source'[s].lease.id => granted'[l].of # s
        BY <1>1, <1>2, <1>4, <2>1, <2>3 DEF LeaseGranted
    <2> QED
        BY <2>2, <2>3 DEF LeaseGranted
<1>5. CASE Carried
    <2>1. \A l \in Given' \ Given : granted'[l].of \in Roles
        BY <1>1, <1>5 DEF Carried, NoneGiven, Given
    <2> QED
        BY <1>2, <1>3, <1>4, <1>5, <2>1 DEF Carried
<1>6. CASE Released
    BY <1>3, <1>6 DEF Released
<1>7. ASSUME NEW x \in Sources, NEW w \in Workers, ClaimedBy(x, w)
      PROVE  LeaseGranted(s)'
    <2>1. /\ Given' \ Given = {Len(granted) + 1}
          /\ Len(granted') = Len(granted) + 1 /\ Len(granted) \in Nat
          /\ granted'[Len(granted) + 1] = [of |-> x, worker |-> w, main |-> session.main, day |-> today]
        BY <1>1, <1>7 DEF ClaimedBy, Given
    <2>2. CASE x = s
        <3>1. /\ source'[s].lease.id = Len(granted) + 1
              /\ source'[s].lease.worker = w /\ source'[s].lease.day = today
              /\ session'.active /\ session'.main = session.main
            BY <1>7, <2>2 DEF ClaimedBy, MainStays
        <3>2. Len(granted) + 1 \in Given' /\ \A l \in Given' : ~(l > Len(granted) + 1)
            BY <2>1 DEF Given
        <3> QED
            BY <2>1, <2>2, <3>1, <3>2 DEF LeaseGranted
    <2>3. CASE x # s
        <3>1. LeaseKept(s) /\ MainStays
            BY <1>7, <2>3 DEF ClaimedBy
        <3>2. \A l \in Given' \ Given : granted'[l].of # s
            BY <2>1, <2>3
        <3> QED
            BY <1>3, <1>4, <3>1, <3>2
    <2> QED
        BY <2>2, <2>3
<1> QED
    BY <1>5, <1>6, <1>7 DEF StepKept, SourcesStep

LEMMA WorkersKept ==
    ASSUME SearchKept, StepKept, NEW s \in Sources, NEW t \in Sources
    PROVE  OneLease(s, t)'
<1>1. OneLease(s, t) /\ OneLease(t, s)
    BY DEF SearchKept
<1>2. NoLease.live = FALSE
    BY DEF NoLease
<1>3. CASE Carried
    BY <1>1, <1>2, <1>3 DEF Carried, LeaseKept, OneLease
<1>4. CASE Released
    BY <1>2, <1>4 DEF Released, OneLease
<1>5. ASSUME NEW x \in Sources, NEW w \in Workers, ClaimedBy(x, w)
      PROVE  OneLease(s, t)'
    <2>1. source'[x].lease.worker = w
        BY <1>5 DEF ClaimedBy
    <2>2. \A y \in Sources \ {x} : LeaseKept(y) /\ ~(source'[y].lease.live /\ source'[y].lease.worker = w)
        BY <1>5 DEF ClaimedBy
    <2>3. CASE s = x \/ t = x
        BY <2>1, <2>2, <2>3 DEF OneLease
    <2>4. CASE s # x /\ t # x
        BY <1>1, <1>2, <2>2, <2>4 DEF LeaseKept, OneLease
    <2> QED
        BY <2>3, <2>4
<1> QED
    BY <1>3, <1>4, <1>5 DEF StepKept, SourcesStep

LEMMA PassesKept ==
    ASSUME SearchKept, StepKept, NEW s \in Sources
    PROVE  PassRecorded(s)'
<1>1. PassRecorded(s) /\ LeaseGranted(s) /\ PassCarried(s)
    BY DEF SearchKept, StepKept, SourcesStep
<1>2. Given \subseteq Given' /\ \A l \in Given : granted'[l] = granted[l]
    BY GivenStays
<1>3. ASSUME NEW l \in {source'[s].cursor, source'[s].reason} \ {0}
      PROVE  /\ l \in Given'
             /\ granted'[l].of = s
             /\ granted'[l].day = session'.day
             /\ granted'[l].main = session'.main
    <2>1. CASE l \in {source[s].cursor, source[s].reason} /\ session'.day = session.day
        BY <1>1, <1>2, <1>3, <2>1 DEF PassRecorded, PassCarried
    <2>2. CASE l = source[s].lease.id /\ source[s].lease.day = session'.day
        <3>1. /\ l \in Given
              /\ granted[l] = [of |-> s, worker |-> source[s].lease.worker, main |-> session.main,
                               day |-> source[s].lease.day]
            BY <1>1, <1>3, <2>2 DEF LeaseGranted
        <3> QED
            BY <1>1, <1>2, <1>3, <2>2, <3>1 DEF PassCarried
    <2> QED
        BY <1>1, <1>3, <2>1, <2>2 DEF PassCarried
<1> QED
    BY <1>1, <1>3 DEF PassRecorded, PassCarried

LEMMA QueuePlaces ==
    ASSUME SearchKept, StepKept
    PROVE  /\ QueueKept'
           /\ \A r \in Roles : InQueue(r)' => InQueue(r) \/ ~role'[r].prepLive
<1>1. QueueGoesOn /\ QueueKept /\ pending \in Seq(Roles) /\ pending' \in Seq(Roles)
    BY DEF StepKept, RolesStep, SearchKept, TypeOK
<1>2. \A r \in Roles : role[r].known => role'[r].known
    BY <1>1 DEF QueueGoesOn
<1>3. CASE pending' = pending
    BY <1>1, <1>2, <1>3 DEF QueueKept, InQueue
<1>4. CASE pending # <<>> /\ pending' = Tail(pending)
    <2>1. /\ Len(pending') = Len(pending) - 1
          /\ \A i \in 1 .. Len(pending') : pending'[i] = pending[i + 1] /\ i + 1 \in 1 .. Len(pending)
        BY <1>1, <1>4
    <2>2. QueueKept'
        BY <1>1, <1>2, <2>1, SMTT(30) DEF QueueKept
    <2> QED
        BY <2>1, <2>2 DEF InQueue
<1>5. ASSUME NEW r \in Roles, ~role[r].known, role'[r].known, ~role'[r].prepLive,
             pending' = Append(pending, r)
      PROVE  /\ QueueKept'
             /\ \A t \in Roles : InQueue(t)' => InQueue(t) \/ ~role'[t].prepLive
    <2>1. /\ Len(pending') = Len(pending) + 1
          /\ pending'[Len(pending) + 1] = r
          /\ \A i \in 1 .. Len(pending) : pending'[i] = pending[i] /\ pending[i] # r
        BY <1>1, <1>5 DEF QueueKept
    <2>2. \A i \in 1 .. Len(pending') : i \in 1 .. Len(pending) \/ i = Len(pending) + 1
        BY <1>1, <2>1
    <2>3. QueueKept'
        BY <1>1, <1>2, <1>5, <2>1, <2>2 DEF QueueKept
    <2> QED
        BY <1>5, <2>1, <2>2, <2>3 DEF InQueue
<1> QED
    BY <1>1, <1>3, <1>4, <1>5 DEF QueueGoesOn

LEMMA PreparationsKept ==
    ASSUME SearchKept, StepKept
    PROVE  PreparationKept'
<1>1. /\ granted \in Seq(Grants) /\ granted' \in Seq(Grants)
      /\ Given \subseteq Given' /\ \A l \in Given : granted'[l] = granted[l]
    BY GivenStays
<1>2. /\ PreparationKept /\ QueueKept /\ RolesStep /\ pending \in Seq(Roles)
      /\ \A r \in Roles : role[r].known => role'[r].known
    BY DEF SearchKept, StepKept, RolesStep, QueueGoesOn, TypeOK
<1>3. \A r \in Roles : InQueue(r)' /\ role'[r].prepLive => InQueue(r)
    BY QueuePlaces
<1>4. CASE PreparationCarried
    <2>1. \A r \in Roles : role'[r].prepLive => role[r].prepLive /\ role'[r].prep = role[r].prep
        BY <1>4 DEF PreparationCarried
    <2>2. \A r \in Roles : role'[r].prepLive =>
              /\ role'[r].known
              /\ role'[r].prep \in Given
              /\ granted'[role'[r].prep] = granted[role[r].prep]
        BY <1>1, <1>2, <2>1 DEF PreparationKept
    <2>3. \A r \in Roles : InQueue(r)' /\ role'[r].prepLive =>
              session'.active /\ granted'[role'[r].prep].main = session'.main
        BY <1>2, <1>3, <1>4, <2>1, <2>2 DEF PreparationKept, PreparationCarried, MainStays
    <2>4. ASSUME NEW r \in Roles, NEW t \in Roles,
                 InQueue(r)' /\ role'[r].prepLive, InQueue(t)' /\ role'[t].prepLive,
                 granted'[role'[r].prep].worker = granted'[role'[t].prep].worker
          PROVE  r = t
        BY <1>2, <1>3, <2>1, <2>2, <2>4 DEF PreparationKept
    <2> QED
        BY <1>1, <2>2, <2>3, <2>4 DEF PreparationKept
<1>5. CASE PreparationGiven
    <2>1. PICK i \in 1 .. Len(pending), w \in Workers :
              /\ Grant(pending[i], w, session.main)
              /\ \A j \in 1 .. Len(pending) : ~Prepares(pending[j], w, session.main)
              /\ role'[pending[i]].prep = NewLease
              /\ \A r \in Roles \ {pending[i]} :
                    role'[r].prepLive => role[r].prepLive /\ role'[r].prep = role[r].prep
        BY <1>5 DEF PreparationGiven
    <2>2. PICK p \in Roles : p = pending[i]
        BY <1>2
    <2>3. /\ role'[p].known /\ InQueue(p)
          /\ NewLease \in Given' /\ role'[p].prep = NewLease
          /\ granted'[NewLease].worker = w /\ granted'[NewLease].main = session.main
        BY <1>1, <1>2, <2>1, <2>2 DEF QueueKept, InQueue, Grant, NewLease, Given
    <2>4. \A r \in Roles \ {p} : role'[r].prepLive =>
              /\ role[r].prepLive /\ role'[r].prep = role[r].prep
              /\ role'[r].known /\ role'[r].prep \in Given
              /\ granted'[role'[r].prep] = granted[role[r].prep]
        BY <1>1, <1>2, <2>1, <2>2 DEF PreparationKept
    <2>5. session'.active /\ session'.main = session.main
        BY <1>5 DEF PreparationGiven, MainStays
    <2>6. ASSUME NEW r \in Roles \ {p}, InQueue(r)' /\ role'[r].prepLive
          PROVE  /\ granted'[role'[r].prep].main = session'.main
                 /\ granted'[role'[r].prep].worker # w
        <3>1. InQueue(r) /\ role[r].prepLive
            BY <1>3, <2>4, <2>6
        <3>2. granted[role[r].prep].main = session.main /\ ~Prepares(r, w, session.main)
            BY <1>2, <2>1, <3>1 DEF PreparationKept, InQueue
        <3> QED
            BY <2>4, <2>5, <2>6, <3>1, <3>2 DEF Prepares
    <2>7. ASSUME NEW r \in Roles, NEW t \in Roles,
                 InQueue(r)' /\ role'[r].prepLive, InQueue(t)' /\ role'[t].prepLive,
                 granted'[role'[r].prep].worker = granted'[role'[t].prep].worker
          PROVE  r = t
        <3>1. CASE r = p \/ t = p
            BY <2>3, <2>6, <2>7, <3>1
        <3>2. CASE r # p /\ t # p
            BY <1>2, <1>3, <2>4, <2>7, <3>2 DEF PreparationKept
        <3> QED
            BY <3>1, <3>2
    <2> QED
        BY <1>1, <2>3, <2>4, <2>5, <2>6, <2>7 DEF PreparationKept
<1> QED
    BY <1>2, <1>4, <1>5 DEF RolesStep

LEMMA SearchStep ==
    ASSUME SearchKept, [Next]_vars
    PROVE  SearchKept' /\ StepKept
<1>1. StepKept
    BY EveryStep
<1>2. \A c \in Callers : Informed(c)'
    BY <1>1, GivenStays DEF StepKept, CallsStep, Informed
<1> QED
    BY <1>1, <1>2, LeasesKept, WorkersKept, PassesKept, QueuePlaces, PreparationsKept
    DEF SearchKept, StepKept

LEMMA SearchStart ==
    ASSUME Init
    PROVE  SearchKept
<1>1. TypeOK
    <2>1. 0 \in 0 .. MaxDay /\ 0 \in LeaseIds
        BY SearchCoordinatorAssumption DEF LeaseIds, SearchCoordinatorAssumption
    <2>2. [main |-> None, active |-> FALSE, day |-> 0, refilling |-> FALSE] \in Sessions
        BY <2>1 DEF Sessions
    <2>3. Unknown \in RoleRecords
        BY <2>1 DEF Unknown, RoleRecords
    <2>4. NoRequest \in Requests
        BY <2>1 DEF NoRequest, Requests
    <2>5. granted \in Seq(Grants) /\ Len(granted) <= MaxLeases /\ pending \in Seq(Roles)
        BY SearchCoordinatorAssumption DEF Init, SearchCoordinatorAssumption
    <2> QED
        BY <2>1, <2>2, <2>3, <2>4, <2>5, ReadyTyped DEF Init, TypeOK
<1>2. pending = <<>> /\ Len(pending) = 0
    BY DEF Init
<1>3. \A s \in Sources : LeaseGranted(s) /\ PassRecorded(s)
    BY DEF Init, Ready, NoLease, LeaseGranted, PassRecorded
<1>4. \A s, t \in Sources : OneLease(s, t)
    BY DEF Init, Ready, NoLease, OneLease
<1>5. QueueKept
    BY <1>2 DEF QueueKept
<1>6. PreparationKept
    BY DEF Init, Unknown, PreparationKept
<1>7. \A c \in Callers : Informed(c)
    BY DEF Init, NoRequest, Informed
<1> QED
    BY <1>1, <1>3, <1>4, <1>5, <1>6, <1>7 DEF SearchKept


\* A call changes only by its own steps.
LEMMA OwnSteps ==
    ASSUME SearchKept, Next, NEW c \in Callers, request'[c] # request[c]
    PROVE  ReadPhase(c) \/ CommitPhase(c)
<1>1. ~Outside
    BY DEF Outside, Midnight, EditFacts, MainTakes, LeaseExpires, PreparationExpires, OwnerAdds
<1>2. ASSUME NEW m \in Mains
      PROVE  ~MainCall(m) /\ \A w \in Workers, s \in Sources : ~WorkerCall(m, w, s)
    BY DEF MainCall, Start, Look, Stop, WorkerCall, Claim, Progress, Finish
<1>3. ASSUME NEW d \in Callers, ReadPhase(d) \/ CommitPhase(d)
      PROVE  \E q : request' = [request EXCEPT ![d] = q]
    <2>1. CASE ReadPhase(d)
        BY <2>1, SMTT(30), ZenonT(40)
        DEF ReadPhase, BeginPrepareClaim, BeginScan, BeginEnqueue, BeginPrepareSave,
                    ReadFacts, Begin
    <2>2. CASE CommitPhase(d)
        BY <2>2 DEF CommitPhase, EndScan, CommitEnqueue, CommitPrepareClaim, CommitPrepareSave,
                    Refuse, End
    <2> QED
        BY <1>3, <2>1, <2>2
<1>4. \A d \in Callers : ReadPhase(d) \/ CommitPhase(d) => d = c
    BY <1>3 DEF SearchKept, TypeOK
<1> QED
    BY <1>1, <1>2, <1>4 DEF Next

LEMMA AppendsByEnqueue ==
    ASSUME SearchKept, Next, NEW c \in Callers, Appends(c)
    PROVE  CommitEnqueue(c) /\ ~role[request[c].role].known
<1>1. ReadPhase(c) \/ CommitPhase(c)
    BY OwnSteps DEF Appends
<1>2. pending' # pending
    BY DEF Appends, SearchKept, TypeOK
<1>3. ~ReadPhase(c)
    BY <1>2, SMTT(30), ZenonT(40)
    DEF ReadPhase, BeginPrepareClaim, BeginScan, BeginEnqueue, BeginPrepareSave, ReadFacts,
                Begin
<1>4. ~(EndScan(c) \/ CommitPrepareClaim(c) \/ CommitPrepareSave(c) \/ Refuse(c))
    BY <1>2 DEF EndScan, CommitPrepareClaim, CommitPrepareSave, Refuse
<1> QED
    BY <1>1, <1>2, <1>3, <1>4 DEF CommitPhase, CommitEnqueue

LEMMA DeliversByScan ==
    ASSUME SearchKept, Next, NEW c \in Callers, Delivers(c)
    PROVE  EndScan(c)
<1>1. ReadPhase(c) \/ CommitPhase(c)
    BY OwnSteps DEF Delivers
<1>2. delivered' # delivered
    BY DEF Delivers
<1>3. ~ReadPhase(c)
    BY <1>2, SMTT(30), ZenonT(40)
    DEF ReadPhase, BeginPrepareClaim, BeginScan, BeginEnqueue, BeginPrepareSave, ReadFacts,
                Begin
<1>4. ~(CommitEnqueue(c) \/ CommitPrepareClaim(c) \/ CommitPrepareSave(c) \/ Refuse(c))
    BY <1>2 DEF CommitEnqueue, CommitPrepareClaim, CommitPrepareSave, Refuse
<1> QED
    BY <1>1, <1>3, <1>4 DEF CommitPhase

LEMMA Fenced ==
    ASSUME SearchKept, NEW c \in Callers, request[c].op \in {"scan", "enqueue"},
           MaySearch(request[c].main, request[c].worker, granted[request[c].lease].of, request[c].lease)
    PROVE  LET q == request[c]
           IN  /\ session.active
               /\ session.main = q.main
               /\ \A l \in (q.lease + 1) .. Len(granted) : granted[l].of # granted[q.lease].of
<1>1. PICK l \in Given : l = request[c].lease
    BY DEF SearchKept, Informed
<1>2. PICK s \in Sources : s = granted[l].of
    BY <1>1 DEF SearchKept, Informed
<1>3. /\ session.active /\ session.main = request[c].main
      /\ source[s].lease.live /\ source[s].lease.id = l
    BY <1>1, <1>2 DEF MaySearch, Owns, HoldsLease
<1>4. \A k \in Given : k > l => granted[k].of # s
    BY <1>2, <1>3, ZenonT(40) DEF SearchKept, LeaseGranted
<1>5. \A k \in (l + 1) .. Len(granted) : k \in Given /\ k > l
    BY <1>1 DEF SearchKept, TypeOK, Given
<1> QED
    BY <1>1, <1>2, <1>3, <1>4, <1>5

\* A refill cycle begins only at the low watermark.
LEMMA CyclesBegin ==
    ASSUME SearchKept, Next
    PROVE  ~session.refilling /\ session'.refilling => Len(pending) <= LowWatermark
<1>1. CycleGoesOn => (~session.refilling /\ session'.refilling => Len(pending) <= LowWatermark)
    BY DEF CycleGoesOn
<1>2. CASE session' = session
    BY <1>2
<1>3. ASSUME NEW m \in Mains, MainCall(m)
      PROVE  CycleGoesOn
    <2>1. CASE Start(m)
        BY <2>1 DEF Start, CycleGoesOn, Buffered
    <2>2. CASE Look(m)
        BY <2>2, LeaveSame DEF Look, SearchKept
    <2>3. CASE Stop(m)
        <3>1. session \in Sessions
            BY DEF SearchKept, TypeOK
        <3>2. session'.refilling = Buffered(Len(pending), session.refilling)
            BY <2>3, <3>1 DEF Stop, SessionWith, Sessions
        <3> QED
            BY <3>2 DEF CycleGoesOn, Buffered
    <2> QED
        BY <1>3, <2>1, <2>2, <2>3 DEF MainCall
<1>4. ASSUME NEW m \in Mains, NEW w \in Workers, NEW s \in Sources, WorkerCall(m, w, s)
      PROVE  CycleGoesOn
    BY <1>4, ClaimEffect, ProgressEffect, FinishEffect DEF WorkerCall
<1>5. ASSUME NEW c \in Callers, CommitPhase(c), session' # session
      PROVE  CycleGoesOn
    <2>1. CASE CommitPrepareSave(c)
        BY <2>1, LeaveSame DEF CommitPrepareSave, SearchKept
    <2> QED
        BY <1>5, <2>1, EnqueueEffect, PrepareClaimEffect DEF CommitPhase, EndScan, Refuse
<1>6. Outside => session' = session
    BY DEF Outside, Midnight, EditFacts, MainTakes, LeaseExpires, PreparationExpires, OwnerAdds
<1>7. ASSUME NEW c \in Callers, ReadPhase(c)
      PROVE  session' = session
    BY <1>7, ZenonT(40)
    DEF ReadPhase, BeginPrepareClaim, BeginScan, BeginEnqueue, BeginPrepareSave, ReadFacts,
                Begin
<1> QED
    BY <1>1, <1>2, <1>3, <1>4, <1>5, <1>6, <1>7 DEF Next

LEMMA DraftsStay ==
    ASSUME SearchKept, Next, NEW r \in Roles, role[r].known, ~InQueue(r)
    PROVE  role'[r].draft = role[r].draft
<1>1. TypeOK /\ role[r] \in RoleRecords
    BY DroppedTyped DEF SearchKept
<1>2. CASE role' = role
    BY <1>2
<1>3. ASSUME Outside, role' # role
      PROVE  role'[r].draft = role[r].draft
    <2>1. ASSUME NEW t \in Roles, PreparationExpires(t)
          PROVE  role'[r].draft = role[r].draft
        <3>1. CASE t = r
            <4>1. role'[r] = [role[r] EXCEPT !.prepLive = FALSE]
                BY <1>1, <2>1, <3>1 DEF PreparationExpires, TypeOK
            <4> QED
                BY <1>1, <4>1 DEF RoleRecords
        <3>2. CASE t # r
            BY <1>1, <2>1, <3>2 DEF PreparationExpires, TypeOK
        <3> QED
            BY <3>1, <3>2
    <2>2. ASSUME NEW t \in Roles, OwnerAdds(t)
          PROVE  role'[r].draft = role[r].draft
        BY <1>1, <2>2 DEF OwnerAdds, TypeOK
    <2> QED
        BY <1>3, <2>1, <2>2 DEF Outside, Midnight, EditFacts, MainTakes, LeaseExpires
<1>4. ASSUME NEW m \in Mains, MainCall(m), role' # role
      PROVE  role'[r].draft = role[r].draft
    <2>1. Stop(m)
        BY <1>4 DEF MainCall, Start, Look
    <2> QED
        BY <2>1 DEF Stop
<1>5. ASSUME NEW m \in Mains, NEW w \in Workers, NEW s \in Sources, WorkerCall(m, w, s)
      PROVE  role' = role
    BY <1>5 DEF WorkerCall, Claim, Progress, Finish
<1>6. ASSUME NEW c \in Callers, ReadPhase(c)
      PROVE  role' = role
    BY <1>6, ZenonT(40)
    DEF ReadPhase, BeginPrepareClaim, BeginScan, BeginEnqueue, BeginPrepareSave, ReadFacts,
                Begin
<1>7. ASSUME NEW c \in Callers, CommitPhase(c), role' # role
      PROVE  role'[r].draft = role[r].draft
    <2>1. Informed(c)
        BY DEF SearchKept
    <2>2. CASE CommitEnqueue(c)
        <3>1. request[c].role \in Roles /\ ~role[request[c].role].known
            BY <1>7, <2>1, <2>2 DEF Informed, CommitEnqueue
        <3> QED
            BY <1>1, <2>2, <3>1, AppendedRole
    <2>3. CASE CommitPrepareClaim(c)
        BY <1>1, <2>3, PrepareAnswered, PrepareRoles
    <2>4. CASE CommitPrepareSave(c)
        <3>1. request[c].role \in Roles /\ InQueue(request[c].role)
            BY <2>1, <2>4 DEF Informed, CommitPrepareSave
        <3> QED
            BY <1>1, <2>4, <3>1, SavedRole
    <2> QED
        BY <1>7, <2>2, <2>3, <2>4 DEF CommitPhase, EndScan, Refuse
<1> QED
    BY <1>2, <1>3, <1>4, <1>5, <1>6, <1>7 DEF Next


----------------------------------------------------------------------------
(* Theorems *)

\* Every state has its types, and every live lease, every reported pass and every
\* preparation was given by the search that is running.
THEOREM SearchIsKept == Spec => []SearchKept
<1>1. SearchKept /\ [Next]_vars => SearchKept'
    BY SearchStep
<1> QED
    BY SearchStart, <1>1, PTL DEF Spec

\* A worker never holds live leases of two sources.
THEOREM WorkersDoNotOverlap == Spec => []OneLeasePerWorker
<1>1. SearchKept => OneLeasePerWorker
    BY DEF SearchKept, OneLease, OneLeasePerWorker
<1> QED
    BY <1>1, SearchIsKept, PTL

\* The cursor and the outcome of a source were reported by a worker of this search,
\* for this source, on the day of the pass.
THEOREM PassesAreOfTheirDay == Spec => []TodaysPass
<1>1. SearchKept => TodaysPass
    BY DEF SearchKept, PassRecorded, TodaysPass
<1> QED
    BY <1>1, SearchIsKept, PTL

\* A live preparation of a pending role is of the running search, and no worker has
\* two of them.
THEOREM PreparationsAreOfTheSearch == Spec => []PreparationLeases
<1>1. SearchKept => PreparationLeases
    <2> SUFFICES ASSUME SearchKept, NEW i \in 1 .. Len(pending), NEW j \in 1 .. Len(pending)
                 PROVE  LET p == role[pending[i]] q == role[pending[j]]
                        IN  /\ p.prepLive => session.active /\ granted[p.prep].main = session.main
                            /\ /\ p.prepLive /\ q.prepLive
                               /\ granted[p.prep].worker = granted[q.prep].worker
                               => i = j
        BY DEF PreparationLeases
    <2>1. PICK r \in Roles, t \in Roles : r = pending[i] /\ t = pending[j]
        BY DEF SearchKept, TypeOK
    <2>2. InQueue(r) /\ InQueue(t) /\ (r = t => i = j)
        BY <2>1 DEF InQueue, SearchKept, QueueKept
    <2>3. /\ role[r].prepLive => session.active /\ granted[role[r].prep].main = session.main
          /\ /\ role[r].prepLive /\ role[t].prepLive
             /\ granted[role[r].prep].worker = granted[role[t].prep].worker
             => r = t
        BY <2>2 DEF SearchKept, PreparationKept
    <2> QED
        BY <2>1, <2>2, <2>3
<1> QED
    BY <1>1, SearchIsKept, PTL

\* A source is given away only after its lease was released or has expired.
THEOREM SourcesDoNotOverlap == Spec => NoOverlap
<1>1. SearchKept /\ [Next]_vars =>
          [\A l \in (Len(granted) + 1) .. Len(granted') :
              LET of == granted'[l].of
              IN  of \in Sources => ~source[of].lease.live]_vars
    <2> SUFFICES ASSUME SearchKept, [Next]_vars,
                        NEW l \in (Len(granted) + 1) .. Len(granted'), granted'[l].of \in Sources
                 PROVE  ~source[granted'[l].of].lease.live
        OBVIOUS
    <2>1. StepKept
        BY SearchStep
    <2>2. /\ granted \in Seq(Grants) /\ granted' \in Seq(Grants)
          /\ (\E s \in Sources, w \in Workers : ClaimedBy(s, w)) \/
                 \A k \in Given' \ Given : granted'[k].of \in Roles
        BY <2>1, GivenStays
    <2>3. l \in Given' \ Given
        BY <2>2 DEF Given
    <2>4. granted'[l].of \notin Roles
        BY SearchCoordinatorAssumption DEF SearchCoordinatorAssumption
    <2>5. PICK s \in Sources, w \in Workers : ClaimedBy(s, w)
        BY <2>2, <2>3, <2>4
    <2>6. granted'[l].of = s
        BY <2>2, <2>3, <2>5 DEF ClaimedBy, Given
    <2> QED
        BY <2>5, <2>6 DEF ClaimedBy
<1> QED
    BY <1>1, SearchIsKept, PTL DEF Spec, NoOverlap

\* A scan hands over its result, and an enqueue appends its role, only under a lease
\* after which nobody was given the source, in the search that gave it.
THEOREM StaleWorkersStop == Spec => StaleWorkersAreFenced
<1>1. SearchKept /\ [Next]_vars =>
          [\A c \in Callers : Appends(c) \/ Delivers(c) =>
              LET q == request[c]
              IN  /\ session.active
                  /\ session.main = q.main
                  /\ \A l \in (q.lease + 1) .. Len(granted) :
                        granted[l].of # granted[q.lease].of]_vars
    <2> SUFFICES ASSUME SearchKept, Next, NEW c \in Callers, Appends(c) \/ Delivers(c)
                 PROVE  LET q == request[c]
                        IN  /\ session.active
                            /\ session.main = q.main
                            /\ \A l \in (q.lease + 1) .. Len(granted) :
                                  granted[l].of # granted[q.lease].of
        OBVIOUS
    <2>1. CASE Appends(c)
        BY <2>1, AppendsByEnqueue, Fenced DEF CommitEnqueue
    <2>2. CASE Delivers(c)
        BY <2>2, DeliversByScan, Fenced DEF EndScan
    <2> QED
        BY <2>1, <2>2
<1> QED
    BY <1>1, SearchIsKept, PTL DEF Spec, StaleWorkersAreFenced

\* Workers append only within a refill cycle and never beyond the high watermark; a
\* cycle begins only at the low one.
THEOREM RefillsAreBounded == Spec => RefillCycles
<1>1. SearchKept /\ [Next]_vars =>
          [/\ \A c \in Callers : Appends(c) =>
                 /\ Len(pending') <= HighWatermark
                 /\ session.refilling \/ Len(pending) <= LowWatermark
           /\ ~session.refilling /\ session'.refilling => Len(pending) <= LowWatermark]_vars
    <2> SUFFICES ASSUME SearchKept, Next
                 PROVE  /\ \A c \in Callers : Appends(c) =>
                              /\ Len(pending') <= HighWatermark
                              /\ session.refilling \/ Len(pending) <= LowWatermark
                        /\ ~session.refilling /\ session'.refilling => Len(pending) <= LowWatermark
        OBVIOUS
    <2>1. ASSUME NEW c \in Callers, Appends(c)
          PROVE  /\ Len(pending') <= HighWatermark
                 /\ session.refilling \/ Len(pending) <= LowWatermark
        <3>1. CommitEnqueue(c) /\ ~role[request[c].role].known
            BY <2>1, AppendsByEnqueue
        <3>2. SearchAllowed /\ pending' = Append(pending, request[c].role)
            BY <3>1 DEF CommitEnqueue, MaySearch
        <3>3. pending \in Seq(Roles) /\ HighWatermark \in Nat
            BY SearchCoordinatorAssumption DEF SearchKept, TypeOK, SearchCoordinatorAssumption
        <3>4. Len(pending') = Len(pending) + 1 /\ Len(pending) \in Nat
            BY <3>2, <3>3
        <3> QED
            BY <3>2, <3>3, <3>4 DEF SearchAllowed, Buffered
    <2> QED
        BY <2>1, CyclesBegin
<1> QED
    BY <1>1, SearchIsKept, PTL DEF Spec, RefillCycles

\* The draft of a role that has left the queue is not replaced.
THEOREM TakenDraftsStay == Spec => TakenDraftsAreKept
<1>1. SearchKept /\ [Next]_vars =>
          [\A r \in Roles : role[r].known /\ ~InQueue(r) => role'[r].draft = role[r].draft]_vars
    BY DraftsStay
<1> QED
    BY <1>1, SearchIsKept, PTL DEF Spec, TakenDraftsAreKept
=============================================================================
