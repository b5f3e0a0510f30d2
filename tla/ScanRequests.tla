---------------------------- MODULE ScanRequests ----------------------------
(***************************************************************************)
(* The requests of discovery scans (src/discovery/service.js scan, and     *)
(* learned-boards.js).  The adapters of one scan run side by side and      *)
(* share its budgets and its cache; requests to one employer platform      *)
(* queue up, pace themselves and stop once it answers 403 or 429.  Then    *)
(* listings are verified one after the other.  A board the system learned  *)
(* of itself may be listed only so often a day over all scans, which the   *)
(* transaction that records the request checks.                            *)
(*                                                                         *)
(* A fetch is one call of an adapter or of a verification; whether and     *)
(* when an adapter makes it is up to the adapter.  Left out: what answers  *)
(* say, the length of the pace, the ledger of a keyed provider, which may  *)
(* refuse (SourceQuota), and the check of the employer's page a keyed      *)
(* listing names, which comes last and neither queues nor has a source.    *)
(***************************************************************************)
EXTENDS Naturals, FiniteSets

CONSTANTS
    Scans,         \* scans, of one process or several
    Fetches,       \* the calls a scan may make
    CallsOf,       \* [Scans -> SUBSET Fetches]: those of its sources
    Verifying,     \* those that verify a listing, after all the others
    Paced,         \* those to employer platforms
    Keyed,         \* those to keyed providers
    UrlOf,         \* [Fetches -> URLs]
    OriginOf,      \* [URLs -> platforms and providers]
    BoardOf,       \* [URLs -> boards, or None]
    SourceOf,      \* [Fetches -> sources]
    Learned,       \* the boards learned from verified roles
    MaxRequests, MaxRequestsPerSource,
    DailyLists,    \* MAX_LEARNED_BOARD_REQUESTS_PER_DAY
    None

Urls == {UrlOf[f] : f \in Fetches}
Origins == {OriginOf[u] : u \in Urls}
Boards == {BoardOf[u] : u \in Urls} \ {None}
Sources == {SourceOf[f] : f \in Fetches}
Origin(f) == OriginOf[UrlOf[f]]
Board(f) == BoardOf[UrlOf[f]]

ASSUME RequestAssumption ==
    /\ IsFiniteSet(Fetches) /\ CallsOf \in [Scans -> SUBSET Fetches]
    /\ Paced \subseteq Fetches /\ Verifying \subseteq Paced /\ Keyed \subseteq Fetches \ Paced
    /\ Learned \subseteq Boards
    /\ MaxRequests \in Nat \ {0} /\ MaxRequestsPerSource \in Nat \ {0} /\ DailyLists \in Nat \ {0}
    /\ None \notin Fetches \cup Scans

(* The adapters of employer platforms and verification fetch URLs of those *)
(* platforms, no other adapter does.                                       *)
ASSUME PlatformAssumption ==
    \A f \in Paced, g \in Fetches : UrlOf[f] = UrlOf[g] => g \in Paced

VARIABLES
    backoff,   \* boards under a recorded back-off
    log,       \* by learned board: the list requests recorded in the last day
    scan,      \* phase, plan, budgets and blocked platforms of each scan
    task,      \* the fetches of each scan
    cache,     \* fetchCache: by URL, the fetch whose answer callers share
    tail,      \* pacedOriginQueues: by platform, the last fetch in line
    sent,      \* history: the requests each scan sent
    listed     \* history: by learned board, the lists of the last day sent

vars == <<backoff, log, scan, task, cache, tail, sent, listed>>

NewTask == [pc |-> "new", on |-> None, tries |-> 1]
NewScan == [pc |-> "idle", plan |-> {}, count |-> 0, by |-> [i \in Sources |-> 0],
            blocked |-> {}, todo |-> {}]

(* A fetch waits for one before it in line, or for one it shares with;     *)
(* from its claim on it holds a slot of the budget.                        *)
Waiting == {"queued", "joined", "pacing"}
Claiming == {"reserving", "granted", "ledger"}
Ended == {"ok", "restricted", "failed"}
Running == Waiting \cup Claiming \cup {"sent"}

Init ==
    /\ backoff = {}
    /\ log = [b \in Learned |-> {}]
    /\ scan = [s \in Scans |-> NewScan]
    /\ task = [s \in Scans |-> [f \in Fetches |-> NewTask]]
    /\ cache = [s \in Scans |-> [u \in Urls |-> None]]
    /\ tail = [s \in Scans |-> [o \in Origins |-> None]]
    /\ sent = [s \in Scans |-> {}]
    /\ listed = [b \in Learned |-> {}]

-----------------------------------------------------------------------------
(* The plan of a scan *)

(* isLearnedBoardRequest: a list made for the board's own source. *)
ListsLearned(f) == f \notin Verifying /\ Board(f) \in Learned

(* sourceConfigWithLearnedBoards: the snapshot leaves out boards under     *)
(* back-off, and learned ones that used their day.  Which boards the roles *)
(* of the last month, receipts and the owner's seeds make learned, and the *)
(* rotation when there are more than a scan takes, is in Learned and       *)
(* CallsOf.                                                                *)
Planned(s) ==
    {f \in CallsOf[s] :
        /\ Board(f) \notin backoff
        /\ ListsLearned(f) => Cardinality(log[Board(f)]) < DailyLists}

ScanBegins(s) ==
    /\ scan[s].pc = "idle"
    /\ scan' = [scan EXCEPT ![s] = [NewScan EXCEPT !.pc = "fetching", !.plan = Planned(s)]]
    /\ UNCHANGED <<backoff, log, task, cache, tail, sent, listed>>

-----------------------------------------------------------------------------
(* One fetch *)

Request(s, f) == <<s, f, task[s][f].tries>>

(* Defect: only an answer lets the next in line go. *)
FreesLineOnAnswer(result) == result # "failed"

(* A predecessor's failure is not its successors'. *)
FreesLine(result) == result \in Ended

(* A fetch settles with all that share it, and the next in line may go.    *)
(* What was not answered leaves the cache.                                 *)
Settle(s, f, result) ==
    LET shares == {g \in Fetches : g = f \/ (task[s][g].pc = "joined" /\ task[s][g].on = f)}
    IN  /\ task' = [task EXCEPT ![s] =
             [g \in Fetches |->
                IF g \in shares THEN [task[s][g] EXCEPT !.pc = result, !.on = None]
                ELSE [task[s][g] EXCEPT !.on = IF @ = f /\ FreesLine(result) THEN None ELSE @]]]
        /\ cache' = [cache EXCEPT ![s][UrlOf[f]] = IF @ = f /\ result = "failed" THEN None ELSE @]
        /\ tail' = [tail EXCEPT ![s][Origin(f)] = IF @ = f /\ FreesLine(result) THEN None ELSE @]

Moves(s, f, pc) == task' = [task EXCEPT ![s][f].pc = pc]
Joins(s, f, g) == task' = [task EXCEPT ![s][f].pc = "joined", ![s][f].on = g]

Exhausted(s, f) ==
    \/ scan[s].count >= MaxRequests
    \/ scan[s].by[SourceOf[f]] >= MaxRequestsPerSource

ClaimSlot(s, f) == scan' = [scan EXCEPT ![s].count = @ + 1, ![s].by[SourceOf[f]] = @ + 1]
ReturnSlot(s, f) == scan' = [scan EXCEPT ![s].count = @ - 1, ![s].by[SourceOf[f]] = @ - 1]

Sends(s, f) ==
    /\ Moves(s, f, "sent")
    /\ cache' = [cache EXCEPT ![s][UrlOf[f]] = f]
    /\ sent' = [sent EXCEPT ![s] = @ \cup {Request(s, f)}]

(* cachedFetch: share an answer, one on its way or one already here, or    *)
(* claim a slot before anything is waited for.                             *)
CachedFetch(s, f) ==
    LET g == cache[s][UrlOf[f]]
    IN  \/ /\ g # None /\ task[s][g].pc \in Ended
           /\ Settle(s, f, task[s][g].pc)
           /\ UNCHANGED <<scan, sent>>
        \/ /\ g # None /\ task[s][g].pc \notin Ended
           /\ Joins(s, f, g)
           /\ UNCHANGED <<scan, cache, tail, sent>>
        \/ /\ g = None /\ Exhausted(s, f)
           /\ Settle(s, f, "failed")
           /\ UNCHANGED <<scan, sent>>
        \/ /\ g = None /\ ~Exhausted(s, f)
           /\ ClaimSlot(s, f)
           /\ UNCHANGED tail
           /\ \/ ListsLearned(f) /\ Moves(s, f, "reserving") /\ UNCHANGED <<cache, sent>>
              \/ /\ f \in Keyed
                 /\ Moves(s, f, "ledger")
                 /\ cache' = [cache EXCEPT ![s][UrlOf[f]] = f]
                 /\ UNCHANGED sent
              \/ ~ListsLearned(f) /\ f \notin Keyed /\ Sends(s, f)

(* Verification comes after the adapters, one listing at a time. *)
MayCall(s, f) ==
    /\ f \in scan[s].plan /\ task[s][f].pc = "new"
    /\ IF f \in Verifying
       THEN /\ scan[s].pc = "verifying" /\ scan[s].todo = {}
            /\ \A g \in Fetches : task[s][g].pc \notin Running
       ELSE scan[s].pc = "fetching"

(* A call that neither queues nor finds a queued one for its URL. *)
CallDirectly(s, f) ==
    /\ MayCall(s, f)
    /\ f \notin Paced \/ cache[s][UrlOf[f]] # None
    /\ CachedFetch(s, f)
    /\ UNCHANGED <<backoff, log, listed>>

(* pacedOfficialFetch: one line for each platform, one place in it for     *)
(* each URL.                                                               *)
CallPaced(s, f) ==
    /\ MayCall(s, f)
    /\ f \in Paced /\ cache[s][UrlOf[f]] = None
    /\ LET pending == {g \in Paced : UrlOf[g] = UrlOf[f] /\ task[s][g].pc \in Running \ {"joined"}}
       IN  IF pending # {}
           THEN /\ \E g \in pending : Joins(s, f, g)
                /\ UNCHANGED tail
           ELSE /\ task' = [task EXCEPT ![s][f].pc = "queued", ![s][f].on = tail[s][Origin(f)]]
                /\ tail' = [tail EXCEPT ![s][Origin(f)] = f]
    /\ UNCHANGED <<backoff, log, scan, cache, sent, listed>>

(* Defect: a blocked platform is not looked up. *)
NeverBlocked(s, f) == FALSE

Blocked(s, f) == Origin(f) \in scan[s].blocked

(* Its turn comes when the one before it has settled. *)
Turn(s, f) ==
    /\ task[s][f].pc = "queued" /\ task[s][f].on = None
    /\ IF Blocked(s, f) THEN Settle(s, f, "failed")
       ELSE Moves(s, f, "pacing") /\ UNCHANGED <<cache, tail>>
    /\ UNCHANGED <<backoff, log, scan, sent, listed>>

Pace(s, f) ==
    /\ task[s][f].pc = "pacing"
    /\ CachedFetch(s, f)
    /\ UNCHANGED <<backoff, log, listed>>

(* Defect: the snapshot's count, which the plan has checked, is enough. *)
DayUsedAtPlan(f) == FALSE

DayUsed(f) == Cardinality(log[Board(f)]) >= DailyLists

(* The transaction that counts the board's day and records the request.    *)
(* It may fail; whoever does not get to send returns the slot.             *)
Reserve(s, f) ==
    /\ task[s][f].pc = "reserving"
    /\ \/ /\ ~DayUsed(f)
          /\ log' = [log EXCEPT ![Board(f)] = @ \cup {Request(s, f)}]
          /\ Moves(s, f, "granted")
          /\ UNCHANGED <<scan, cache, tail>>
       \/ /\ ReturnSlot(s, f)
          /\ Settle(s, f, "failed")
          /\ UNCHANGED log
    /\ UNCHANGED <<backoff, sent, listed>>

Send(s, f) ==
    /\ task[s][f].pc = "granted"
    /\ Sends(s, f)
    /\ listed' = [listed EXCEPT ![Board(f)] = @ \cup {Request(s, f)}]
    /\ UNCHANGED <<backoff, log, scan, tail>>

(* Defect: a refused request keeps its slot. *)
KeepSlot(s, f) == UNCHANGED scan

(* keyedFetch: a request the ledger refuses was never sent. *)
ReturnRefused(s, f) == ReturnSlot(s, f)

AskLedger(s, f) ==
    /\ task[s][f].pc = "ledger"
    /\ \/ Sends(s, f) /\ UNCHANGED <<scan, tail>>
       \/ ReturnRefused(s, f) /\ Settle(s, f, "failed") /\ UNCHANGED sent
    /\ UNCHANGED <<backoff, log, listed>>

(* An answer, a 403 or 429, or none before the time is up.  Boards that    *)
(* refuse are noted for a back-off.                                        *)
Answer(s, f) ==
    /\ task[s][f].pc = "sent"
    /\ \E result \in Ended :
        /\ Settle(s, f, result)
        /\ scan' = IF result # "restricted" THEN scan ELSE
             [scan EXCEPT ![s].blocked = IF f \in Paced THEN @ \cup {Origin(f)} ELSE @,
                          ![s].todo = IF Board(f) # None THEN @ \cup {Board(f)} ELSE @]
    /\ UNCHANGED <<backoff, log, sent, listed>>

(* A verification that got no answer is tried a second time. *)
TryAgain(s, f) ==
    /\ f \in Verifying /\ scan[s].pc = "verifying"
    /\ task[s][f].pc = "failed" /\ task[s][f].tries = 1
    /\ task' = [task EXCEPT ![s][f] = [NewTask EXCEPT !.tries = 2]]
    /\ UNCHANGED <<backoff, log, scan, cache, tail, sent, listed>>

-----------------------------------------------------------------------------
(* The end of a scan's phases *)

Quiet(s) == \A f \in Fetches : task[s][f].pc \notin Running

AdaptersReturn(s) ==
    /\ Quiet(s) /\ scan[s].pc = "fetching"
    /\ scan' = [scan EXCEPT ![s].pc = "recording"]
    /\ UNCHANGED <<backoff, log, task, cache, tail, sent, listed>>

VerificationBegins(s) ==
    /\ scan[s].pc = "recording" /\ scan[s].todo = {}
    /\ scan' = [scan EXCEPT ![s].pc = "verifying"]
    /\ UNCHANGED <<backoff, log, task, cache, tail, sent, listed>>

(* What a scan kept in memory goes with it. *)
ScanEnds(s) ==
    /\ Quiet(s) /\ scan[s].pc = "verifying" /\ scan[s].todo = {}
    /\ scan' = [scan EXCEPT ![s] = [NewScan EXCEPT !.pc = "done"]]
    /\ task' = [task EXCEPT ![s] = [f \in Fetches |-> NewTask]]
    /\ cache' = [cache EXCEPT ![s] = [u \in Urls |-> None]]
    /\ tail' = [tail EXCEPT ![s] = [o \in Origins |-> None]]
    /\ sent' = [sent EXCEPT ![s] = {}]
    /\ UNCHANGED <<backoff, log, listed>>

(* #recordAtsBackoff, unless one is active.  Verification passes over what  *)
(* the snapshot or verification itself put under back-off.                 *)
RecordBackoff(s) ==
    /\ scan[s].pc \in {"recording", "verifying"}
    /\ \E b \in scan[s].todo :
        /\ backoff' = backoff \cup {b}
        /\ scan' = [scan EXCEPT
             ![s].todo = @ \ {b},
             ![s].plan = IF scan[s].pc = "recording" THEN @
                         ELSE @ \ {f \in Verifying : Board(f) = b}]
    /\ UNCHANGED <<log, task, cache, tail, sent, listed>>

(* A day has passed for a request, or six hours for a back-off. *)
TimePasses ==
    /\ \/ \E b \in Learned : \E e \in log[b] :
            /\ \A s \in Scans, f \in Fetches : task[s][f].pc = "granted" => Request(s, f) # e
            /\ log' = [log EXCEPT ![b] = @ \ {e}]
            /\ listed' = [listed EXCEPT ![b] = @ \ {e}]
            /\ UNCHANGED backoff
       \/ \E b \in backoff : backoff' = backoff \ {b} /\ UNCHANGED <<log, listed>>
    /\ UNCHANGED <<scan, task, cache, tail, sent>>

FetchSteps(s, f) ==
    Turn(s, f) \/ Pace(s, f) \/ Reserve(s, f) \/ Send(s, f) \/ AskLedger(s, f) \/ Answer(s, f)

Next ==
    \/ \E s \in Scans : ScanBegins(s) \/ AdaptersReturn(s) \/ RecordBackoff(s)
                       \/ VerificationBegins(s) \/ ScanEnds(s)
    \/ \E s \in Scans, f \in Fetches :
         CallDirectly(s, f) \/ CallPaced(s, f) \/ FetchSteps(s, f) \/ TryAgain(s, f)
    \/ TimePasses

(* Requests carry a deadline, timers fire and transactions come back, so a *)
(* scan with a fetch that can go on does, and one whose calls are over too. *)
(* As a fetch has few steps, the others do not keep one waiting for long.  *)
Fairness ==
    /\ \A s \in Scans : WF_vars(\E f \in CallsOf[s] : FetchSteps(s, f))
    /\ \A s \in Scans :
        WF_vars(AdaptersReturn(s) \/ RecordBackoff(s) \/ VerificationBegins(s) \/ ScanEnds(s))

Spec == Init /\ [][Next]_vars /\ Fairness

-----------------------------------------------------------------------------
(* Properties *)

Requests == Scans \X Fetches \X {1, 2}

Tasks == [pc : Running \cup Ended \cup {"new"}, on : Fetches \cup {None}, tries : {1, 2}]

ScanRecords ==
    [pc : {"idle", "fetching", "recording", "verifying", "done"}, plan : SUBSET Fetches,
     count : Nat, by : [Sources -> Nat], blocked : SUBSET Origins, todo : SUBSET Boards]

(* A scan's budgets, line and cache name fetches of its own. *)
TypeOK ==
    /\ backoff \subseteq Boards
    /\ log \in [Learned -> SUBSET Requests]
    /\ scan \in [Scans -> ScanRecords]
    /\ task \in [Scans -> [Fetches -> Tasks]]
    /\ cache \in [Scans -> [Urls -> Fetches \cup {None}]]
    /\ tail \in [Scans -> [Origins -> Fetches \cup {None}]]
    /\ sent \in [Scans -> SUBSET Requests]
    /\ listed \in [Learned -> SUBSET Requests]

(* The count a scan is held to, and reports as requests made, is of what   *)
(* it sent and what holds a slot while it waits to be sent: refusals and   *)
(* failures on the way give the slot back, once, and fetches side by side  *)
(* never take the last one together.  (cachedFetch, keyedFetch)            *)
RequestsAreCounted ==
    \A s \in Scans :
        LET held == {f \in Fetches : task[s][f].pc \in Claiming}
            Of(i) == Cardinality({f \in held : SourceOf[f] = i})
                     + Cardinality({q \in sent[s] : SourceOf[q[2]] = i})
        IN  /\ scan[s].count = Cardinality(sent[s]) + Cardinality(held)
            /\ scan[s].count <= MaxRequests
            /\ \A i \in Sources : scan[s].by[i] = Of(i) /\ Of(i) <= MaxRequestsPerSource

(* A learned board gets no more list requests in a day than it may, over   *)
(* all scans, and each was recorded before it left.                        *)
(* (docs/discovery.md:186)                                                 *)
LearnedBoardDaily ==
    \A b \in Learned : listed[b] \subseteq log[b] /\ Cardinality(listed[b]) <= DailyLists

(* Once a platform has refused one of a scan's queued requests, no other   *)
(* leaves for it.  (pacedOfficialFetch, docs/discovery.md:186)             *)
BlockedOriginStops ==
    [][\A s \in Scans : \A f, g \in Paced :
        task[s][g].pc = "restricted" /\ Origin(g) = Origin(f) /\ task[s][f].pc # "sent"
            => task'[s][f].pc # "sent"]_vars

(* A scan that begins comes to its end, whatever fails on the way: nobody  *)
(* waits in line, or for somebody else's answer, for ever.                 *)
EveryScanEnds == <>[](\A s \in Scans : scan[s].pc \in {"idle", "done"})
=============================================================================
