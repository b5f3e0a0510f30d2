-------------------------- MODULE IdempotentRequests --------------------------
(***************************************************************************)
(* Requests of HTTP clients, with or without an Idempotency-Key, on server *)
(* processes that share one SQLite database: src/idempotency.js over the   *)
(* transactions of src/sqlite-store.js, and the start of a process         *)
(* (src/storage.js).                                                       *)
(*                                                                         *)
(* mutate() reads the state and its revision in one transaction, runs the  *)
(* handler, and writes in another only if the revision is still the same;  *)
(* within a process mutations queue up.  A process may die between any two *)
(* of these steps; a transaction may fail on a busy database.              *)
(*                                                                         *)
(* The data is abstracted to two records: "work", which counts how often   *)
(* each request has been executed, and "legacy", the JSON import.          *)
(***************************************************************************)
EXTENDS Naturals, Sequences, FiniteSets

CONSTANTS
    Procs,        \* server processes
    Reqs,         \* requests, each delivered at most once
    KeyOf,        \* the Idempotency-Key of a request, or NoKey
    PayloadOf,    \* its request data
    MaxRetries,   \* runs of a handler before mutate() gives up (20 in the code)
    MaxCrashes,   \* bound: processes that die
    NoKey, None

Keys == {KeyOf[r] : r \in Reqs} \ {NoKey}

(* A reservation of a key, and what became of it. *)
Records == [payload : {PayloadOf[r] : r \in Reqs}, status : {"pending", "completed"},
            response : Reqs \cup {None}]

ASSUME RequestAssumption ==
    /\ MaxRetries \in Nat \ {0} /\ MaxCrashes \in Nat
    /\ None \notin Procs \cup Reqs \cup Records

VARIABLES
    rows,      \* the shared records: [work, legacy]
    revision,  \* runtime_metadata.state_revision
    marker,    \* the legacy import is marked as done
    file,      \* the legacy JSON file: "none", "valid" or "invalid"
    record,    \* idempotency_records by key: None or [payload, status, response]
    up,        \* the processes that run
    chain,     \* #pending of each process: its mutations in order
    req,       \* the requests
    crashes,   \* how many processes have died
    lost       \* history: keys of executions whose completion could not be written

vars == <<rows, revision, marker, file, record, up, chain, req, crashes, lost>>

NoWork == [r \in Reqs |-> 0]

NewReq == [pc |-> "new", proc |-> None, rev |-> 0, read |-> None, retries |-> 0,
           owner |-> None, response |-> None]

(* A request executes from its reservation to its completion or abort. *)
Executing == {"queued", "ran", "executed", "failing"}

Ended == {"done", "conflict", "retry", "expired", "failed", "lost"}

Rows == [work : [Reqs -> Nat], legacy : BOOLEAN]

Requests ==
    [pc : {"new", "sharing", "polling"} \cup Executing \cup Ended, proc : Procs \cup {None},
     rev : Nat, read : Rows \cup {None}, retries : 0..(MaxRetries - 1),
     owner : Reqs \cup {None}, response : Reqs \cup {None}]

EndedReq(pc, response) == [NewReq EXCEPT !.pc = pc, !.response = response]

Init ==
    /\ rows = [work |-> NoWork, legacy |-> FALSE]
    /\ revision = 0
    /\ marker = FALSE
    /\ file \in {"none", "valid", "invalid"}
    /\ record = [k \in Keys |-> None]
    /\ up = {}
    /\ chain = [p \in Procs |-> <<>>]
    /\ req = [r \in Reqs |-> NewReq]
    /\ crashes = 0
    /\ lost = {}

-----------------------------------------------------------------------------
(* The database *)

(* #writeState writes the records that differ from what was read. *)
WriteState(draft, original) ==
    [work |-> IF draft.work # original.work THEN draft.work ELSE rows.work,
     legacy |-> IF draft.legacy # original.legacy THEN draft.legacy ELSE rows.legacy]

Imported == [work |-> NoWork, legacy |-> TRUE]

(* importLegacyState: once, and only into an empty database (or over its   *)
(* own result).                                                            *)
ImportLegacy ==
    /\ ~marker
    /\ rows \in {[work |-> NoWork, legacy |-> FALSE], Imported}
    /\ marker' = TRUE
    /\ rows' = Imported

(* Defect: a process that starts frees the keys its predecessor held. *)
StartFreesKeys(p) ==
    /\ p \notin up /\ file # "invalid"
    /\ IF file = "none" \/ marker THEN UNCHANGED <<rows, marker>> ELSE ImportLegacy
    /\ up' = up \cup {p}
    /\ record' = [k \in Keys |-> IF record[k] # None /\ record[k].status = "pending"
                                THEN None ELSE record[k]]
    /\ UNCHANGED <<revision, file, chain, req, crashes, lost>>

(* initializeStore: a file that is invalid, or differs from what the       *)
(* database holds, keeps the process down.                                 *)
Start(p) ==
    /\ p \notin up /\ file # "invalid"
    /\ IF file = "none" \/ marker THEN UNCHANGED <<rows, marker>> ELSE ImportLegacy
    /\ up' = up \cup {p}
    /\ UNCHANGED <<revision, file, record, chain, req, crashes, lost>>

(* The owner puts the JSON file in place, or repairs it. *)
PlaceFile ==
    /\ file # "valid"
    /\ file' = "valid"
    /\ UNCHANGED <<rows, revision, marker, record, up, chain, req, crashes, lost>>

(* A process dies: its queue, its map of active requests and its answers   *)
(* are lost, its reservations are not.                                     *)
Crash(p) ==
    /\ p \in up /\ crashes < MaxCrashes
    /\ up' = up \ {p}
    /\ crashes' = crashes + 1
    /\ chain' = [chain EXCEPT ![p] = <<>>]
    /\ req' = [r \in Reqs |-> IF req[r].proc = p /\ req[r].pc \notin Ended
                              THEN EndedReq("lost", None) ELSE req[r]]
    /\ UNCHANGED <<rows, revision, marker, file, record, lost>>

-----------------------------------------------------------------------------
(* runIdempotent *)

(* activeRequests: the request of this process that executes under a key. *)
Active(p, k) == {q \in Reqs : req[q].proc = p /\ KeyOf[q] = k /\ req[q].pc \in Executing}

Executes(r, p) ==
    /\ req' = [req EXCEPT ![r] = [@ EXCEPT !.pc = "queued", !.proc = p]]
    /\ chain' = [chain EXCEPT ![p] = Append(@, r)]

Answered(r, pc, response) ==
    /\ req' = [req EXCEPT ![r] = EndedReq(pc, response)]
    /\ UNCHANGED chain

Waits(r, p) ==
    /\ req' = [req EXCEPT ![r] = [@ EXCEPT !.pc = "polling", !.proc = p]]
    /\ UNCHANGED chain

(* A request without a key is executed as it is. *)
ArriveUnkeyed(r, p) ==
    /\ req[r].pc = "new" /\ p \in up /\ KeyOf[r] = NoKey
    /\ Executes(r, p)
    /\ UNCHANGED <<rows, revision, marker, file, record, up, crashes, lost>>

(* Defect: the key is reserved again whatever its record says. *)
ReserveAgain(r, p) ==
    /\ req[r].pc = "new" /\ p \in up /\ KeyOf[r] # NoKey
    /\ record' = [record EXCEPT ![KeyOf[r]] =
                    [payload |-> PayloadOf[r], status |-> "pending", response |-> None]]
    /\ Executes(r, p)
    /\ UNCHANGED <<rows, revision, marker, file, up, crashes, lost>>

(* Defect: the payload of a completed record is not compared. *)
ReserveAnyPayload(r, p) ==
    /\ req[r].pc = "new" /\ p \in up /\ KeyOf[r] # NoKey
    /\ LET k == KeyOf[r] IN
        \/ /\ record[k] = None
           /\ record' = [record EXCEPT ![k] =
                            [payload |-> PayloadOf[r], status |-> "pending", response |-> None]]
           /\ Executes(r, p)
        \/ /\ record[k] # None
           /\ UNCHANGED record
           /\ IF record[k].status = "completed" THEN Answered(r, "done", record[k].response)
              ELSE IF record[k].payload # PayloadOf[r] THEN Answered(r, "conflict", None)
              ELSE Waits(r, p)
    /\ UNCHANGED <<rows, revision, marker, file, up, crashes, lost>>

(* The first request under a key reserves it and executes; another payload *)
(* conflicts; a repeated request gets the stored answer, shares the        *)
(* execution of its own process, or polls for that of another.             *)
ArriveKeyed(r, p) ==
    /\ req[r].pc = "new" /\ p \in up /\ KeyOf[r] # NoKey
    /\ LET k == KeyOf[r] IN
        \/ /\ record[k] = None
           /\ record' = [record EXCEPT ![k] =
                            [payload |-> PayloadOf[r], status |-> "pending", response |-> None]]
           /\ Executes(r, p)
        \/ /\ record[k] # None
           /\ UNCHANGED record
           /\ IF record[k].payload # PayloadOf[r] THEN Answered(r, "conflict", None)
              ELSE IF record[k].status = "completed" THEN Answered(r, "done", record[k].response)
              ELSE IF Active(p, k) = {} THEN Waits(r, p)
              ELSE /\ \E q \in Active(p, k) :
                        req' = [req EXCEPT ![r] = [@ EXCEPT !.pc = "sharing", !.proc = p, !.owner = q]]
                   /\ UNCHANGED chain
    /\ UNCHANGED <<rows, revision, marker, file, up, crashes, lost>>

-----------------------------------------------------------------------------
(* mutate *)

Leaves(r) == chain' = [chain EXCEPT ![req[r].proc] = Tail(@)]

(* The head of the queue reads the state and its revision. *)
Read(r) ==
    /\ req[r].pc = "queued" /\ Head(chain[req[r].proc]) = r
    /\ req' = [req EXCEPT ![r] = [@ EXCEPT !.pc = "ran", !.rev = revision, !.read = rows]]
    /\ UNCHANGED <<rows, revision, marker, file, record, up, chain, crashes, lost>>

(* The handler's draft. *)
Draft(r) == [req[r].read EXCEPT !.work[r] = @ + 1]

(* A handler that committed has its answer; without a key that is all. *)
Committed(r) ==
    req' = [req EXCEPT ![r] = IF KeyOf[r] = NoKey THEN EndedReq("done", r)
                              ELSE [NewReq EXCEPT !.pc = "executed", !.proc = req[r].proc]]

(* Defect: the revision is not compared. *)
CommitUnchecked(r) ==
    /\ req[r].pc = "ran"
    /\ rows' = WriteState(Draft(r), req[r].read)
    /\ revision' = revision + 1
    /\ Committed(r)
    /\ Leaves(r)
    /\ UNCHANGED <<marker, file, record, up, crashes, lost>>

(* The write, if nothing was committed since the read. *)
Commit(r) ==
    /\ req[r].pc = "ran" /\ req[r].rev = revision
    /\ rows' = WriteState(Draft(r), req[r].read)
    /\ revision' = revision + 1
    /\ Committed(r)
    /\ Leaves(r)
    /\ UNCHANGED <<marker, file, record, up, crashes, lost>>

(* Defect: a handler runs again however often it has lost the race. *)
RerunForever(r) ==
    /\ req[r].pc = "ran" /\ req[r].rev # revision
    /\ req' = [req EXCEPT ![r] = [@ EXCEPT !.pc = "queued", !.retries = req[r].retries + 1,
                                           !.rev = 0, !.read = None]]
    /\ UNCHANGED <<rows, revision, marker, file, record, up, chain, crashes, lost>>

(* Otherwise the handler runs again, up to MaxRetries times. *)
Rerun(r) ==
    /\ req[r].pc = "ran" /\ req[r].rev # revision /\ req[r].retries + 1 < MaxRetries
    /\ req' = [req EXCEPT ![r] = [@ EXCEPT !.pc = "queued", !.retries = req[r].retries + 1,
                                           !.rev = 0, !.read = None]]
    /\ UNCHANGED <<rows, revision, marker, file, record, up, chain, crashes, lost>>

Failed(r) ==
    req' = [req EXCEPT ![r] = IF KeyOf[r] = NoKey THEN EndedReq("failed", None)
                              ELSE [NewReq EXCEPT !.pc = "failing", !.proc = req[r].proc]]

(* The handler throws, the database is busy, or the state changed too      *)
(* frequently: nothing of the draft remains.                               *)
MutationFails(r) ==
    /\ req[r].pc = "ran"
    /\ Failed(r)
    /\ Leaves(r)
    /\ UNCHANGED <<rows, revision, marker, file, record, up, crashes, lost>>

-----------------------------------------------------------------------------
(* The end of an execution *)

(* Those who share the promise are answered with it. *)
Settles(r, pc, response) ==
    req' = [q \in Reqs |-> IF q = r \/ (req[q].pc = "sharing" /\ req[q].owner = r)
                           THEN EndedReq(pc, response) ELSE req[q]]

Reserved(r) ==
    /\ record[KeyOf[r]] # None
    /\ record[KeyOf[r]].status = "pending"
    /\ record[KeyOf[r]].payload = PayloadOf[r]

(* completeIdempotency, before anybody is answered. *)
Complete(r) ==
    /\ req[r].pc = "executed" /\ Reserved(r)
    /\ record' = [record EXCEPT ![KeyOf[r]] = [@ EXCEPT !.status = "completed", !.response = r]]
    /\ Settles(r, "done", r)
    /\ UNCHANGED <<rows, revision, marker, file, up, chain, crashes, lost>>

(* The completion cannot be written: the execution counts as failed. *)
CompletionFails(r) ==
    /\ req[r].pc = "executed"
    /\ req' = [req EXCEPT ![r] = [@ EXCEPT !.pc = "failing"]]
    /\ lost' = lost \cup {KeyOf[r]}
    /\ UNCHANGED <<rows, revision, marker, file, record, up, chain, crashes>>

(* abortIdempotency frees the key for a retry. *)
Abort(r) ==
    /\ req[r].pc = "failing"
    /\ record' = IF Reserved(r) THEN [record EXCEPT ![KeyOf[r]] = None] ELSE record
    /\ Settles(r, "failed", None)
    /\ UNCHANGED <<rows, revision, marker, file, up, chain, crashes, lost>>

(* An abort that fails is ignored: the key stays reserved. *)
AbortFails(r) ==
    /\ req[r].pc = "failing"
    /\ Settles(r, "failed", None)
    /\ UNCHANGED <<rows, revision, marker, file, record, up, chain, crashes, lost>>

(* waitForCompletion, each 25 ms. *)
Poll(r) ==
    /\ req[r].pc = "polling"
    /\ LET found == record[KeyOf[r]]
           Ends(pc, response) == req' = [req EXCEPT ![r] = EndedReq(pc, response)]
       IN \/ found = None /\ Ends("retry", None)
          \/ found # None /\ found.payload # PayloadOf[r] /\ Ends("conflict", None)
          \/ /\ found # None /\ found.payload = PayloadOf[r] /\ found.status = "completed"
             /\ Ends("done", found.response)
    /\ UNCHANGED <<rows, revision, marker, file, record, up, chain, crashes, lost>>

(* Defect: a waiting request gives up only once the key is free. *)
DeadlineWhenFree(r) ==
    /\ req[r].pc = "polling" /\ record[KeyOf[r]] = None
    /\ req' = [req EXCEPT ![r] = EndedReq("expired", None)]
    /\ UNCHANGED <<rows, revision, marker, file, record, up, chain, crashes, lost>>

(* ... and for 30 seconds at most. *)
Deadline(r) ==
    /\ req[r].pc = "polling"
    /\ req' = [req EXCEPT ![r] = EndedReq("expired", None)]
    /\ UNCHANGED <<rows, revision, marker, file, record, up, chain, crashes, lost>>

-----------------------------------------------------------------------------
(* What a process does for a request it has accepted. *)
Step(r) ==
    \/ Read(r) \/ Commit(r) \/ Rerun(r) \/ MutationFails(r)
    \/ Complete(r) \/ CompletionFails(r) \/ Abort(r) \/ AbortFails(r)
    \/ Poll(r) \/ Deadline(r)

Next ==
    \/ PlaceFile
    \/ \E p \in Procs : Start(p) \/ Crash(p)
    \/ \E r \in Reqs, p \in Procs : ArriveUnkeyed(r, p) \/ ArriveKeyed(r, p)
    \/ \E r \in Reqs : Step(r)

(* A running process goes on: handlers return (their fetches time out),    *)
(* SQLite answers or fails within its busy timeout, timers fire.           *)
Spec == Init /\ [][Next]_vars /\ \A r \in Reqs : WF_vars(Step(r))

-----------------------------------------------------------------------------
(* Properties *)

TypeOK ==
    /\ rows \in Rows
    /\ revision \in Nat /\ marker \in BOOLEAN /\ file \in {"none", "valid", "invalid"}
    /\ record \in [Keys -> Records \cup {None}]
    /\ up \subseteq Procs /\ crashes \in 0..MaxCrashes /\ lost \subseteq Keys
    /\ chain \in [Procs -> Seq(Reqs)]
    /\ req \in [Reqs -> Requests]

(* Processes that write through stale reads, reruns and imports still give *)
(* an atomic store: no mutation is lost under another, none is applied by  *)
(* halves, and an import never replaces work (sqlite-store.js 150-174,     *)
(* 334-368).                                                               *)
Store == INSTANCE AtomicStore WITH applied <- rows.work, legacy <- rows.legacy
ImplementsStore == Store!Spec

(* A key is executed by one request at a time, over all processes: a       *)
(* retry, a second click or another process never runs the handler beside  *)
(* the first (sqlite-store.js 176-198, idempotency.js 12-43).              *)
OneExecution ==
    \A k \in Keys : Cardinality({r \in Reqs : KeyOf[r] = k /\ req[r].pc \in Executing}) <= 1

(* Whoever is answered under a key gets the same answer, that of an        *)
(* execution of the same request data which is in the database.            *)
SameAnswer ==
    \A r \in Reqs : KeyOf[r] # NoKey /\ req[r].pc = "done" =>
        LET found == record[KeyOf[r]] IN
        /\ found # None /\ found.status = "completed"
        /\ found.response = req[r].response
        /\ PayloadOf[found.response] = PayloadOf[r]
        /\ rows.work[found.response] = 1

(* However often a client repeats a keyed request, over failures and dead  *)
(* processes, it takes effect once; the one exception is an execution      *)
(* whose completion could not be written (idempotency.js 28-38).           *)
AppliedOnce ==
    \A q, r \in Reqs :
        KeyOf[q] = KeyOf[r] /\ KeyOf[r] \in Keys \ lost /\ rows.work[r] > 0 =>
            rows.work[r] = 1 /\ (rows.work[q] > 0 => q = r)

(* Every request that reaches a process is answered or lost with it: also  *)
(* one that waits for the execution of a process that has died             *)
(* (idempotency.js 45-57), or behind mutations that never commit           *)
(* (sqlite-store.js 336).                                                  *)
EveryRequestEnds == <>[](\A r \in Reqs : req[r].pc \in Ended \cup {"new"})
=============================================================================
