---------------------- MODULE IdempotentRequestsProofs ----------------------
(***************************************************************************)
(* Why a keyed request takes effect once and everybody gets its answer,    *)
(* whatever the processes, the requests, the retries and the crashes; and  *)
(* why optimistic writes still are an atomic store.                        *)
(***************************************************************************)
EXTENDS IdempotentRequests, FiniteSetTheorems, TLAPS

-----------------------------------------------------------------------------
(* The inductive invariant *)

(* A mutation waits in the queue of its process, and runs at its head. *)
InChain(r) ==
    LET q == req[r]
    IN  /\ q.pc \in {"queued", "ran"} =>
              q.proc \in Procs /\ \E i \in 1..Len(chain[q.proc]) : chain[q.proc][i] = r
        /\ q.pc = "ran" => Head(chain[q.proc]) = r

(* What a handler has read is what is there if the revision is still the   *)
(* same, up to an import, which finds and leaves no work.                  *)
ReadKept(r) ==
    req[r].pc = "ran" =>
        /\ req[r].read \in Rows
        /\ req[r].rev <= revision
        /\ req[r].rev = revision => req[r].read.work = rows.work

(* A request has taken effect once at most, when it has committed. *)
Counted(r) ==
    /\ rows.work[r] \in {0, 1}
    /\ req[r].pc \in {"new", "sharing", "polling", "queued", "ran"} => rows.work[r] = 0
    /\ req[r].pc = "executed" => rows.work[r] = 1

(* Only an execution under a key completes, fails late or is waited for;   *)
(* it holds the reservation of its key, alone.                             *)
Reserves(r) ==
    /\ req[r].pc \in {"executed", "failing", "sharing", "polling"} => KeyOf[r] # NoKey
    /\ req[r].pc \in Executing /\ KeyOf[r] # NoKey => Reserved(r)

Alone(q, r) ==
    /\ req[q].pc \in Executing /\ req[r].pc \in Executing
    /\ KeyOf[q] = KeyOf[r] /\ KeyOf[r] # NoKey
    => q = r

(* A completed record holds the answer of a request with its data that has *)
(* taken effect.                                                           *)
Completed(k) ==
    record[k] # None /\ record[k].status = "completed" =>
        LET x == record[k].response
        IN  /\ x \in Reqs /\ KeyOf[x] = k /\ PayloadOf[x] = record[k].payload
            /\ rows.work[x] = 1 /\ req[x].pc \in Ended

(* A request shares the execution of the same data under the same key. *)
Shares(r) ==
    req[r].pc = "sharing" =>
        /\ req[r].owner \in Reqs
        /\ KeyOf[req[r].owner] = KeyOf[r] /\ PayloadOf[req[r].owner] = PayloadOf[r]

AnswerKept(r) ==
    KeyOf[r] # NoKey /\ req[r].pc = "done" =>
        LET found == record[KeyOf[r]]
        IN  /\ found # None /\ found.status = "completed"
            /\ found.response = req[r].response /\ found.payload = PayloadOf[r]

(* Once a request has taken effect its key stays reserved, or completed by *)
(* it, and nobody else executes under it.                                  *)
EffectKept(r) ==
    KeyOf[r] \in Keys \ lost /\ rows.work[r] = 1 =>
        /\ record[KeyOf[r]] # None
        /\ record[KeyOf[r]].status = "completed" => record[KeyOf[r]].response = r
        /\ \A q \in Reqs : req[q].pc \in Executing /\ KeyOf[q] = KeyOf[r] =>
              q = r /\ req[r].pc = "executed"

RequestsKept ==
    /\ TypeOK
    /\ \A r \in Reqs : InChain(r) /\ ReadKept(r) /\ Counted(r) /\ Reserves(r)
    /\ \A q, r \in Reqs : Alone(q, r)
    /\ \A k \in Keys : Completed(k)
    /\ \A r \in Reqs : Shares(r) /\ AnswerKept(r) /\ EffectKept(r)
    /\ AppliedOnce


-----------------------------------------------------------------------------
(* Records of requests *)

LEMMA NewTyped == NewReq \in Requests
BY RequestAssumption DEF RequestAssumption, NewReq, Requests

LEMMA EndedTyped ==
    ASSUME NEW pc \in Ended, NEW response \in Reqs \cup {None}
    PROVE  /\ EndedReq(pc, response) \in Requests
           /\ EndedReq(pc, response).pc = pc
           /\ EndedReq(pc, response).response = response
BY NewTyped DEF EndedReq, Requests

LEMMA Typed ==
    ASSUME TypeOK
    PROVE  /\ \A r \in Reqs : req[r] \in Requests
           /\ \A r \in Reqs : rows.work[r] \in Nat
           /\ \A k \in Keys : record[k] # None => record[k] \in Records
           /\ \A r \in Reqs : KeyOf[r] # NoKey => KeyOf[r] \in Keys
BY DEF TypeOK, Rows, Keys

LEMMA NoneApart == None \notin Procs /\ None \notin Reqs /\ None \notin Records
BY RequestAssumption DEF RequestAssumption

-----------------------------------------------------------------------------
(* The queues of mutations *)

LEMMA ChainStays ==
    ASSUME RequestsKept, UNCHANGED chain, NEW r \in Reqs,
           req'[r].pc \in {"queued", "ran"} =>
               /\ req[r].pc \in {"queued", "ran"} /\ req'[r].proc = req[r].proc
               /\ req'[r].pc = "ran" => req[r].pc = "ran" \/ Head(chain[req[r].proc]) = r
    PROVE  InChain(r)'
BY DEF RequestsKept, InChain

LEMMA ChainGrows ==
    ASSUME RequestsKept, NEW r \in Reqs, NEW p \in Procs,
           chain' = [chain EXCEPT ![p] = Append(@, r)],
           req'[r].pc = "queued", req'[r].proc = p,
           \A q \in Reqs \ {r} : req'[q] = req[q]
    PROVE  \A q \in Reqs : InChain(q)'
<1>1. chain \in [Procs -> Seq(Reqs)]
    BY DEF RequestsKept, TypeOK
<1>2. InChain(r)'
    <2>1. chain'[p] = Append(chain[p], r) /\ chain[p] \in Seq(Reqs)
        BY <1>1
    <2>2. Len(chain'[p]) \in 1..Len(chain'[p]) /\ chain'[p][Len(chain'[p])] = r
        BY <2>1
    <2> QED
        BY <2>2 DEF InChain
<1>3. ASSUME NEW q \in Reqs \ {r}
      PROVE  InChain(q)'
    <2>1. InChain(q)
        BY DEF RequestsKept
    <2>2. ASSUME req[q].pc \in {"queued", "ran"}
          PROVE  /\ \E i \in 1..Len(chain'[req[q].proc]) : chain'[req[q].proc][i] = q
                 /\ Head(chain'[req[q].proc]) = Head(chain[req[q].proc])
        <3>1. PICK x \in Procs : x = req[q].proc
            BY <2>1, <2>2 DEF InChain
        <3>2. PICK i \in 1..Len(chain[x]) : chain[x][i] = q
            BY <2>1, <2>2, <3>1 DEF InChain
        <3>3. chain'[x] = chain[x] \/ chain'[x] = Append(chain[x], r)
            BY <1>1
        <3>4. chain[x] \in Seq(Reqs) /\ chain[x] # <<>>
            BY <1>1, <3>2
        <3>5. /\ i \in 1..Len(chain'[x]) /\ chain'[x][i] = q
              /\ Head(chain'[x]) = Head(chain[x])
            BY <3>2, <3>3, <3>4
        <3> QED
            BY <3>1, <3>5
    <2> QED
        BY <1>3, <2>1, <2>2 DEF InChain
<1> QED
    BY <1>2, <1>3

LEMMA ChainShrinks ==
    ASSUME RequestsKept, NEW r \in Reqs, req[r].pc = "ran", Leaves(r),
           req'[r].pc \notin {"queued", "ran"},
           \A q \in Reqs \ {r} : req'[q] = req[q]
    PROVE  (\A q \in Reqs : InChain(q)') /\ chain' \in [Procs -> Seq(Reqs)]
<1>1. chain \in [Procs -> Seq(Reqs)]
    BY DEF RequestsKept, TypeOK
<1>2. PICK p \in Procs : p = req[r].proc
    BY DEF RequestsKept, InChain
<1>3. /\ chain[p] \in Seq(Reqs) /\ chain[p] # <<>> /\ Head(chain[p]) = r
    BY <1>1, <1>2 DEF RequestsKept, InChain
<1>4. chain' = [chain EXCEPT ![p] = Tail(chain[p])]
    BY <1>2 DEF Leaves
<1>5. InChain(r)'
    BY DEF InChain
<1>6. ASSUME NEW q \in Reqs \ {r}
      PROVE  InChain(q)'
    <2>1. InChain(q) /\ req'[q] = req[q]
        BY DEF RequestsKept
    <2>2. CASE req[q].proc # p
        BY <1>1, <1>4, <2>1, <2>2 DEF InChain
    <2>3. CASE req[q].proc = p /\ req[q].pc \in {"queued", "ran"}
        <3>1. PICK i \in 1..Len(chain[p]) : chain[p][i] = q
            BY <2>1, <2>3 DEF InChain
        <3>2. i # 1 /\ req[q].pc # "ran"
            BY <1>3, <1>6, <2>1, <2>3, <3>1 DEF InChain
        <3>3. i - 1 \in 1..Len(Tail(chain[p])) /\ Tail(chain[p])[i - 1] = q
            BY <1>3, <3>1, <3>2
        <3>4. chain'[p] = Tail(chain[p])
            BY <1>1, <1>4
        <3> QED
            BY <2>1, <2>3, <3>2, <3>3, <3>4 DEF InChain
    <2> QED
        BY <2>1, <2>2, <2>3 DEF InChain
<1>7. chain' \in [Procs -> Seq(Reqs)]
    BY <1>1, <1>3, <1>4
<1> QED
    BY <1>5, <1>6, <1>7

-----------------------------------------------------------------------------
(* Steps that neither commit nor change a record *)

(* What such a step does to a request: nothing, ... *)
Stays(q) == req'[q] = req[q]

(* ... it ends, with the answer of the record if it has one, ... *)
EndsNow(q) ==
    /\ req'[q].pc \in Ended
    /\ KeyOf[q] # NoKey /\ req'[q].pc = "done" =>
          LET found == record[KeyOf[q]]
          IN  /\ found # None /\ found.status = "completed"
              /\ found.response = req'[q].response /\ found.payload = PayloadOf[q]

(* ... its execution goes on, ... *)
GoesOn(q) ==
    /\ req[q].pc \in Executing /\ req'[q].pc \in Executing
    /\ req'[q].pc \in {"queued", "ran"} => req[q].pc \in {"queued", "ran"}
    /\ req'[q].pc = "executed" => req[q].pc = "executed"
    /\ req'[q].pc = "failing" => KeyOf[q] # NoKey
    /\ req[q].pc = "executed" /\ req'[q].pc = "failing" => KeyOf[q] \in lost'

(* ... it is executed without a key, or begins to wait.                    *)
Begins(q) ==
    /\ req[q].pc = "new"
    /\ \/ req'[q].pc = "queued" /\ KeyOf[q] = NoKey
       \/ req'[q].pc = "polling" /\ KeyOf[q] # NoKey
       \/ /\ req'[q].pc = "sharing" /\ KeyOf[q] # NoKey
          /\ req'[q].owner \in Reqs
          /\ KeyOf[req'[q].owner] = KeyOf[q] /\ PayloadOf[req'[q].owner] = PayloadOf[q]

LEMMA MovesKept ==
    ASSUME RequestsKept, TypeOK', UNCHANGED record, rows'.work = rows.work, lost \subseteq lost',
           \A q \in Reqs : Stays(q) \/ EndsNow(q) \/ GoesOn(q) \/ Begins(q),
           \A q \in Reqs : InChain(q)' /\ ReadKept(q)'
    PROVE  RequestsKept'
<1> USE DEF Executing, Ended
<1>1. ASSUME NEW q \in Reqs
      PROVE  Counted(q)' /\ Reserves(q)' /\ Shares(q)' /\ AnswerKept(q)'
    <2>1. Counted(q) /\ Reserves(q) /\ Shares(q) /\ AnswerKept(q)
        BY DEF RequestsKept
    <2>2. Reserved(q)' <=> Reserved(q)
        BY DEF Reserved
    <2>3. CASE Stays(q)
        BY <2>1, <2>2, <2>3 DEF Stays, Counted, Reserves, Shares, AnswerKept
    <2>4. CASE EndsNow(q)
        BY <2>1, <2>4 DEF EndsNow, Counted, Reserves, Shares, AnswerKept
    <2>5. CASE GoesOn(q)
        BY <2>1, <2>2, <2>5 DEF GoesOn, Counted, Reserves, Shares, AnswerKept
    <2>6. CASE Begins(q)
        BY <2>1, <2>2, <2>6 DEF Begins, Counted, Reserves, Shares, AnswerKept
    <2> QED
        BY <2>3, <2>4, <2>5, <2>6
<1>2. \A q \in Reqs : req'[q].pc \in Executing /\ KeyOf[q] # NoKey => req[q].pc \in Executing
    BY DEF Stays, EndsNow, GoesOn, Begins
<1>3. \A q, r \in Reqs : Alone(q, r)'
    BY <1>2 DEF RequestsKept, Alone
<1>4. \A q \in Reqs : req[q].pc \in Ended => req'[q].pc \in Ended
    BY DEF Stays, EndsNow, GoesOn, Begins
<1>5. \A k \in Keys : Completed(k)'
    BY <1>4 DEF RequestsKept, Completed
<1>6. ASSUME NEW r \in Reqs
      PROVE  EffectKept(r)'
    <2> SUFFICES ASSUME KeyOf[r] \in Keys \ lost', rows.work[r] = 1
                 PROVE  /\ record[KeyOf[r]] # None
                        /\ record[KeyOf[r]].status = "completed" => record[KeyOf[r]].response = r
                        /\ \A q \in Reqs : req'[q].pc \in Executing /\ KeyOf[q] = KeyOf[r] =>
                              q = r /\ req'[r].pc = "executed"
        BY DEF EffectKept
    <2>1. /\ record[KeyOf[r]] # None
          /\ record[KeyOf[r]].status = "completed" => record[KeyOf[r]].response = r
          /\ \A q \in Reqs : req[q].pc \in Executing /\ KeyOf[q] = KeyOf[r] =>
                q = r /\ req[r].pc = "executed"
        BY DEF RequestsKept, EffectKept
    <2>2. KeyOf[r] # NoKey
        BY DEF Keys
    <2>3. req[r].pc = "executed" /\ req'[r].pc \in Executing => req'[r].pc = "executed"
        BY DEF Stays, EndsNow, GoesOn, Begins
    <2> QED
        BY <1>2, <2>1, <2>2, <2>3
<1>7. AppliedOnce'
    BY DEF RequestsKept, AppliedOnce
<1> QED
    BY <1>1, <1>3, <1>5, <1>6, <1>7 DEF RequestsKept


LEMMA ReadStays ==
    ASSUME RequestsKept, rows'.work = rows.work, revision' = revision, NEW r \in Reqs,
           req'[r].pc = "ran" =>
               \/ req'[r] = req[r]
               \/ req'[r].read = rows /\ req'[r].rev = revision
    PROVE  ReadKept(r)'
BY DEF RequestsKept, ReadKept, TypeOK

(* The requests rest: the owner acts, a process starts, or nothing happens. *)
LEMMA RestKept ==
    ASSUME RequestsKept, UNCHANGED <<revision, record, chain, req, lost>>,
           rows' \in Rows, rows'.work = rows.work,
           marker' \in BOOLEAN, file' \in {"none", "valid", "invalid"}, up' \subseteq Procs,
           crashes' = crashes
    PROVE  RequestsKept'
<1>1. TypeOK'
    BY DEF RequestsKept, TypeOK
<1>2. \A q \in Reqs : Stays(q) /\ InChain(q)' /\ ReadKept(q)'
    BY ChainStays, ReadStays DEF Stays
<1> QED
    BY <1>1, <1>2, MovesKept

LEMMA StartKept ==
    ASSUME RequestsKept, NEW p \in Procs, Start(p)
    PROVE  /\ RequestsKept'
           /\ rows'.work = rows.work
           /\ rows'.legacy # rows.legacy =>
                 /\ ~rows.legacy /\ rows'.legacy
                 /\ \A r \in Reqs : rows.work[r] = 0
<1>1. TypeOK
    BY DEF RequestsKept
<1>2. /\ rows' \in Rows /\ rows'.work = rows.work /\ marker' \in BOOLEAN
      /\ rows'.legacy # rows.legacy =>
            /\ ~rows.legacy /\ rows'.legacy
            /\ \A r \in Reqs : rows.work[r] = 0
    <2>1. CASE UNCHANGED <<rows, marker>>
        BY <1>1, <2>1 DEF TypeOK
    <2>2. CASE ImportLegacy
        <3>1. /\ rows = [work |-> NoWork, legacy |-> FALSE] \/ rows = Imported
              /\ rows' = Imported /\ marker' = TRUE
            BY <2>2 DEF ImportLegacy
        <3>2. NoWork \in [Reqs -> Nat] /\ \A r \in Reqs : NoWork[r] = 0
            BY DEF NoWork
        <3>3. Imported.work = NoWork /\ Imported.legacy = TRUE /\ Imported \in Rows
            BY <3>2 DEF Imported, Rows
        <3>4. rows.work = NoWork
            BY <3>1, <3>3
        <3>5. rows.legacy \in BOOLEAN
            BY <1>1 DEF TypeOK, Rows
        <3>6. rows.legacy # TRUE => ~rows.legacy
            BY <3>5
        <3> QED
            BY <3>1, <3>2, <3>3, <3>4, <3>6
    <2> QED
        BY <2>1, <2>2 DEF Start
<1>3. up' \subseteq Procs
    BY <1>1 DEF Start, TypeOK
<1>4. file' \in {"none", "valid", "invalid"}
    BY <1>1 DEF Start, TypeOK
<1> QED
    BY <1>2, <1>3, <1>4, RestKept DEF Start

LEMMA PlaceFileKept ==
    ASSUME RequestsKept, PlaceFile
    PROVE  RequestsKept'
BY RestKept DEF PlaceFile, RequestsKept, TypeOK

LEMMA CrashKept ==
    ASSUME RequestsKept, NEW p \in Procs, Crash(p)
    PROVE  RequestsKept'
<1>1. TypeOK
    BY DEF RequestsKept
<1>2. \A q \in Reqs : \/ req'[q] = EndedReq("lost", None)
                      \/ Stays(q) /\ (req[q].proc # p \/ req[q].pc \in Ended)
    BY DEF Crash, Stays
<1>3. EndedReq("lost", None) \in Requests /\ EndedReq("lost", None).pc = "lost"
    BY EndedTyped DEF Ended
<1>4. TypeOK'
    <2>1. req' \in [Reqs -> Requests]
        BY <1>1, <1>2, <1>3 DEF Crash, Stays, TypeOK
    <2>2. chain' \in [Procs -> Seq(Reqs)]
        BY <1>1 DEF Crash, TypeOK
    <2>3. crashes' \in 0..MaxCrashes
        BY <1>1, RequestAssumption DEF Crash, TypeOK, RequestAssumption
    <2> QED
        BY <1>1, <2>1, <2>2, <2>3 DEF Crash, TypeOK
<1>5. \A q \in Reqs : Stays(q) \/ EndsNow(q)
    BY <1>2, <1>3 DEF EndsNow, Ended
<1>6. ASSUME NEW q \in Reqs
      PROVE  InChain(q)' /\ ReadKept(q)'
    <2>1. InChain(q)
        BY DEF RequestsKept
    <2>2. CASE req'[q] = EndedReq("lost", None)
        BY <1>3, <2>2 DEF InChain, ReadKept
    <2>3. CASE Stays(q) /\ (req[q].proc # p \/ req[q].pc \in Ended)
        <3>1. \A x \in Procs \ {p} : chain'[x] = chain[x]
            BY <1>1 DEF Crash, TypeOK
        <3>2. InChain(q)'
            BY <2>1, <2>3, <3>1 DEF InChain, Stays, Ended
        <3>3. ReadKept(q)'
            BY <2>3, ReadStays DEF Stays, Crash
        <3> QED
            BY <3>2, <3>3
    <2> QED
        BY <1>2, <2>2, <2>3
<1> QED
    BY <1>4, <1>5, <1>6, MovesKept DEF Crash

(* One request moves, or ends, and no chain changes. *)
LEMMA OneMoves ==
    ASSUME RequestsKept, NEW r \in Reqs, NEW new \in Requests,
           req' = [req EXCEPT ![r] = new],
           UNCHANGED <<rows, revision, marker, file, record, up, chain, crashes>>,
           lost \subseteq lost', lost' \subseteq Keys,
           EndsNow(r) \/ GoesOn(r) \/ Begins(r),
           new.pc = "queued" => req[r].pc \in {"queued", "ran"} /\ new.proc = req[r].proc,
           new.pc = "ran" =>
               /\ req[r].pc = "queued" /\ new.proc = req[r].proc /\ Head(chain[req[r].proc]) = r
               /\ new.read = rows /\ new.rev = revision
    PROVE  RequestsKept'
<1>1. TypeOK'
    BY DEF RequestsKept, TypeOK
<1>2. req'[r] = new /\ \A q \in Reqs \ {r} : Stays(q)
    BY DEF RequestsKept, TypeOK, Stays
<1>3. \A q \in Reqs : InChain(q)' /\ ReadKept(q)'
    BY <1>2, ChainStays, ReadStays DEF Stays
<1> QED
    BY <1>1, <1>2, <1>3, MovesKept

LEMMA ReadStepKept ==
    ASSUME RequestsKept, NEW r \in Reqs, Read(r)
    PROVE  RequestsKept'
<1> DEFINE new == [req[r] EXCEPT !.pc = "ran", !.rev = revision, !.read = rows]
<1>1. /\ new \in Requests /\ new.pc = "ran" /\ new.proc = req[r].proc
      /\ new.read = rows /\ new.rev = revision
    BY Typed DEF RequestsKept, TypeOK, Requests, Executing
<1>2. req' = [req EXCEPT ![r] = new]
    BY DEF Read
<1> HIDE DEF new
<1>3. req'[r] = new /\ req[r].pc = "queued" /\ Head(chain[req[r].proc]) = r
    BY <1>2 DEF Read, RequestsKept, TypeOK
<1>4. GoesOn(r)
    BY <1>1, <1>3 DEF GoesOn, Executing
<1>5. lost' = lost /\ lost' \subseteq Keys
    BY DEF Read, RequestsKept, TypeOK
<1> QED
    BY <1>1, <1>2, <1>3, <1>4, <1>5, OneMoves DEF Read

LEMMA RerunKept ==
    ASSUME RequestsKept, NEW r \in Reqs, Rerun(r)
    PROVE  RequestsKept'
<1> DEFINE new == [req[r] EXCEPT !.pc = "queued", !.retries = req[r].retries + 1, !.rev = 0,
                                 !.read = None]
<1>1. req[r].retries + 1 \in 0..(MaxRetries - 1)
    BY Typed, RequestAssumption DEF Rerun, RequestsKept, Requests, RequestAssumption
<1>2. new \in Requests /\ new.pc = "queued" /\ new.proc = req[r].proc
    BY <1>1, Typed DEF RequestsKept, Requests, Executing
<1>3. req' = [req EXCEPT ![r] = new]
    BY DEF Rerun
<1> HIDE DEF new
<1>4. req'[r] = new /\ req[r].pc = "ran"
    BY <1>3 DEF Rerun, RequestsKept, TypeOK
<1>5. GoesOn(r)
    BY <1>2, <1>4 DEF GoesOn, Executing
<1>6. lost' = lost /\ lost' \subseteq Keys
    BY DEF Rerun, RequestsKept, TypeOK
<1> QED
    BY <1>2, <1>3, <1>4, <1>5, <1>6, OneMoves DEF Rerun

LEMMA CompletionFailsKept ==
    ASSUME RequestsKept, NEW r \in Reqs, CompletionFails(r)
    PROVE  RequestsKept'
<1> DEFINE new == [req[r] EXCEPT !.pc = "failing"]
<1>1. new \in Requests /\ new.pc = "failing"
    BY Typed DEF RequestsKept, Requests, Executing
<1>2. req' = [req EXCEPT ![r] = new]
    BY DEF CompletionFails
<1> HIDE DEF new
<1>3. req'[r] = new /\ req[r].pc = "executed"
    BY <1>2 DEF CompletionFails, RequestsKept, TypeOK
<1>4. KeyOf[r] # NoKey /\ KeyOf[r] \in Keys
    BY <1>3 DEF RequestsKept, Reserves, Keys
<1>5. KeyOf[r] \in lost' /\ lost \subseteq lost' /\ lost' \subseteq Keys
    BY <1>4 DEF CompletionFails, RequestsKept, TypeOK
<1>6. GoesOn(r)
    BY <1>1, <1>3, <1>4, <1>5 DEF GoesOn, Executing
<1> QED
    BY <1>1, <1>2, <1>5, <1>6, OneMoves DEF CompletionFails

(* A request that waits or arrives gets an answer, or gives up. *)
LEMMA AnsweredKept ==
    ASSUME RequestsKept, NEW r \in Reqs, NEW pc \in Ended, NEW response \in Reqs \cup {None},
           req' = [req EXCEPT ![r] = EndedReq(pc, response)],
           UNCHANGED <<rows, revision, marker, file, record, up, chain, crashes, lost>>,
           pc = "done" =>
              LET found == record[KeyOf[r]]
              IN  /\ found # None /\ found.status = "completed"
                  /\ found.response = response /\ found.payload = PayloadOf[r]
    PROVE  RequestsKept'
<1> DEFINE new == EndedReq(pc, response)
<1>1. new \in Requests /\ new.pc = pc /\ new.response = response
    BY EndedTyped
<1> HIDE DEF new
<1>2. req' = [req EXCEPT ![r] = new]
    BY DEF new
<1>3. req'[r] = new
    BY <1>2 DEF RequestsKept, TypeOK
<1>4. EndsNow(r)
    BY <1>1, <1>3 DEF EndsNow
<1>5. lost' = lost /\ lost' \subseteq Keys
    BY DEF RequestsKept, TypeOK
<1>6. new.pc \notin {"queued", "ran"}
    BY <1>1 DEF Ended
<1> QED
    BY <1>1, <1>2, <1>4, <1>5, <1>6, OneMoves

LEMMA PollKept ==
    ASSUME RequestsKept, NEW r \in Reqs, Poll(r) \/ Deadline(r)
    PROVE  RequestsKept'
<1>1. CASE Deadline(r)
    BY <1>1, AnsweredKept DEF Deadline, Ended
<1>2. CASE Poll(r)
    <2>1. CASE req' = [req EXCEPT ![r] = EndedReq("retry", None)]
        BY <1>2, <2>1, AnsweredKept DEF Poll, Ended
    <2>2. CASE req' = [req EXCEPT ![r] = EndedReq("conflict", None)]
        BY <1>2, <2>2, AnsweredKept DEF Poll, Ended
    <2>3. CASE /\ record[KeyOf[r]] # None /\ record[KeyOf[r]].payload = PayloadOf[r]
               /\ record[KeyOf[r]].status = "completed"
               /\ req' = [req EXCEPT ![r] = EndedReq("done", record[KeyOf[r]].response)]
        <3>1. KeyOf[r] \in Keys
            BY <1>2, Typed DEF Poll, RequestsKept, Reserves
        <3>2. record[KeyOf[r]].response \in Reqs
            BY <2>3, <3>1 DEF RequestsKept, Completed
        <3> QED
            BY <1>2, <2>3, <3>2, AnsweredKept DEF Poll, Ended
    <2> QED
        BY <1>2, <2>1, <2>2, <2>3 DEF Poll
<1> QED
    BY <1>1, <1>2


-----------------------------------------------------------------------------
(* Arrivals *)

(* A request joins the queue of a process. *)
LEMMA JoinsQueue ==
    ASSUME RequestsKept, NEW r \in Reqs, NEW p \in Procs, req[r].pc = "new", Executes(r, p)
    PROVE  /\ req' \in [Reqs -> Requests] /\ chain' \in [Procs -> Seq(Reqs)]
           /\ req'[r].pc = "queued"
           /\ \A q \in Reqs \ {r} : Stays(q)
           /\ \A q \in Reqs : InChain(q)'
           /\ \A q \in Reqs : req'[q].pc = "ran" => req'[q] = req[q]
<1> DEFINE new == [req[r] EXCEPT !.pc = "queued", !.proc = p]
<1>1. new \in Requests /\ new.pc = "queued" /\ new.proc = p
    BY Typed DEF RequestsKept, Requests, Executing
<1>2. req' = [req EXCEPT ![r] = new]
    BY DEF Executes
<1> HIDE DEF new
<1>3. req' \in [Reqs -> Requests] /\ req'[r] = new /\ \A q \in Reqs \ {r} : Stays(q)
    BY <1>1, <1>2 DEF RequestsKept, TypeOK, Stays
<1>4. chain' = [chain EXCEPT ![p] = Append(@, r)] /\ chain' \in [Procs -> Seq(Reqs)]
    BY DEF Executes, RequestsKept, TypeOK
<1>5. \A q \in Reqs : InChain(q)'
    BY <1>1, <1>3, <1>4, ChainGrows DEF Stays
<1>6. \A q \in Reqs : req'[q].pc = "ran" => req'[q] = req[q]
    BY <1>1, <1>3 DEF Stays
<1> QED
    BY <1>1, <1>3, <1>4, <1>5, <1>6

LEMMA ArriveUnkeyedKept ==
    ASSUME RequestsKept, NEW r \in Reqs, NEW p \in Procs, ArriveUnkeyed(r, p)
    PROVE  RequestsKept'
<1>1. /\ req' \in [Reqs -> Requests] /\ chain' \in [Procs -> Seq(Reqs)]
      /\ req'[r].pc = "queued"
      /\ \A q \in Reqs \ {r} : Stays(q)
      /\ \A q \in Reqs : InChain(q)'
      /\ \A q \in Reqs : req'[q].pc = "ran" => req'[q] = req[q]
    BY JoinsQueue DEF ArriveUnkeyed
<1>2. TypeOK'
    BY <1>1 DEF ArriveUnkeyed, RequestsKept, TypeOK
<1>3. Begins(r)
    BY <1>1 DEF ArriveUnkeyed, Begins
<1>4. \A q \in Reqs : ReadKept(q)'
    BY <1>1, ReadStays DEF ArriveUnkeyed
<1> QED
    BY <1>1, <1>2, <1>3, <1>4, MovesKept DEF ArriveUnkeyed

(* The first request under a key: nobody has executed under it, or its     *)
(* execution has failed without effect.                                    *)
LEMMA ReservationKept ==
    ASSUME RequestsKept, NEW r \in Reqs, NEW p \in Procs, req[r].pc = "new", Executes(r, p),
           KeyOf[r] # NoKey, record[KeyOf[r]] = None,
           record' = [record EXCEPT ![KeyOf[r]] =
                        [payload |-> PayloadOf[r], status |-> "pending", response |-> None]],
           UNCHANGED <<rows, revision, marker, file, up, crashes, lost>>
    PROVE  RequestsKept'
<1> USE DEF Executing, Ended
<1>1. /\ req' \in [Reqs -> Requests] /\ chain' \in [Procs -> Seq(Reqs)]
      /\ req'[r].pc = "queued"
      /\ \A q \in Reqs \ {r} : req'[q] = req[q]
      /\ \A q \in Reqs : InChain(q)'
      /\ \A q \in Reqs : req'[q].pc = "ran" => req'[q] = req[q]
    BY JoinsQueue DEF Stays
<1>2. PICK k \in Keys : k = KeyOf[r]
    BY DEF Keys
<1> DEFINE new == [payload |-> PayloadOf[r], status |-> "pending", response |-> None]
<1>3. new \in Records /\ new.payload = PayloadOf[r] /\ new.status = "pending"
    BY DEF Records
<1>4. record' = [record EXCEPT ![k] = new]
    BY <1>2
<1> HIDE DEF new
<1>5. /\ record' \in [Keys -> Records \cup {None}]
      /\ record'[k] = new /\ new # None
      /\ \A x \in Keys \ {k} : record'[x] = record[x]
    BY <1>3, <1>4, NoneApart, SMTT(30), ZenonT(40) DEF RequestsKept, TypeOK
<1>6. TypeOK'
    BY <1>1, <1>5 DEF RequestsKept, TypeOK
<1>7. \A q \in Reqs : KeyOf[q] = k => req[q].pc \notin Executing /\ (k \notin lost => rows.work[q] = 0)
    BY <1>2 DEF RequestsKept, Reserves, Reserved, EffectKept, Counted, Keys
<1>8. \A q \in Reqs : ReadKept(q)'
    BY <1>1, ReadStays
<1>9. ASSUME NEW q \in Reqs
      PROVE  Counted(q)' /\ Reserves(q)' /\ Shares(q)' /\ AnswerKept(q)'
    <2>1. Counted(q) /\ Reserves(q) /\ Shares(q) /\ AnswerKept(q)
        BY DEF RequestsKept
    <2>2. Counted(q)'
        BY <1>1, <2>1 DEF Counted
    <2>3. Shares(q)'
        BY <1>1, <2>1 DEF Shares
    <2>4. KeyOf[q] # NoKey => KeyOf[q] \in Keys
        BY DEF Keys
    <2>5. Reserves(q)'
        BY <1>1, <1>2, <1>3, <1>5, <1>7, <2>1, <2>4 DEF Reserves, Reserved
    <2>6. AnswerKept(q)'
        BY <1>1, <1>2, <1>5, <2>1, <2>4 DEF AnswerKept
    <2> QED
        BY <2>2, <2>3, <2>5, <2>6
<1>10. \A q, x \in Reqs : Alone(q, x)'
    BY <1>1, <1>2, <1>7 DEF RequestsKept, Alone
<1>11. ASSUME NEW x \in Keys
       PROVE  Completed(x)'
    <2>1. Completed(x)
        BY DEF RequestsKept
    <2>2. CASE x = k
        BY <1>3, <1>5, <2>2 DEF Completed
    <2>3. CASE x # k
        BY <1>1, <1>5, <2>1, <2>3 DEF Completed
    <2> QED
        BY <2>2, <2>3
<1>12. ASSUME NEW q \in Reqs
       PROVE  EffectKept(q)'
    <2>1. EffectKept(q)
        BY DEF RequestsKept
    <2>2. CASE KeyOf[q] = k
        BY <1>7, <2>2 DEF EffectKept
    <2>3. CASE KeyOf[q] # k
        BY <1>1, <1>2, <1>5, <2>1, <2>3 DEF EffectKept
    <2> QED
        BY <2>2, <2>3
<1>13. AppliedOnce'
    BY DEF RequestsKept, AppliedOnce
<1> QED
    BY <1>1, <1>6, <1>8, <1>9, <1>10, <1>11, <1>12, <1>13 DEF RequestsKept

LEMMA ArriveKeyedKept ==
    ASSUME RequestsKept, NEW r \in Reqs, NEW p \in Procs, ArriveKeyed(r, p)
    PROVE  RequestsKept'
<1> DEFINE k == KeyOf[r]
<1>1. /\ req[r].pc = "new" /\ k # NoKey /\ k \in Keys
      /\ UNCHANGED <<rows, revision, marker, file, up, crashes, lost>>
    BY DEF ArriveKeyed, Keys
<1>2. ASSUME NEW pc \in Ended, NEW response \in Reqs \cup {None}, Answered(r, pc, response),
             UNCHANGED record,
             pc = "done" =>
                LET found == record[KeyOf[r]]
                IN  /\ found # None /\ found.status = "completed"
                    /\ found.response = response /\ found.payload = PayloadOf[r]
      PROVE  RequestsKept'
    BY <1>1, <1>2, AnsweredKept DEF Answered
<1>3. ASSUME NEW new \in Requests, req' = [req EXCEPT ![r] = new], UNCHANGED <<chain, record>>,
             \/ new.pc = "polling"
             \/ /\ new.pc = "sharing" /\ new.owner \in Reqs
                /\ KeyOf[new.owner] = KeyOf[r] /\ PayloadOf[new.owner] = PayloadOf[r]
      PROVE  RequestsKept'
    <2>1. req'[r] = new
        BY <1>3 DEF RequestsKept, TypeOK
    <2>2. Begins(r)
        BY <1>1, <1>3, <2>1 DEF Begins
    <2>3. lost' = lost /\ lost' \subseteq Keys
        BY <1>1 DEF RequestsKept, TypeOK
    <2> QED
        BY <1>1, <1>3, <2>2, <2>3, OneMoves
<1>4. CASE record[k] = None
    BY <1>1, <1>4, ReservationKept DEF ArriveKeyed
<1>5. CASE record[k] # None
    <2>1. UNCHANGED record
        BY <1>5 DEF ArriveKeyed
    <2>2. CASE record[k].payload # PayloadOf[r]
        <3>1. Answered(r, "conflict", None)
            BY <1>5, <2>2 DEF ArriveKeyed
        <3> QED
            BY <1>2, <2>1, <3>1 DEF Ended
    <2>3. CASE record[k].payload = PayloadOf[r] /\ record[k].status = "completed"
        <3>1. Answered(r, "done", record[k].response)
            BY <1>5, <2>3 DEF ArriveKeyed
        <3>2. record[k].response \in Reqs
            BY <1>1, <1>5, <2>3 DEF RequestsKept, Completed
        <3> QED
            BY <1>2, <1>5, <2>1, <2>3, <3>1, <3>2 DEF Ended
    <2>4. CASE /\ record[k].payload = PayloadOf[r] /\ record[k].status # "completed"
               /\ Active(p, k) = {}
        <3> DEFINE new == [req[r] EXCEPT !.pc = "polling", !.proc = p]
        <3>1. new \in Requests /\ new.pc = "polling"
            BY Typed DEF RequestsKept, Requests
        <3>2. req' = [req EXCEPT ![r] = new] /\ UNCHANGED chain
            BY <1>5, <2>4 DEF ArriveKeyed, Waits
        <3> HIDE DEF new
        <3> QED
            BY <1>3, <2>1, <3>1, <3>2
    <2>5. CASE /\ record[k].payload = PayloadOf[r] /\ record[k].status # "completed"
               /\ Active(p, k) # {}
        <3>1. PICK q \in Active(p, k) :
                  req' = [req EXCEPT ![r] = [@ EXCEPT !.pc = "sharing", !.proc = p, !.owner = q]]
            BY <1>5, <2>5 DEF ArriveKeyed
        <3>2. q \in Reqs /\ KeyOf[q] = k /\ PayloadOf[q] = PayloadOf[r]
            BY <1>1, <2>5 DEF Active, RequestsKept, Reserves, Reserved
        <3> DEFINE new == [req[r] EXCEPT !.pc = "sharing", !.proc = p, !.owner = q]
        <3>3. new \in Requests /\ new.pc = "sharing" /\ new.owner = q
            BY <3>2, Typed DEF RequestsKept, Requests
        <3>4. req' = [req EXCEPT ![r] = new] /\ UNCHANGED chain
            BY <1>5, <2>5, <3>1 DEF ArriveKeyed
        <3> HIDE DEF new
        <3> QED
            BY <1>3, <2>1, <3>2, <3>3, <3>4
    <2> QED
        BY <2>2, <2>3, <2>4, <2>5
<1> QED
    BY <1>4, <1>5


-----------------------------------------------------------------------------
(* Commits and failures *)

LEMMA FailureKept ==
    ASSUME RequestsKept, NEW r \in Reqs, MutationFails(r)
    PROVE  RequestsKept'
<1>1. PICK new \in Requests :
          /\ req' = [req EXCEPT ![r] = new]
          /\ \/ new.pc = "failed"
             \/ new.pc = "failing" /\ KeyOf[r] # NoKey
    <2>1. CASE KeyOf[r] = NoKey
        <3>1. req' = [req EXCEPT ![r] = EndedReq("failed", None)]
            BY <2>1 DEF MutationFails, Failed
        <3>2. EndedReq("failed", None) \in Requests /\ EndedReq("failed", None).pc = "failed"
            BY EndedTyped DEF Ended
        <3> QED
            BY <3>1, <3>2
    <2>2. CASE KeyOf[r] # NoKey
        <3> DEFINE new == [NewReq EXCEPT !.pc = "failing", !.proc = req[r].proc]
        <3>1. new \in Requests /\ new.pc = "failing"
            BY NewTyped, Typed DEF RequestsKept, Requests, Executing
        <3>2. req' = [req EXCEPT ![r] = new]
            BY <2>2 DEF MutationFails, Failed
        <3> HIDE DEF new
        <3> QED
            BY <2>2, <3>1, <3>2
    <2> QED
        BY <2>1, <2>2
<1>2. /\ req' \in [Reqs -> Requests] /\ req'[r] = new
      /\ \A q \in Reqs \ {r} : req'[q] = req[q]
      /\ req[r].pc = "ran"
    BY <1>1 DEF RequestsKept, TypeOK, MutationFails
<1>3. (\A q \in Reqs : InChain(q)') /\ chain' \in [Procs -> Seq(Reqs)]
    BY <1>1, <1>2, ChainShrinks DEF MutationFails
<1>4. TypeOK'
    BY <1>2, <1>3 DEF MutationFails, RequestsKept, TypeOK
<1>5. \A q \in Reqs : Stays(q) \/ EndsNow(q) \/ GoesOn(q)
    BY <1>1, <1>2 DEF Stays, EndsNow, GoesOn, Executing, Ended
<1>6. \A q \in Reqs : ReadKept(q)'
    BY <1>1, <1>2, ReadStays DEF MutationFails
<1> QED
    BY <1>3, <1>4, <1>5, <1>6, MovesKept DEF MutationFails

(* A commit applies the mutation of its request to what is there now. *)
LEMMA CommitApplies ==
    ASSUME RequestsKept, NEW r \in Reqs, Commit(r)
    PROVE  /\ rows' \in Rows
           /\ rows'.work = [rows.work EXCEPT ![r] = @ + 1]
           /\ rows'.legacy = rows.legacy
<1>1. PICK old \in Rows : old = req[r].read /\ old.work = rows.work
    BY DEF Commit, RequestsKept, ReadKept
<1>2. PICK w \in [Reqs -> Nat] : w = rows.work
    BY DEF RequestsKept, TypeOK, Rows
<1>3. PICK d : d = [w EXCEPT ![r] = w[r] + 1]
    OBVIOUS
<1>4. d \in [Reqs -> Nat] /\ d # w
    BY <1>2, <1>3
<1>5. Draft(r) = [old EXCEPT !.work = d]
    BY <1>1, <1>2, <1>3 DEF Draft
<1>6. Draft(r).work = d /\ Draft(r).legacy = old.legacy
    BY <1>5 DEF Rows
<1>7. rows' = [work |-> d, legacy |-> rows.legacy]
    BY <1>1, <1>2, <1>4, <1>6 DEF Commit, WriteState
<1>8. rows.legacy \in BOOLEAN
    BY DEF RequestsKept, TypeOK, Rows
<1> QED
    BY <1>2, <1>3, <1>4, <1>7, <1>8 DEF Rows

LEMMA CommitKept ==
    ASSUME RequestsKept, NEW r \in Reqs, Commit(r)
    PROVE  RequestsKept'
<1> USE DEF Executing, Ended
<1>1. PICK new \in Requests :
          /\ req' = [req EXCEPT ![r] = new]
          /\ \/ new.pc = "done" /\ KeyOf[r] = NoKey
             \/ new.pc = "executed" /\ KeyOf[r] # NoKey
    <2>1. CASE KeyOf[r] = NoKey
        <3>1. req' = [req EXCEPT ![r] = EndedReq("done", r)]
            BY <2>1 DEF Commit, Committed
        <3>2. EndedReq("done", r) \in Requests /\ EndedReq("done", r).pc = "done"
            BY EndedTyped
        <3> QED
            BY <2>1, <3>1, <3>2
    <2>2. CASE KeyOf[r] # NoKey
        <3> DEFINE new == [NewReq EXCEPT !.pc = "executed", !.proc = req[r].proc]
        <3>1. new \in Requests /\ new.pc = "executed"
            BY NewTyped, Typed DEF RequestsKept, Requests
        <3>2. req' = [req EXCEPT ![r] = new]
            BY <2>2 DEF Commit, Committed
        <3> HIDE DEF new
        <3> QED
            BY <2>2, <3>1, <3>2
    <2> QED
        BY <2>1, <2>2
<1>2. /\ req' \in [Reqs -> Requests] /\ req'[r] = new
      /\ \A q \in Reqs \ {r} : req'[q] = req[q]
      /\ req[r].pc = "ran"
    BY <1>1 DEF RequestsKept, TypeOK, Commit
<1>3. (\A q \in Reqs : InChain(q)') /\ chain' \in [Procs -> Seq(Reqs)]
    BY <1>1, <1>2, ChainShrinks DEF Commit
<1>4. /\ rows' \in Rows
      /\ rows'.work[r] = 1
      /\ \A q \in Reqs \ {r} : rows'.work[q] = rows.work[q]
    <2>1. rows' \in Rows /\ rows'.work = [rows.work EXCEPT ![r] = @ + 1]
        BY CommitApplies
    <2>2. PICK w \in [Reqs -> Nat] : w = rows.work
        BY DEF RequestsKept, TypeOK, Rows
    <2>3. w[r] = 0
        BY <1>2, <2>2 DEF RequestsKept, Counted
    <2>4. rows'.work = [w EXCEPT ![r] = 1]
        BY <2>1, <2>2, <2>3
    <2> QED
        BY <2>1, <2>2, <2>4
<1>5. revision \in Nat /\ revision' = revision + 1 /\ record' = record /\ lost' = lost
    BY DEF Commit, RequestsKept, TypeOK
<1>6. TypeOK'
    BY <1>2, <1>3, <1>4, <1>5 DEF Commit, RequestsKept, TypeOK
<1>7. ASSUME NEW q \in Reqs
      PROVE  ReadKept(q)'
    <2>1. ReadKept(q) /\ req[q].rev \in Nat
        BY Typed DEF RequestsKept, Requests
    <2> QED
        BY <1>1, <1>2, <1>5, <2>1 DEF ReadKept
<1>8. ASSUME NEW q \in Reqs
      PROVE  Counted(q)' /\ Reserves(q)' /\ Shares(q)' /\ AnswerKept(q)'
    <2>1. Counted(q) /\ Reserves(q) /\ Shares(q) /\ AnswerKept(q)
        BY DEF RequestsKept
    <2>2. Reserved(q)' <=> Reserved(q)
        BY <1>5 DEF Reserved
    <2>3. CASE q = r
        BY <1>1, <1>2, <1>4, <1>5, <2>1, <2>2, <2>3 DEF Counted, Reserves, Shares, AnswerKept
    <2>4. CASE q # r
        BY <1>2, <1>4, <1>5, <2>1, <2>2, <2>4 DEF Counted, Reserves, Shares, AnswerKept
    <2> QED
        BY <2>3, <2>4
<1>9. \A q \in Reqs : req'[q].pc \in Executing => req[q].pc \in Executing
    BY <1>2
<1>10. \A q, x \in Reqs : Alone(q, x)'
    BY <1>9 DEF RequestsKept, Alone
<1>11. ASSUME NEW k \in Keys
       PROVE  Completed(k)'
    BY <1>2, <1>4, <1>5 DEF RequestsKept, Completed
<1>12. rows.work[r] = 0
    BY <1>2 DEF RequestsKept, Counted
\* Nobody else has taken effect under this key.
<1>13. \A q \in Reqs : KeyOf[q] = KeyOf[r] /\ KeyOf[r] \in Keys \ lost => rows.work[q] = 0
    BY <1>2, <1>12 DEF RequestsKept, EffectKept, Counted
<1>14. ASSUME NEW q \in Reqs
       PROVE  EffectKept(q)'
    <2>1. CASE q = r
        <3>1. ASSUME KeyOf[r] \in Keys \ lost
              PROVE  /\ record[KeyOf[r]] # None
                     /\ record[KeyOf[r]].status = "pending"
                     /\ req'[r].pc = "executed"
                     /\ \A x \in Reqs : req'[x].pc \in Executing /\ KeyOf[x] = KeyOf[r] => x = r
            <4>1. KeyOf[r] # NoKey
                BY <3>1 DEF Keys
            <4> QED
                BY <1>1, <1>2, <1>9, <4>1 DEF RequestsKept, Reserves, Reserved, Alone
        <3> QED
            BY <1>5, <2>1, <3>1 DEF EffectKept
    <2>2. CASE q # r /\ KeyOf[q] = KeyOf[r]
        BY <1>4, <1>5, <1>13, <2>2 DEF EffectKept
    <2>3. CASE KeyOf[q] # KeyOf[r]
        BY <1>2, <1>4, <1>5, <1>9, <2>3 DEF RequestsKept, EffectKept
    <2> QED
        BY <2>1, <2>2, <2>3
<1>15. AppliedOnce'
    <2> SUFFICES ASSUME NEW q \in Reqs, NEW x \in Reqs, KeyOf[q] = KeyOf[x],
                        KeyOf[x] \in Keys \ lost, rows'.work[x] > 0
                 PROVE  rows'.work[x] = 1 /\ (rows'.work[q] > 0 => q = x)
        BY <1>5 DEF AppliedOnce
    <2>1. CASE KeyOf[x] = KeyOf[r]
        BY <1>4, <1>13, <2>1
    <2>2. CASE KeyOf[x] # KeyOf[r]
        BY <1>4, <2>2 DEF RequestsKept, AppliedOnce
    <2> QED
        BY <2>1, <2>2
<1> QED
    BY <1>3, <1>6, <1>7, <1>8, <1>10, <1>11, <1>14, <1>15 DEF RequestsKept


-----------------------------------------------------------------------------
(* The end of an execution *)

(* Those who are answered with request r: itself, and who shares with it. *)
Answers(q, r) == q = r \/ (req[q].pc = "sharing" /\ req[q].owner = r)

LEMMA SettleKept ==
    ASSUME RequestsKept, NEW r \in Reqs, NEW pc \in Ended, NEW response \in Reqs \cup {None},
           req[r].pc \in {"executed", "failing"}, Settles(r, pc, response),
           UNCHANGED <<rows, revision, marker, file, up, chain, crashes, lost>>,
           record' \in [Keys -> Records \cup {None}]
    PROVE  /\ TypeOK'
           /\ \A q \in Reqs : InChain(q)' /\ ReadKept(q)'
           /\ \A q \in Reqs : IF Answers(q, r)
                              THEN req'[q].pc = pc /\ req'[q].response = response
                              ELSE req'[q] = req[q]
           /\ \A q \in Reqs : Answers(q, r) =>
                 KeyOf[q] = KeyOf[r] /\ PayloadOf[q] = PayloadOf[r]
<1>1. \A q \in Reqs : req'[q] = IF Answers(q, r) THEN EndedReq(pc, response) ELSE req[q]
    BY DEF Settles, Answers
<1>2. /\ EndedReq(pc, response) \in Requests
      /\ EndedReq(pc, response).pc = pc /\ EndedReq(pc, response).response = response
    BY EndedTyped
<1>3. \A q \in Reqs : IF Answers(q, r)
                      THEN req'[q].pc = pc /\ req'[q].response = response
                      ELSE req'[q] = req[q]
    BY <1>1, <1>2
<1>4. req' \in [Reqs -> Requests]
    BY <1>1, <1>2 DEF Settles, RequestsKept, TypeOK
<1>5. TypeOK'
    BY <1>4 DEF RequestsKept, TypeOK
<1>6. \A q \in Reqs : req'[q].pc \in {"queued", "ran"} => req'[q] = req[q]
    BY <1>3 DEF Ended
<1>7. \A q \in Reqs : InChain(q)' /\ ReadKept(q)'
    BY <1>6, ChainStays, ReadStays
<1>8. \A q \in Reqs : Answers(q, r) => KeyOf[q] = KeyOf[r] /\ PayloadOf[q] = PayloadOf[r]
    BY DEF Answers, RequestsKept, Shares
<1> QED
    BY <1>3, <1>5, <1>7, <1>8

LEMMA AbortFailsKept ==
    ASSUME RequestsKept, NEW r \in Reqs, req[r].pc = "failing", Settles(r, "failed", None),
           UNCHANGED <<rows, revision, marker, file, record, up, chain, crashes, lost>>
    PROVE  RequestsKept'
<1>1. record' \in [Keys -> Records \cup {None}] /\ "failed" \in Ended
    BY DEF RequestsKept, TypeOK, Ended
<1>2. /\ TypeOK'
      /\ \A q \in Reqs : InChain(q)' /\ ReadKept(q)'
      /\ \A q \in Reqs : IF Answers(q, r) THEN req'[q].pc = "failed" ELSE req'[q] = req[q]
    BY <1>1, SettleKept
<1>3. \A q \in Reqs : Stays(q) \/ EndsNow(q)
    BY <1>2 DEF Stays, EndsNow, Ended
<1> QED
    BY <1>2, <1>3, MovesKept

(* The key that is freed has no effect: its execution has failed. *)
LEMMA AbortKept ==
    ASSUME RequestsKept, NEW r \in Reqs, Abort(r)
    PROVE  RequestsKept'
<1> USE DEF Executing, Ended
<1>1. CASE ~Reserved(r)
    BY <1>1, AbortFailsKept DEF Abort
<1>2. CASE Reserved(r)
    <2>1. PICK k \in Keys : k = KeyOf[r]
        BY DEF Abort, RequestsKept, Reserves, Keys
    <2>2. /\ record' \in [Keys -> Records \cup {None}]
          /\ record'[k] = None
          /\ \A x \in Keys \ {k} : record'[x] = record[x]
        BY <1>2, <2>1 DEF Abort, RequestsKept, TypeOK
    <2>3. /\ TypeOK'
          /\ \A q \in Reqs : InChain(q)' /\ ReadKept(q)'
          /\ \A q \in Reqs : IF Answers(q, r) THEN req'[q].pc = "failed" ELSE req'[q] = req[q]
          /\ \A q \in Reqs : Answers(q, r) => KeyOf[q] = KeyOf[r]
        BY <2>2, SettleKept DEF Abort
    <2>4. /\ record[k] # None /\ record[k].status = "pending" /\ k # NoKey
          /\ rows' = rows /\ lost' = lost
        BY <1>2, <2>1 DEF Reserved, Abort, Keys
    <2>5. \A q \in Reqs : KeyOf[q] = k /\ q # r => req[q].pc \notin Executing
        BY <2>1, <2>4 DEF RequestsKept, Alone, Abort
    <2>6. k \notin lost => \A q \in Reqs : KeyOf[q] = k => rows.work[q] = 0
        BY <2>1 DEF RequestsKept, EffectKept, Counted, Abort
    <2>7. Answers(r, r)
        BY DEF Answers
    <2>8. \A q \in Reqs : KeyOf[q] # NoKey => KeyOf[q] \in Keys
        BY DEF Keys
    <2>9. ASSUME NEW q \in Reqs
          PROVE  Counted(q)' /\ Reserves(q)' /\ Shares(q)' /\ AnswerKept(q)' /\ EffectKept(q)'
        <3>1. Counted(q) /\ Reserves(q) /\ Shares(q) /\ AnswerKept(q) /\ EffectKept(q)
            BY DEF RequestsKept
        <3>2. CASE Answers(q, r)
            <4>1. Counted(q)' /\ Reserves(q)' /\ Shares(q)' /\ AnswerKept(q)'
                BY <2>3, <2>4, <3>1, <3>2 DEF Counted, Reserves, Shares, AnswerKept
            <4>2. EffectKept(q)'
                BY <2>1, <2>3, <2>4, <2>6, <3>2 DEF EffectKept
            <4> QED
                BY <4>1, <4>2
        <3>3. CASE ~Answers(q, r)
            <4>1. req'[q] = req[q] /\ q # r
                BY <2>3, <2>7, <3>3
            <4>2. Counted(q)' /\ Shares(q)'
                BY <2>4, <3>1, <4>1 DEF Counted, Shares
            <4>3. Reserves(q)'
                BY <2>2, <2>5, <2>8, <3>1, <4>1 DEF Reserves, Reserved
            <4>4. AnswerKept(q)'
                BY <2>2, <2>4, <2>8, <3>1, <4>1 DEF AnswerKept
            <4>5. EffectKept(q)'
                <5>1. CASE KeyOf[q] = k
                    BY <2>4, <2>6, <5>1 DEF EffectKept
                <5>2. CASE KeyOf[q] # k
                    BY <2>2, <2>3, <2>4, <3>1, <4>1, <5>2 DEF EffectKept
                <5> QED
                    BY <5>1, <5>2
            <4> QED
                BY <4>2, <4>3, <4>4, <4>5
        <3> QED
            BY <3>2, <3>3
    <2>10. \A q, x \in Reqs : Alone(q, x)'
        BY <2>3 DEF RequestsKept, Alone
    <2>11. ASSUME NEW x \in Keys
           PROVE  Completed(x)'
        BY <2>2, <2>3, <2>4 DEF RequestsKept, Completed
    <2>12. AppliedOnce'
        BY <2>4 DEF RequestsKept, AppliedOnce
    <2> QED
        BY <2>3, <2>9, <2>10, <2>11, <2>12 DEF RequestsKept
<1> QED
    BY <1>1, <1>2

(* The answer is in the record before anybody has it. *)
LEMMA CompleteKept ==
    ASSUME RequestsKept, NEW r \in Reqs, Complete(r)
    PROVE  RequestsKept'
<1> USE DEF Executing, Ended
<1>1. PICK k \in Keys : k = KeyOf[r]
    BY DEF Complete, RequestsKept, Reserves, Keys
<1>2. record[k] \in Records /\ record[k].payload = PayloadOf[r] /\ k # NoKey
    BY <1>1, Typed DEF Complete, Reserved, RequestsKept, Keys
<1> DEFINE new == [record[k] EXCEPT !.status = "completed", !.response = r]
<1>3. /\ new \in Records /\ new.status = "completed" /\ new.response = r
      /\ new.payload = PayloadOf[r]
    BY <1>2 DEF Records
<1>4. record' = [record EXCEPT ![k] = new]
    BY <1>1 DEF Complete
<1> HIDE DEF new
<1>5. /\ record' \in [Keys -> Records \cup {None}]
      /\ record'[k] = new /\ new # None
      /\ \A x \in Keys \ {k} : record'[x] = record[x]
    BY <1>3, <1>4, NoneApart DEF RequestsKept, TypeOK
<1>6. /\ TypeOK'
      /\ \A q \in Reqs : InChain(q)' /\ ReadKept(q)'
      /\ \A q \in Reqs : IF Answers(q, r) THEN req'[q].pc = "done" /\ req'[q].response = r
                                          ELSE req'[q] = req[q]
      /\ \A q \in Reqs : Answers(q, r) => KeyOf[q] = KeyOf[r] /\ PayloadOf[q] = PayloadOf[r]
    BY <1>5, SettleKept DEF Complete
<1>7. /\ record[k] # None /\ record[k].status = "pending"
      /\ rows' = rows /\ lost' = lost
    BY <1>1 DEF Reserved, Complete
<1>8. \A q \in Reqs : KeyOf[q] = k /\ q # r => req[q].pc \notin Executing
    BY <1>1, <1>2 DEF RequestsKept, Alone, Complete
<1>9. rows.work[r] = 1
    BY DEF RequestsKept, Counted, Complete
<1>10. Answers(r, r)
    BY DEF Answers
<1>11. \A q \in Reqs : KeyOf[q] # NoKey => KeyOf[q] \in Keys
    BY DEF Keys
<1>12. ASSUME NEW q \in Reqs
       PROVE  Counted(q)' /\ Reserves(q)' /\ Shares(q)' /\ AnswerKept(q)'
    <2>1. Counted(q) /\ Reserves(q) /\ Shares(q) /\ AnswerKept(q)
        BY DEF RequestsKept
    <2>2. CASE Answers(q, r)
        <3>1. Counted(q)' /\ Reserves(q)' /\ Shares(q)'
            BY <1>6, <1>7, <2>1, <2>2 DEF Counted, Reserves, Shares
        <3>2. AnswerKept(q)'
            BY <1>1, <1>3, <1>5, <1>6, <2>2 DEF AnswerKept
        <3> QED
            BY <3>1, <3>2
    <2>3. CASE ~Answers(q, r)
        <3>1. req'[q] = req[q] /\ q # r
            BY <1>6, <1>10, <2>3
        <3>2. Counted(q)' /\ Shares(q)'
            BY <1>7, <2>1, <3>1 DEF Counted, Shares
        <3>3. Reserves(q)'
            BY <1>5, <1>8, <1>11, <2>1, <3>1 DEF Reserves, Reserved
        <3>4. AnswerKept(q)'
            BY <1>5, <1>7, <1>11, <2>1, <3>1 DEF AnswerKept
        <3> QED
            BY <3>2, <3>3, <3>4
    <2> QED
        BY <2>2, <2>3
<1>13. \A q, x \in Reqs : Alone(q, x)'
    BY <1>6 DEF RequestsKept, Alone
<1>14. ASSUME NEW x \in Keys
       PROVE  Completed(x)'
    <2>1. CASE x = k
        BY <1>1, <1>3, <1>5, <1>6, <1>7, <1>9, <1>10, <2>1 DEF Completed
    <2>2. CASE x # k
        BY <1>5, <1>6, <1>7, <2>2 DEF RequestsKept, Completed
    <2> QED
        BY <2>1, <2>2
\* Under this key only request r has taken effect.
<1>15. ASSUME NEW q \in Reqs, KeyOf[q] = k, k \notin lost, rows.work[q] = 1
       PROVE  q = r
    BY <1>1, <1>9, <1>15 DEF RequestsKept, EffectKept, Complete
<1>16. ASSUME NEW q \in Reqs
       PROVE  EffectKept(q)'
    <2>1. EffectKept(q)
        BY DEF RequestsKept
    <2>2. \A x \in Reqs : req'[x].pc \in Executing => req'[x] = req[x] /\ ~Answers(x, r)
        BY <1>6
    <2>3. CASE KeyOf[q] = k
        BY <1>3, <1>5, <1>7, <1>8, <1>10, <1>15, <2>2, <2>3 DEF EffectKept
    <2>4. CASE KeyOf[q] # k
        <3>1. ASSUME KeyOf[q] \in Keys \ lost, rows.work[q] = 1
              PROVE  /\ record'[KeyOf[q]] = record[KeyOf[q]]
                     /\ \A x \in Reqs : req'[x].pc \in Executing /\ KeyOf[x] = KeyOf[q] =>
                           x = q /\ req'[q].pc = "executed"
            BY <1>5, <2>1, <2>2, <2>4, <3>1 DEF EffectKept
        <3> QED
            BY <1>7, <2>1, <3>1 DEF EffectKept
    <2> QED
        BY <2>3, <2>4
<1>17. AppliedOnce'
    BY <1>7 DEF RequestsKept, AppliedOnce
<1> QED
    BY <1>6, <1>12, <1>13, <1>14, <1>16, <1>17 DEF RequestsKept


-----------------------------------------------------------------------------
(* Every step *)

LEMMA RequestsStart ==
    ASSUME Init
    PROVE  RequestsKept
<1> USE DEF Init
<1>1. /\ NewReq.pc = "new" /\ \A r \in Reqs : req[r] = NewReq
      /\ rows.work = NoWork /\ rows.legacy = FALSE /\ \A r \in Reqs : rows.work[r] = 0
    BY DEF NewReq, NoWork
<1>2. TypeOK
    <2>1. rows \in Rows
        BY DEF Rows, NoWork
    <2>2. chain \in [Procs -> Seq(Reqs)]
        OBVIOUS
    <2>3. 0 \in 0..MaxCrashes
        BY RequestAssumption DEF RequestAssumption
    <2> QED
        BY <2>1, <2>2, <2>3, NewTyped DEF TypeOK
<1>3. \A r \in Reqs : /\ InChain(r) /\ ReadKept(r) /\ Counted(r) /\ Reserves(r)
                      /\ Shares(r) /\ AnswerKept(r) /\ EffectKept(r)
    BY <1>1 DEF InChain, ReadKept, Counted, Reserves, Shares, AnswerKept, EffectKept, Executing
<1>4. \A q, r \in Reqs : Alone(q, r)
    BY <1>1 DEF Alone, Executing
<1>5. \A k \in Keys : Completed(k)
    BY DEF Completed
<1>6. AppliedOnce
    BY <1>1 DEF AppliedOnce
<1> QED
    BY <1>2, <1>3, <1>4, <1>5, <1>6 DEF RequestsKept

LEMMA RequestsStep ==
    ASSUME RequestsKept, [Next]_vars
    PROVE  RequestsKept'
<1>1. CASE PlaceFile
    BY <1>1, PlaceFileKept
<1>2. ASSUME NEW p \in Procs, Start(p) \/ Crash(p)
      PROVE  RequestsKept'
    BY <1>2, StartKept, CrashKept
<1>3. ASSUME NEW r \in Reqs, NEW p \in Procs, ArriveUnkeyed(r, p) \/ ArriveKeyed(r, p)
      PROVE  RequestsKept'
    BY <1>3, ArriveUnkeyedKept, ArriveKeyedKept
<1>4. ASSUME NEW r \in Reqs, Step(r)
      PROVE  RequestsKept'
    <2>1. AbortFails(r) => RequestsKept'
        BY AbortFailsKept DEF AbortFails
    <2> QED
        BY <1>4, <2>1, ReadStepKept, CommitKept, RerunKept, FailureKept, CompleteKept,
           CompletionFailsKept, AbortKept, PollKept
        DEF Step
<1>5. CASE UNCHANGED vars
    BY <1>5, RestKept DEF vars, RequestsKept, TypeOK
<1> QED
    BY <1>1, <1>2, <1>3, <1>4, <1>5 DEF Next

-----------------------------------------------------------------------------
(* Theorems *)

(* Reservations, answers and effects agree in every state. *)
THEOREM RequestsAreKept == Spec => []RequestsKept
<1>1. RequestsKept /\ [Next]_vars => RequestsKept'
    BY RequestsStep
<1>2. Spec => Init /\ [][Next]_vars
    BY PTL DEF Spec
<1> QED
    BY RequestsStart, <1>1, <1>2, PTL

(* Every state has its types; no handler is run more often than allowed. *)
THEOREM TypesAreKept == Spec => []TypeOK
<1>1. RequestsKept => TypeOK
    BY DEF RequestsKept
<1> QED
    BY <1>1, RequestsAreKept, PTL

(* A key is executed by one request at a time, over all processes. *)
THEOREM ExecutesAlone == Spec => []OneExecution
<1>1. RequestsKept => OneExecution
    <2> SUFFICES ASSUME RequestsKept, NEW k \in Keys
                 PROVE  Cardinality({r \in Reqs : KeyOf[r] = k /\ req[r].pc \in Executing}) <= 1
        BY DEF OneExecution
    <2> DEFINE S == {r \in Reqs : KeyOf[r] = k /\ req[r].pc \in Executing}
    <2>1. \A q, r \in S : q = r
        BY DEF RequestsKept, Alone, Keys
    <2>2. CASE S = {}
        BY <2>2, FS_EmptySet
    <2>3. CASE S # {}
        <3>1. PICK r : S = {r}
            BY <2>1, <2>3
        <3>2. Cardinality({r}) = 1
            BY FS_Singleton
        <3> QED
            BY <3>1, <3>2
    <2> QED
        BY <2>2, <2>3
<1> QED
    BY <1>1, RequestsAreKept, PTL

(* Whoever is answered under a key gets the answer of one execution, of    *)
(* the same data, whose effect is in the database.                         *)
THEOREM AnswersAgree == Spec => []SameAnswer
<1>1. RequestsKept => SameAnswer
    <2> SUFFICES ASSUME RequestsKept, NEW r \in Reqs, KeyOf[r] # NoKey, req[r].pc = "done"
                 PROVE  LET found == record[KeyOf[r]]
                        IN  /\ found # None /\ found.status = "completed"
                            /\ found.response = req[r].response
                            /\ PayloadOf[found.response] = PayloadOf[r]
                            /\ rows.work[found.response] = 1
        BY DEF SameAnswer
    <2>1. KeyOf[r] \in Keys
        BY DEF Keys
    <2> QED
        BY <2>1 DEF RequestsKept, AnswerKept, Completed
<1> QED
    BY <1>1, RequestsAreKept, PTL

(* A key takes effect once, over failures and dead processes, unless a     *)
(* completion under it could not be written.                               *)
THEOREM TakesEffectOnce == Spec => []AppliedOnce
<1>1. RequestsKept => AppliedOnce
    BY DEF RequestsKept
<1> QED
    BY <1>1, RequestsAreKept, PTL

(* A step changes the shared records as one mutation, as an import into an *)
(* empty store, or not at all.                                             *)
LEMMA StepMaps ==
    ASSUME RequestsKept, [Next]_vars
    PROVE  [Store!Next]_<<rows.work, rows.legacy>>
<1>1. CASE rows' = rows
    BY <1>1
<1>2. ASSUME NEW p \in Procs, Start(p)
      PROVE  [Store!Next]_<<rows.work, rows.legacy>>
    <2>1. /\ rows'.work = rows.work
          /\ rows'.legacy # rows.legacy =>
                ~rows.legacy /\ rows'.legacy /\ \A r \in Reqs : rows.work[r] = 0
        BY <1>2, StartKept
    <2>2. rows'.legacy \in BOOLEAN
        BY <1>2, StartKept DEF RequestsKept, TypeOK, Rows
    <2> QED
        BY <2>1, <2>2 DEF Store!Next, Store!Import
<1>3. ASSUME NEW r \in Reqs, Commit(r)
      PROVE  [Store!Next]_<<rows.work, rows.legacy>>
    BY <1>3, CommitApplies DEF Store!Next, Store!Apply
<1>4. \/ rows' = rows
      \/ \E p \in Procs : Start(p)
      \/ \E r \in Reqs : Commit(r)
    BY DEF Next, vars, PlaceFile, Crash, ArriveUnkeyed, ArriveKeyed, Step, Read, Rerun,
           MutationFails, Complete, CompletionFails, Abort, AbortFails, Poll, Deadline
<1> QED
    BY <1>1, <1>2, <1>3, <1>4

(* Optimistic writes with reruns, crashes and imports implement the atomic *)
(* store.                                                                  *)
THEOREM StoreIsAtomic == Spec => ImplementsStore
<1>1. Init => Store!Init
    BY DEF Init, NoWork, Store!Init
<1>2. RequestsKept /\ [Next]_vars => [Store!Next]_<<rows.work, rows.legacy>>
    BY StepMaps
<1>3. Spec => Init /\ [][Next]_vars
    BY PTL DEF Spec
<1> QED
    BY <1>1, <1>2, <1>3, RequestsAreKept, PTL DEF ImplementsStore, Store!Spec
=============================================================================
