----------------------------- MODULE SourceQuota -----------------------------
(***************************************************************************)
(* The durable allowance of one keyed provider: the ledger that           *)
(* src/discovery/source-quota.js keeps in two tables of the SQLite store,  *)
(* and its users, the page loops of the JobsPipe and Adzuna adapters under *)
(* the service's keyedFetch.                                               *)
(*                                                                         *)
(* A JobsPipe page reserves credits, then a request slot, then is sent,    *)
(* answered and settled: five transactions of a scan that others           *)
(* interleave with.  A scan can end, or its process restart, between any   *)
(* two of them.                                                            *)
(*                                                                         *)
(* Left out: the rows themselves, query terms, countries and filters, and  *)
(* every window of a provider that differs from a modelled one only in its *)
(* length (week and month beside day).                                     *)
(***************************************************************************)
EXTENDS Integers, FiniteSets, FiniteSetsExt

CONSTANTS
    Callers,      \* searches that may be under way at once
    Keys,         \* API keys the owner may configure
    Limit,        \* the allowance of each window
    Length,       \* the length of each window, in clock ticks
    RateLimited,  \* SOURCE_COOLDOWN_MS.rate_limited, in ticks
    PageSize,     \* the most credits one page may reserve
    MaxPages,     \* pages (or terms and countries) of one search
    MaxAttempts,  \* waits for a paced window
    Lag,          \* how far a transaction may commit behind the clock it read
    MaxClock,     \* bound: the clock stops there
    None

RequestWindows == {"second", "minute", "day"}
CreditWindows == {"credits_month"}
Windows == RequestWindows \cup CreditWindows

ASSUME WindowAssumption ==
    /\ Limit \in [Windows -> Nat]
    /\ Length \in [Windows -> Nat \ {0}]
    /\ {RateLimited, PageSize, MaxPages, MaxAttempts, Lag, MaxClock} \subseteq Nat
    /\ IsFiniteSet(Callers)

Sources == {"jobspipe", "adzuna"}

(* Windows short enough that the service waits for the next one. *)
Paced == {"second"}

VARIABLES
    source,   \* the provider this ledger belongs to, fixed
    clock,    \* the time
    usage,    \* source_quota_usage: the used amount of each window start
    hold,     \* source_quota_holds: None, or the reason, key and end of a pause
    key,      \* the key in the environment of the server process
    call,     \* the searches under way
    spent,    \* history: what the provider was asked for under each reservation
    paused    \* history: the latest end of a pause written under this key

vars == <<source, clock, usage, hold, key, call, spent, paused>>

-----------------------------------------------------------------------------
(* The windows *)

WindowsOf(s) == IF s = "jobspipe" THEN {"second", "credits_month"} ELSE {"minute", "day"}

Starts == 0..(MaxClock + 1)

StartOf(w, at) == at \div Length[w]

ResetAt(w, at) == (StartOf(w, at) + 1) * Length[w]

-----------------------------------------------------------------------------
(* The ledger's transactions *)

(* Expired pauses are deleted by every reservation. *)
HoldAt(at) == IF hold # None /\ hold.until <= at THEN None ELSE hold

(* Each reserved window keeps the row of its own start only. *)
Pruned(ws, at) ==
    [w \in Windows |-> IF w \in ws
                       THEN [s \in Starts |-> IF s = StartOf(w, at) THEN usage[w][s] ELSE 0]
                       ELSE usage[w]]

(* A credit window grants at most what it still holds. *)
Charge(w, at, wanted) ==
    LET left == Limit[w] - usage[w][StartOf(w, at)]
    IN IF w \in CreditWindows /\ left < wanted THEN left ELSE wanted

(* Defect: a window is full only beyond its limit. *)
FullBeyond(w, at, wanted) ==
    IF w \in CreditWindows
    THEN Charge(w, at, wanted) < 1
    ELSE usage[w][StartOf(w, at)] > Limit[w]

Full(w, at, wanted) ==
    IF w \in CreditWindows
    THEN Charge(w, at, wanted) < 1
    ELSE usage[w][StartOf(w, at)] + wanted > Limit[w]

Refusing(ws, at, wanted) == {w \in ws : Full(w, at, wanted)}

Charged(ws, at, wanted) ==
    [w \in Windows |-> IF w \in ws
                       THEN [Pruned(ws, at)[w] EXCEPT ![StartOf(w, at)] = @ + Charge(w, at, wanted)]
                       ELSE usage[w]]

(* Defect: a settlement may take more than its window still holds. *)
SettledBelowZero(reservation, bill) ==
    [w \in Windows |->
        IF w \in reservation.windows
        THEN [usage[w] EXCEPT ![reservation.start] = @ + bill - reservation.credits]
        ELSE usage[w]]

(* settle: the difference between reservation and bill, never below zero. *)
Settled(reservation, bill) ==
    [w \in Windows |->
        IF w \in reservation.windows
        THEN [usage[w] EXCEPT ![reservation.start] = Max({0, @ + bill - reservation.credits})]
        ELSE usage[w]]

(* Defect: the latest answer decides. *)
HeldLatest(reason, until) ==
    [reason |-> reason, key |-> IF reason = "key_rejected" THEN key ELSE None, until |-> until]

(* hold: a pause is replaced only by one that ends later. *)
Held(reason, until) ==
    LET new == [reason |-> reason, key |-> IF reason = "key_rejected" THEN key ELSE None,
                until |-> until]
    IN IF hold = None \/ hold.until < until THEN new ELSE hold

-----------------------------------------------------------------------------
(* The searches *)

(* How a provider may answer a request that was sent; "unknown" is a lost  *)
(* connection, a timeout, an unreadable body or a process that died.       *)
Outcomes == {"rows", "bad_request", "refused", "key_rejected", "payment", "rate_limited", "unknown"}

Holds == [reason : Outcomes, key : Keys \cup {None}, until : Nat]

ASSUME NoneAssumption == None \notin Keys \cup Holds

Reservations == [credits : 0..PageSize, start : Starts, windows : SUBSET Windows]

Calls ==
    [pc : {"idle", "release", "page", "request", "sent", "answered"}, page : Nat,
     attempts : Nat, wake : Nat, reservation : Reservations, stale : Holds \cup {None},
     outcome : Outcomes \cup {None}, bill : Nat]

NoReservation == [credits |-> 0, start |-> 0, windows |-> {}]

IdleCall == [pc |-> "idle", page |-> 0, attempts |-> 0, wake |-> 0,
             reservation |-> NoReservation, stale |-> None, outcome |-> None, bill |-> 0]

Init ==
    /\ source \in Sources
    /\ clock = 0
    /\ usage = [w \in Windows |-> [s \in Starts |-> 0]]
    /\ hold = None
    /\ key \in Keys
    /\ call = [c \in Callers |-> IdleCall]
    /\ spent = [w \in Windows |-> [s \in Starts |-> 0]]
    /\ paused = 0

(* The clock a transaction has read when it commits. *)
ClocksRead == {at \in 0..clock : clock - Lag <= at}

Ends(c) == call' = [call EXCEPT ![c] = IdleCall]

(* The next page after an answer, if the loop has one. *)
NextPage(c) ==
    \/ Ends(c)
    \/ /\ call[c].page < MaxPages
       /\ call' = [call EXCEPT ![c] = [IdleCall EXCEPT !.pc = "page", !.page = call[c].page]]

(* scan() looks for a pause left by another key, and lifts it in a         *)
(* second call.                                                            *)
BeginSearch(c) ==
    /\ call[c].pc = "idle"
    /\ LET found == IF hold # None /\ clock < hold.until THEN hold ELSE None
       IN call' = [call EXCEPT ![c] =
            IF found # None /\ found.reason = "key_rejected" /\ found.key # key
            THEN [IdleCall EXCEPT !.pc = "release", !.stale = found]
            ELSE [IdleCall EXCEPT !.pc = "page"]]
    /\ UNCHANGED <<source, clock, usage, hold, key, spent, paused>>

ReleaseStaleHold(c) ==
    /\ call[c].pc = "release"
    /\ LET stale == call[c].stale
       IN hold' = IF hold # None /\ hold.reason = stale.reason /\ hold.key = stale.key
                  THEN None ELSE hold
    /\ call' = [call EXCEPT ![c].pc = "page", ![c].stale = None]
    /\ UNCHANGED <<source, clock, usage, key, spent, paused>>

(* quota.reserve(credits): at most what remains, before the page is sized. *)
ReserveCredits(c) ==
    /\ source = "jobspipe" /\ call[c].pc = "page"
    /\ \E at \in ClocksRead, wanted \in 1..PageSize :
        LET w == "credits_month" IN
        /\ hold' = HoldAt(at)
        /\ IF hold' # None
           THEN Ends(c) /\ UNCHANGED usage
           ELSE IF Full(w, at, wanted)
           THEN Ends(c) /\ usage' = Pruned({w}, at)
           ELSE /\ usage' = Charged({w}, at, wanted)
                /\ call' = [call EXCEPT ![c] = [@ EXCEPT
                       !.pc = "request", !.page = call[c].page + 1,
                       !.reservation = [credits |-> Charge(w, at, wanted),
                                        start |-> StartOf(w, at), windows |-> {w}]]]
    /\ UNCHANGED <<source, clock, key, spent, paused>>

(* Adzuna's loops send one request after another; only requests are        *)
(* metered.                                                                *)
NextTerm(c) ==
    /\ source = "adzuna" /\ call[c].pc = "page"
    /\ call' = [call EXCEPT ![c] = [@ EXCEPT !.pc = "request", !.page = call[c].page + 1]]
    /\ UNCHANGED <<source, clock, usage, hold, key, spent, paused>>

(* A request that never left the server costs nothing. *)
NotSent(c) ==
    /\ call' = [call EXCEPT ![c] = [@ EXCEPT !.pc = "answered", !.outcome = "refused", !.bill = 0]]

(* cachedFetch: the budget of the scan is used up. *)
BudgetExhausted(c) ==
    /\ call[c].pc = "request"
    /\ NotSent(c)
    /\ UNCHANGED <<source, clock, usage, hold, key, spent, paused>>

(* keyedFetch: one request slot in every request window, or a wait for the *)
(* next paced window, or a refusal.                                        *)
ReserveRequest(c) ==
    /\ call[c].pc = "request" /\ call[c].wake <= clock
    /\ \E at \in ClocksRead :
        LET ws == WindowsOf(source) \cap RequestWindows
            full == Refusing(ws, at, 1)
        IN
        /\ hold' = HoldAt(at)
        /\ IF hold' # None
           THEN NotSent(c) /\ UNCHANGED <<usage, spent>>
           ELSE IF full # {}
           THEN /\ usage' = Pruned(ws, at)
                /\ UNCHANGED spent
                /\ IF /\ full \subseteq Paced
                      /\ \A w \in full : clock <= ResetAt(w, at)
                      /\ call[c].attempts < MaxAttempts
                   THEN call' = [call EXCEPT ![c] = [@ EXCEPT !.attempts = call[c].attempts + 1,
                            !.wake = Max({ResetAt(w, at) : w \in full})]]
                   ELSE NotSent(c)
           ELSE /\ usage' = Charged(ws, at, 1)
                /\ spent' = [w \in Windows |->
                        IF w \in ws THEN [spent[w] EXCEPT ![StartOf(w, at)] = @ + 1] ELSE spent[w]]
                /\ call' = [call EXCEPT ![c].pc = "sent"]
    /\ UNCHANGED <<source, clock, key, paused>>

(* external: what the provider does with a request.  It bills at most the  *)
(* rows it was asked for, one credit for a 400, nothing for other errors;  *)
(* of an unknown outcome only the provider knows what it billed.           *)
Bills(outcome, credits) ==
    IF source = "adzuna" THEN {0}
    ELSE IF outcome \in {"rows", "unknown"} THEN 0..credits
    ELSE IF outcome = "bad_request" THEN {1} ELSE {0}

ProviderAnswers(c) ==
    /\ call[c].pc = "sent"
    /\ \E outcome \in Outcomes : \E bill \in Bills(outcome, call[c].reservation.credits) :
        LET r == call[c].reservation IN
        /\ source = "adzuna" => outcome \notin {"key_rejected", "payment"}
        /\ call' = [call EXCEPT ![c] = [@ EXCEPT !.pc = "answered", !.outcome = outcome, !.bill = bill]]
        /\ spent' = [w \in Windows |->
                IF w \in r.windows THEN [spent[w] EXCEPT ![r.start] = @ + bill] ELSE spent[w]]
    /\ UNCHANGED <<source, clock, usage, hold, key, paused>>

(* The pause an answer calls for: its reason and its end, or None. *)
PauseAfter(outcome) ==
    CASE outcome = "key_rejected" -> [reason |-> outcome, until |-> 2 * MaxClock + 1]
      [] outcome = "payment" -> [reason |-> outcome, until |-> ResetAt("credits_month", clock)]
      [] outcome = "rate_limited" -> [reason |-> outcome, until |-> clock + RateLimited]
      [] OTHER -> None

(* Defect: an unknown outcome counts as free. *)
BillOfReported(answered) == IF answered.outcome = "unknown" THEN 0 ELSE answered.bill

(* What the bill of an answer is for the ledger: the whole reservation     *)
(* when the outcome is unknown.                                            *)
BillOf(answered) ==
    IF answered.outcome = "unknown" THEN answered.reservation.credits ELSE answered.bill

(* The pause is written, the reservation settled, and the loop goes on     *)
(* after rows only.                                                        *)
HandleAnswer(c) ==
    /\ call[c].pc = "answered"
    /\ LET pause == PauseAfter(call[c].outcome) IN
        /\ hold' = IF pause = None THEN hold ELSE Held(pause.reason, pause.until)
        /\ paused' = IF pause = None THEN paused ELSE Max({paused, pause.until})
    /\ usage' = Settled(call[c].reservation, BillOf(call[c]))
    /\ IF call[c].outcome = "rows" THEN NextPage(c) ELSE Ends(c)
    /\ UNCHANGED <<source, clock, key, spent>>

(* A busy database fails the settlement: the search ends and the           *)
(* reservation stays.                                                      *)
SettlementFails(c) ==
    /\ call[c].pc = "answered" /\ call[c].reservation # NoReservation
    /\ Ends(c)
    /\ UNCHANGED <<source, clock, usage, hold, key, spent, paused>>

(* The server restarts, perhaps with another key: searches are lost and    *)
(* their reservations stay.                                                *)
Restart(k) ==
    /\ call' = [c \in Callers |-> IdleCall]
    /\ call # call' \/ k # key
    /\ key' = k
    /\ paused' = IF k = key THEN paused ELSE 0
    /\ UNCHANGED <<source, clock, usage, hold, spent>>

Tick ==
    /\ clock < MaxClock
    /\ clock' = clock + 1
    /\ UNCHANGED <<source, usage, hold, key, call, spent, paused>>

Next ==
    \/ Tick
    \/ \E k \in Keys : Restart(k)
    \/ \E c \in Callers :
        \/ BeginSearch(c)
        \/ ReleaseStaleHold(c)
        \/ ReserveCredits(c)
        \/ NextTerm(c)
        \/ BudgetExhausted(c)
        \/ ReserveRequest(c)
        \/ ProviderAnswers(c)
        \/ HandleAnswer(c)
        \/ SettlementFails(c)

Spec == Init /\ [][Next]_vars

-----------------------------------------------------------------------------
(* Properties *)

TypeOK ==
    /\ source \in Sources /\ clock \in 0..MaxClock /\ key \in Keys /\ paused \in Nat
    /\ usage \in [Windows -> [Starts -> Nat]]
    /\ spent \in [Windows -> [Starts -> Nat]]
    /\ hold \in Holds \cup {None}
    /\ call \in [Callers -> Calls]

(* What a search holds of the credits of a window and the provider has not *)
(* been asked for yet.                                                     *)
Unspent(search, w, s) ==
    LET r == search.reservation
    IN  IF search.pc \in {"request", "sent"} /\ w \in r.windows /\ r.start = s
        THEN r.credits ELSE 0

(* The sum of what each search has, counted one credit at a time. *)
Total(credits) ==
    Cardinality({credit \in Callers \X (1..PageSize) : credit[2] <= credits[credit[1]]})

Outstanding(w, s) == Total([c \in Callers |-> Unspent(call[c], w, s)])

(* No window of the provider is used beyond its allowance, whatever the    *)
(* interleaving of searches, lost answers, failed settlements and          *)
(* restarts: "concurrent scans and restarts cannot overspend a provider    *)
(* allowance" (source-quota.js 76-78).                                     *)
AllowanceKept == \A w \in Windows, s \in Starts : spent[w][s] <= Limit[w]

(* The ledger never forgets: what it shows used in the current window      *)
(* covers all that was sent under it and all that is still reserved, so a  *)
(* settlement may give back only what the provider did not bill            *)
(* (source-quota.js 118-126, sqlite-store.js 270-285).                     *)
LedgerCovers ==
    \A w \in Windows :
        LET s == StartOf(w, clock) IN usage[w][s] >= spent[w][s] + Outstanding(w, s)

(* The step reserves credits or a request for the search. *)
Grants(c) ==
    \/ call'[c].reservation.credits > call[c].reservation.credits
    \/ call[c].pc = "request" /\ call'[c].pc = "sent"

(* A pause the provider asked for lasts: under the same key no credits and *)
(* no request are reserved before the latest end of the pauses written,    *)
(* though later answers write shorter ones and every new search looks for  *)
(* a pause of another key to lift (sqlite-store.js 287-297,                *)
(* source-quota.js 158-165).                                               *)
PausesLast == [][(\E c \in Callers : Grants(c)) => paused <= clock]_vars
=============================================================================
