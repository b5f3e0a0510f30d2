------------------------- MODULE SourceQuotaProofs -------------------------
(***************************************************************************)
(* Why no window of a provider is used beyond its allowance and why a      *)
(* pause lasts, whatever the searches, the keys, the limits, the lengths   *)
(* of the windows and the answers.  The allowance takes transactions that  *)
(* commit at the clock they have read (Lag = 0): see the README.           *)
(***************************************************************************)
EXTENDS SourceQuota, FiniteSetTheorems, TLAPS

-----------------------------------------------------------------------------
(* The inductive invariants *)

(* A search between pages holds nothing, a provider bills no more than was *)
(* reserved for the request, and a pause that a search is to lift was left *)
(* by another key.                                                         *)
CallKept(x) ==
    /\ x.pc \in {"idle", "release", "page"} => x.reservation.windows = {}
    /\ source = "jobspipe" /\ x.pc \in {"request", "sent"} => x.reservation.credits >= 1
    /\ x.pc = "answered" => x.bill <= x.reservation.credits
    /\ x.pc = "release" =>
        x.stale # None /\ x.stale.reason = "key_rejected" /\ x.stale.key # key

(* A pause that another key left behind. *)
HoldIsStale == hold # None /\ hold.reason = "key_rejected" /\ hold.key # key

(* An answer of the provider may come, or has come. *)
Asked(x) == x.pc = "sent" \/ (x.pc = "answered" /\ x.outcome # "refused")

(* While a stale pause stands nothing is asked, so none is of this key. *)
StaleKept == HoldIsStale => paused = 0 /\ \A c \in Callers : ~Asked(call[c])

PauseKept == paused <= clock \/ (hold # None /\ paused <= hold.until)

QuotaKept ==
    /\ TypeOK
    /\ \A c \in Callers : CallKept(call[c])
    /\ StaleKept
    /\ PauseKept

Claims(x, w, s) == w \in x.reservation.windows /\ x.reservation.start = s

(* What a search may still give back or have billed. *)
Owed(x, w, s) ==
    LET r == x.reservation
    IN  IF Claims(x, w, s)
        THEN IF x.pc \in {"request", "sent"} THEN r.credits
             ELSE IF x.pc = "answered" THEN r.credits - BillOf(x) ELSE 0
        ELSE 0

Due(w, s) == Total([c \in Callers |-> Owed(call[c], w, s)])

(* The row of the current window covers what was sent and what is owed.    *)
CoverKept ==
    \A w \in Windows :
        LET s == StartOf(w, clock) IN usage[w][s] >= spent[w][s] + Due(w, s)

(* A row that was pruned counts no longer, but what was reserved under it  *)
(* may still be billed.                                                    *)
BackingKept ==
    \A w \in Windows, s \in Starts : spent[w][s] + Outstanding(w, s) <= Limit[w]

(* No window is used ahead of its time. *)
FutureKept ==
    \A w \in Windows, s \in Starts :
        s > StartOf(w, clock) =>
            /\ spent[w][s] = 0
            /\ \A c \in Callers : ~Claims(call[c], w, s)

LedgerKept == CoverKept /\ BackingKept /\ FutureKept


-----------------------------------------------------------------------------
(* Sums over the searches *)

Credits == 0..PageSize

Unit(credits) == {credit \in Callers \X (1..PageSize) : credit[2] <= credits[credit[1]]}

LEMMA UnitsAreFinite ==
    ASSUME NEW f
    PROVE  IsFiniteSet(Unit(f)) /\ Total(f) = Cardinality(Unit(f)) /\ Total(f) \in Nat
<1>1. IsFiniteSet(Callers \X (1..PageSize))
    <2>1. IsFiniteSet(1..PageSize)
        BY WindowAssumption, FS_Interval DEF WindowAssumption
    <2> QED
        BY <2>1, WindowAssumption, FS_Product DEF WindowAssumption
<1>2. Unit(f) \in SUBSET (Callers \X (1..PageSize))
    BY DEF Unit
<1>3. IsFiniteSet(Unit(f))
    BY <1>1, <1>2, FS_Subset
<1> QED
    BY <1>3, FS_CardinalityType DEF Total, Unit

(* A sum is what one search has and what the others have. *)
LEMMA UnitsOfOne ==
    ASSUME NEW c \in Callers, NEW n \in Credits
    PROVE  IsFiniteSet({c} \X (1..n)) /\ Cardinality({c} \X (1..n)) = n
<1>1. n \in Nat /\ Cardinality(1..n) = n /\ IsFiniteSet(1..n)
    <2>1. n \in Nat
        BY WindowAssumption DEF Credits, WindowAssumption
    <2> QED
        BY <2>1, FS_Interval
<1>2. IsFiniteSet({c}) /\ Cardinality({c}) = 1
    BY FS_Singleton
<1> QED
    BY <1>1, <1>2, FS_Product

LEMMA TotalSplits ==
    ASSUME NEW f \in [Callers -> Credits], NEW c \in Callers
    PROVE  Total(f) = Total([f EXCEPT ![c] = 0]) + f[c]
<1> DEFINE g == [f EXCEPT ![c] = 0]
           one == {c} \X (1..f[c])
<1>1. f[c] \in 0..PageSize /\ PageSize \in Nat
    BY WindowAssumption DEF Credits, WindowAssumption
<1>2. g[c] = 0 /\ \A d \in Callers : d # c => g[d] = f[d]
    OBVIOUS
<1>3. Unit(f) = Unit(g) \cup one
    <2>1. ASSUME NEW u \in Callers \X (1..PageSize)
          PROVE  u \in Unit(f) <=> u \in Unit(g) \/ u \in one
        <3>1. u = <<u[1], u[2]>> /\ u[1] \in Callers /\ u[2] \in 1..PageSize
            OBVIOUS
        <3>2. CASE u[1] = c
            BY <1>1, <1>2, <3>1, <3>2 DEF Unit
        <3>3. CASE u[1] # c
            BY <1>2, <3>1, <3>3 DEF Unit
        <3> QED
            BY <3>2, <3>3
    <2>2. Unit(f) \subseteq Callers \X (1..PageSize) /\ Unit(g) \subseteq Callers \X (1..PageSize)
        BY DEF Unit
    <2>3. one \subseteq Callers \X (1..PageSize)
        BY <1>1
    <2> HIDE DEF one, g
    <2> QED
        BY <2>1, <2>2, <2>3
<1>4. Unit(g) \cap one = {}
    <2>1. ASSUME NEW u \in Unit(g)
          PROVE  u \notin one
        <3>1. u \in Callers \X (1..PageSize) /\ u[2] <= g[u[1]]
            BY DEF Unit
        <3>2. u[1] # c
            BY <1>1, <1>2, <3>1
        <3> QED
            BY <3>2
    <2> QED
        BY <2>1
<1>5. IsFiniteSet(one) /\ Cardinality(one) = f[c]
    BY UnitsOfOne
<1> HIDE DEF g, one
<1>6. Cardinality(Unit(f)) = Cardinality(Unit(g)) + f[c]
    BY <1>1, <1>3, <1>4, <1>5, UnitsAreFinite, FS_Union, FS_EmptySet
<1> QED
    BY <1>6, UnitsAreFinite DEF g

(* A sum follows the one search that changes. *)
LEMMA TotalChanges ==
    ASSUME NEW f \in [Callers -> Credits], NEW g \in [Callers -> Credits],
           NEW c \in Callers, \A d \in Callers \ {c} : g[d] = f[d]
    PROVE  Total(g) = Total(f) - f[c] + g[c]
<1>1. [f EXCEPT ![c] = 0] = [g EXCEPT ![c] = 0]
    OBVIOUS
<1>2. f[c] \in Nat /\ g[c] \in Nat
    BY WindowAssumption DEF Credits, WindowAssumption
<1>3. PICK h : h = [f EXCEPT ![c] = 0]
    OBVIOUS
<1>4. Total(f) = Total(h) + f[c] /\ Total(g) = Total(h) + g[c]
    BY <1>1, <1>3, TotalSplits
<1>5. Total(f) \in Nat /\ Total(g) \in Nat /\ Total(h) \in Nat
    BY UnitsAreFinite
<1> QED
    BY <1>2, <1>4, <1>5

LEMMA TotalOfNothing ==
    ASSUME NEW f \in [Callers -> Credits], \A c \in Callers : f[c] = 0
    PROVE  Total(f) = 0
<1>1. Unit(f) = {}
    BY DEF Unit
<1> QED
    BY <1>1, UnitsAreFinite, FS_EmptySet

LEMMA TotalGrows ==
    ASSUME NEW f \in [Callers -> Credits], NEW g \in [Callers -> Credits],
           \A c \in Callers : g[c] <= f[c]
    PROVE  Total(g) <= Total(f)
<1>1. \A c \in Callers : f[c] \in Int /\ g[c] \in Int
    BY DEF Credits
<1>2. Unit(g) \in SUBSET Unit(f)
    BY <1>1 DEF Unit
<1> QED
    BY <1>2, UnitsAreFinite, FS_Subset

-----------------------------------------------------------------------------
(* Time *)

LEMMA Division ==
    ASSUME NEW a \in Nat, NEW b \in Nat \ {0}
    PROVE  a \div b \in 0..a /\ a \div b <= (a + 1) \div b
OBVIOUS

LEMMA WindowTypes ==
    ASSUME NEW w \in Windows, NEW at \in 0..MaxClock
    PROVE  /\ Length[w] \in Nat \ {0} /\ Limit[w] \in Nat
           /\ StartOf(w, at) \in Starts /\ StartOf(w, at) \in Nat
           /\ ResetAt(w, at) \in Nat
<1>1. Length[w] \in Nat \ {0} /\ Limit[w] \in Nat /\ at \in Nat /\ at <= MaxClock /\ MaxClock \in Nat
    BY WindowAssumption DEF WindowAssumption
<1>2. StartOf(w, at) \in 0..at
    BY <1>1, Division DEF StartOf
<1>3. ResetAt(w, at) \in Nat
    BY <1>1, <1>2 DEF ResetAt
<1> QED
    BY <1>1, <1>2, <1>3 DEF Starts

LEMMA MaxOfTwo ==
    ASSUME NEW a \in Int, NEW b \in Int
    PROVE  Max({a, b}) = IF a >= b THEN a ELSE b
<1>1. \E x \in {a, b} : \A y \in {a, b} : x >= y
    OBVIOUS
<1>2. \A x \in {a, b} : (\A y \in {a, b} : x >= y) => x = IF a >= b THEN a ELSE b
    OBVIOUS
<1> QED
    BY <1>1, <1>2 DEF Max

-----------------------------------------------------------------------------
(* The rows of the ledger *)

Rows == [Windows -> [Starts -> Nat]]

LEMMA Typed ==
    ASSUME TypeOK
    PROVE  /\ usage \in Rows /\ spent \in Rows /\ call \in [Callers -> Calls]
           /\ clock \in 0..MaxClock /\ clock \in Nat /\ paused \in Nat
           /\ hold # None => hold \in Holds /\ hold.until \in Nat
BY WindowAssumption DEF WindowAssumption, TypeOK, Rows, Holds

LEMMA ClocksTyped ==
    ASSUME TypeOK, NEW at \in ClocksRead
    PROVE  at \in 0..MaxClock /\ at \in Nat /\ at <= clock
BY Typed, WindowAssumption DEF ClocksRead, WindowAssumption

LEMMA RowGrows ==
    ASSUME NEW row \in [Starts -> Nat], NEW s \in Starts, NEW n \in Nat
    PROVE  /\ [row EXCEPT ![s] = @ + n] \in [Starts -> Nat]
           /\ [row EXCEPT ![s] = @ + n][s] = row[s] + n
           /\ \A t \in Starts : t # s => [row EXCEPT ![s] = @ + n][t] = row[t]
OBVIOUS

LEMMA PrunedRows ==
    ASSUME TypeOK, NEW at \in 0..MaxClock, NEW ws \in SUBSET Windows
    PROVE  /\ Pruned(ws, at) \in Rows
           /\ \A w \in Windows : Pruned(ws, at)[w][StartOf(w, at)] = usage[w][StartOf(w, at)]
<1>1. \A w \in Windows : usage[w] \in [Starts -> Nat] /\ StartOf(w, at) \in Starts
    BY Typed, WindowTypes DEF Rows
<1>2. ASSUME NEW w \in Windows
      PROVE  /\ Pruned(ws, at)[w] \in [Starts -> Nat]
             /\ Pruned(ws, at)[w][StartOf(w, at)] = usage[w][StartOf(w, at)]
    <2>1. Pruned(ws, at)[w] = IF w \in ws
            THEN [s \in Starts |-> IF s = StartOf(w, at) THEN usage[w][s] ELSE 0] ELSE usage[w]
        BY DEF Pruned
    <2> QED
        BY <1>1, <2>1
<1>3. Pruned(ws, at) = [w \in Windows |-> Pruned(ws, at)[w]]
    BY DEF Pruned
<1> QED
    BY <1>2, <1>3 DEF Rows

LEMMA ChargedRows ==
    ASSUME TypeOK, NEW at \in 0..MaxClock, NEW ws \in SUBSET Windows, NEW wanted \in Nat \ {0},
           \A w \in ws : ~Full(w, at, wanted)
    PROVE  /\ Charged(ws, at, wanted) \in Rows
           /\ \A w \in ws :
                /\ Charge(w, at, wanted) \in 1..wanted
                /\ Charged(ws, at, wanted)[w][StartOf(w, at)]
                     = usage[w][StartOf(w, at)] + Charge(w, at, wanted)
                /\ usage[w][StartOf(w, at)] + Charge(w, at, wanted) <= Limit[w]
           /\ \A w \in Windows \ ws : Charged(ws, at, wanted)[w] = usage[w]
<1>1. ASSUME NEW w \in ws
      PROVE  /\ Charge(w, at, wanted) \in 1..wanted
             /\ usage[w][StartOf(w, at)] + Charge(w, at, wanted) <= Limit[w]
    <2>1. Limit[w] \in Nat /\ usage[w][StartOf(w, at)] \in Nat
        BY Typed, WindowTypes DEF Rows
    <2>2. CASE w \in CreditWindows
        BY <2>1, <2>2 DEF Full, Charge
    <2>3. CASE w \notin CreditWindows
        BY <2>1, <2>3 DEF Full, Charge
    <2> QED
        BY <2>2, <2>3
<1>2. ASSUME NEW w \in ws
      PROVE  Charged(ws, at, wanted)[w]
               = [Pruned(ws, at)[w] EXCEPT ![StartOf(w, at)] = @ + Charge(w, at, wanted)]
    BY DEF Charged
<1>3. ASSUME NEW w \in ws
      PROVE  /\ Charged(ws, at, wanted)[w] \in [Starts -> Nat]
             /\ Charged(ws, at, wanted)[w][StartOf(w, at)]
                  = usage[w][StartOf(w, at)] + Charge(w, at, wanted)
    <2>1. Pruned(ws, at)[w] \in [Starts -> Nat] /\ StartOf(w, at) \in Starts
          /\ Pruned(ws, at)[w][StartOf(w, at)] = usage[w][StartOf(w, at)]
        BY PrunedRows, WindowTypes DEF Rows
    <2>2. Charge(w, at, wanted) \in Nat /\ usage[w][StartOf(w, at)] \in Nat
        BY <1>1, <2>1, Typed DEF Rows
    <2>3. PICK row \in [Starts -> Nat], t \in Starts, n \in Nat :
            row = Pruned(ws, at)[w] /\ t = StartOf(w, at) /\ n = Charge(w, at, wanted)
        BY <2>1, <2>2
    <2>4. Charged(ws, at, wanted)[w] = [row EXCEPT ![t] = @ + n]
        BY <1>2, <2>3
    <2> QED
        BY <2>1, <2>3, <2>4, RowGrows
<1>4. \A w \in Windows \ ws : Charged(ws, at, wanted)[w] = usage[w]
    BY DEF Charged
<1>5. Charged(ws, at, wanted) \in Rows
    <2>1. \A w \in Windows : Charged(ws, at, wanted)[w] \in [Starts -> Nat]
        BY <1>3, <1>4, Typed DEF Rows
    <2>2. Charged(ws, at, wanted) = [w \in Windows |-> Charged(ws, at, wanted)[w]]
        BY DEF Charged
    <2> QED
        BY <2>1, <2>2 DEF Rows
<1> QED
    BY <1>1, <1>3, <1>4, <1>5

LEMMA ChargedOne ==
    ASSUME TypeOK, NEW at \in 0..MaxClock, NEW m \in Windows, NEW wanted \in Nat \ {0},
           ~Full(m, at, wanted)
    PROVE  \E row \in Rows, n \in 1..wanted, t \in Starts :
             /\ row = Charged({m}, at, wanted) /\ n = Charge(m, at, wanted) /\ t = StartOf(m, at)
             /\ row[m][t] = usage[m][t] + n /\ usage[m][t] + n <= Limit[m]
             /\ \A w \in Windows : w # m => row[w] = usage[w]
<1>1. PICK ws \in SUBSET Windows : ws = {m}
    OBVIOUS
<1>2. \A w \in ws : ~Full(w, at, wanted)
    BY <1>1
<1>3. m \in ws
    BY <1>1
<1>4. /\ Charged(ws, at, wanted) \in Rows
      /\ \A w \in ws :
           /\ Charge(w, at, wanted) \in 1..wanted
           /\ Charged(ws, at, wanted)[w][StartOf(w, at)]
                = usage[w][StartOf(w, at)] + Charge(w, at, wanted)
           /\ usage[w][StartOf(w, at)] + Charge(w, at, wanted) <= Limit[w]
      /\ \A w \in Windows \ ws : Charged(ws, at, wanted)[w] = usage[w]
    BY <1>2, ChargedRows
<1>5. StartOf(m, at) \in Starts
    BY WindowTypes
<1> QED
    BY <1>1, <1>3, <1>4, <1>5

LEMMA SettledRows ==
    ASSUME TypeOK, NEW r \in Reservations, NEW bill \in Nat
    PROVE  /\ Settled(r, bill) \in Rows
           /\ \A w \in Windows, s \in Starts :
                Settled(r, bill)[w][s] =
                  IF w \in r.windows /\ r.start = s
                  THEN IF usage[w][s] + bill - r.credits >= 0 THEN usage[w][s] + bill - r.credits ELSE 0
                  ELSE usage[w][s]
<1>1. r.start \in Starts /\ r.credits \in Nat
    BY WindowAssumption DEF Reservations, WindowAssumption
<1>2. ASSUME NEW w \in Windows
      PROVE  /\ Settled(r, bill)[w] \in [Starts -> Nat]
             /\ \A s \in Starts : Settled(r, bill)[w][s] =
                  IF w \in r.windows /\ r.start = s
                  THEN IF usage[w][s] + bill - r.credits >= 0 THEN usage[w][s] + bill - r.credits ELSE 0
                  ELSE usage[w][s]
    <2>1. usage[w] \in [Starts -> Nat]
        BY Typed DEF Rows
    <2>2. CASE w \in r.windows
        <3> DEFINE n == usage[w][r.start] + bill - r.credits
        <3>1. n \in Int
            BY <1>1, <2>1
        <3>2. Settled(r, bill)[w] = [usage[w] EXCEPT ![r.start] = Max({0, n})]
            BY <2>2 DEF Settled
        <3>3. Max({0, n}) = IF n >= 0 THEN n ELSE 0
            BY <3>1, MaxOfTwo
        <3> DEFINE m == IF n >= 0 THEN n ELSE 0
        <3>4. Settled(r, bill)[w] = [usage[w] EXCEPT ![r.start] = m] /\ m \in Nat
            BY <3>1, <3>2, <3>3
        <3> HIDE DEF m
        <3>5. /\ Settled(r, bill)[w] \in [Starts -> Nat]
              /\ \A s \in Starts :
                   Settled(r, bill)[w][s] = IF r.start = s THEN m ELSE usage[w][s]
            BY <1>1, <2>1, <3>4
        <3> QED
            BY <2>2, <3>5 DEF m
    <2>3. CASE w \notin r.windows
        BY <2>1, <2>3 DEF Settled
    <2> QED
        BY <2>2, <2>3
<1>3. Settled(r, bill) = [w \in Windows |-> Settled(r, bill)[w]]
    BY DEF Settled
<1> QED
    BY <1>2, <1>3 DEF Rows

LEMMA HoldRows ==
    ASSUME TypeOK, NEW at \in ClocksRead
    PROVE  /\ HoldAt(at) \in Holds \cup {None}
           /\ HoldAt(at) # None => HoldAt(at) = hold
           /\ HoldAt(at) = None /\ hold # None => hold.until <= clock
BY Typed, ClocksTyped DEF HoldAt

-----------------------------------------------------------------------------
(* One search moves *)

LEMMA IdleTyped ==
    /\ IdleCall \in Calls /\ NoReservation \in Reservations /\ NoReservation.windows = {}
    /\ IdleCall.pc = "idle" /\ IdleCall.reservation = NoReservation
BY WindowAssumption
DEF WindowAssumption, IdleCall, Calls, NoReservation, Reservations, Starts

LEMMA QuotaStep ==
    ASSUME QuotaKept, NEW c \in Callers, NEW x \in Calls, call' = [call EXCEPT ![c] = x],
           UNCHANGED <<source, clock, key>>, usage' \in Rows, spent' \in Rows,
           CallKept(x), hold' \in Holds \cup {None}, paused' \in Nat, PauseKept',
           HoldIsStale' => HoldIsStale /\ paused' = 0 /\ ~Asked(x)
    PROVE  QuotaKept'
<1>1. call \in [Callers -> Calls]
    BY DEF QuotaKept, TypeOK
<1>2. call'[c] = x /\ \A d \in Callers : d # c => call'[d] = call[d]
    BY <1>1
<1>3. TypeOK'
    BY <1>1 DEF QuotaKept, TypeOK, Rows
<1>4. ASSUME NEW d \in Callers
      PROVE  CallKept(call[d])'
    <2>1. CASE d = c
        BY <1>2, <2>1 DEF CallKept
    <2>2. CASE d # c
        BY <1>2, <2>2 DEF CallKept, QuotaKept
    <2> QED
        BY <2>1, <2>2
<1>5. StaleKept'
    <2>1. ASSUME HoldIsStale', NEW d \in Callers
          PROVE  ~Asked(call[d])'
        <3>1. CASE d = c
            BY <1>2, <2>1, <3>1 DEF Asked
        <3>2. CASE d # c
            BY <1>2, <2>1, <3>2 DEF Asked, QuotaKept, StaleKept
        <3> QED
            BY <3>1, <3>2
    <2> QED
        BY <2>1 DEF StaleKept
<1> QED
    BY <1>3, <1>4, <1>5 DEF QuotaKept

(* What a search owes or has not spent is a number of credits. *)
LEMMA OwedTyped ==
    ASSUME NEW x \in Calls, x.pc = "answered" => x.bill <= x.reservation.credits, NEW w, NEW s
    PROVE  /\ Owed(x, w, s) \in Credits /\ Unspent(x, w, s) \in Credits
           /\ Unspent(x, w, s) <= Owed(x, w, s)
           /\ Owed(x, w, s) \in Nat /\ Unspent(x, w, s) \in Nat
<1>1. PageSize \in Nat /\ x.reservation.credits \in 0..PageSize /\ x.bill \in Nat
    BY WindowAssumption DEF WindowAssumption, Calls, Reservations
<1>2. x.pc = "answered" => BillOf(x) \in 0..x.reservation.credits
    BY <1>1 DEF BillOf
<1> QED
    BY <1>1, <1>2 DEF Owed, Unspent, Claims, Credits

LEMMA SumsTyped ==
    ASSUME QuotaKept, NEW w, NEW s
    PROVE  /\ [c \in Callers |-> Owed(call[c], w, s)] \in [Callers -> Credits]
           /\ [c \in Callers |-> Unspent(call[c], w, s)] \in [Callers -> Credits]
           /\ Due(w, s) \in Nat /\ Outstanding(w, s) \in Nat
           /\ Outstanding(w, s) <= Due(w, s)
<1>1. ASSUME NEW c \in Callers
      PROVE  /\ Owed(call[c], w, s) \in Credits /\ Unspent(call[c], w, s) \in Credits
             /\ Unspent(call[c], w, s) <= Owed(call[c], w, s)
    <2>1. PICK x \in Calls : x = call[c]
        BY DEF QuotaKept, TypeOK
    <2>2. x.pc = "answered" => x.bill <= x.reservation.credits
        BY <2>1 DEF QuotaKept, CallKept
    <2> QED
        BY <2>1, <2>2, OwedTyped
<1> DEFINE f == [c \in Callers |-> Owed(call[c], w, s)]
           g == [c \in Callers |-> Unspent(call[c], w, s)]
<1>2. f \in [Callers -> Credits] /\ g \in [Callers -> Credits]
      /\ \A c \in Callers : g[c] <= f[c]
    BY <1>1
<1>3. Due(w, s) = Total(f) /\ Outstanding(w, s) = Total(g)
    BY DEF Due, Outstanding
<1> HIDE DEF f, g
<1>4. Total(g) <= Total(f)
    <2>1. PICK h \in [Callers -> Credits], i \in [Callers -> Credits] : h = f /\ i = g
        BY <1>2
    <2>2. \A c \in Callers : i[c] <= h[c]
        BY <1>2, <2>1
    <2> QED
        BY <2>1, <2>2, TotalGrows
<1>5. Total(f) \in Nat /\ Total(g) \in Nat
    BY UnitsAreFinite
<1> QED
    BY <1>2, <1>3, <1>4, <1>5 DEF f, g

LEMMA SumsMove ==
    ASSUME QuotaKept, QuotaKept', NEW c \in Callers, NEW x \in Calls,
           call' = [call EXCEPT ![c] = x], NEW w, NEW s
    PROVE  /\ Due(w, s)' = Due(w, s) - Owed(call[c], w, s) + Owed(x, w, s)
           /\ Outstanding(w, s)' = Outstanding(w, s) - Unspent(call[c], w, s) + Unspent(x, w, s)
<1>1. call \in [Callers -> Calls] /\ call'[c] = x /\ \A d \in Callers : d # c => call'[d] = call[d]
    BY DEF QuotaKept, TypeOK
<1> DEFINE f == [d \in Callers |-> Owed(call[d], w, s)]
           g == [d \in Callers |-> Owed(call'[d], w, s)]
           h == [d \in Callers |-> Unspent(call[d], w, s)]
           i == [d \in Callers |-> Unspent(call'[d], w, s)]
<1>2. f \in [Callers -> Credits] /\ h \in [Callers -> Credits]
    BY SumsTyped
<1>3. g \in [Callers -> Credits] /\ i \in [Callers -> Credits]
    <2>1. ASSUME NEW d \in Callers
          PROVE  Owed(call'[d], w, s) \in Credits /\ Unspent(call'[d], w, s) \in Credits
        <3>1. PICK y \in Calls : y = call'[d]
            BY DEF QuotaKept, TypeOK
        <3>2. y.pc = "answered" => y.bill <= y.reservation.credits
            BY <3>1 DEF QuotaKept, CallKept
        <3> QED
            BY <3>1, <3>2, OwedTyped
    <2> QED
        BY <2>1
<1>4. \A d \in Callers \ {c} : g[d] = f[d] /\ i[d] = h[d]
    BY <1>1
<1>5. /\ f[c] = Owed(call[c], w, s) /\ g[c] = Owed(x, w, s)
      /\ h[c] = Unspent(call[c], w, s) /\ i[c] = Unspent(x, w, s)
    BY <1>1
<1>6. /\ Due(w, s) = Total(f) /\ Due(w, s)' = Total(g)
      /\ Outstanding(w, s) = Total(h) /\ Outstanding(w, s)' = Total(i)
    BY DEF Due, Outstanding
<1> HIDE DEF f, g, h, i
<1>7. PICK F \in [Callers -> Credits], G \in [Callers -> Credits] : F = f /\ G = g
    BY <1>2, <1>3
<1>8. PICK H \in [Callers -> Credits], I \in [Callers -> Credits] : H = h /\ I = i
    BY <1>2, <1>3
<1>9. Total(G) = Total(F) - F[c] + G[c]
    BY <1>4, <1>7, TotalChanges
<1>10. Total(I) = Total(H) - H[c] + I[c]
    BY <1>4, <1>8, TotalChanges
<1> QED
    BY <1>5, <1>6, <1>7, <1>8, <1>9, <1>10

LEMMA Numbers ==
    ASSUME QuotaKept, QuotaKept', NEW c \in Callers, NEW x \in Calls,
           call' = [call EXCEPT ![c] = x], NEW w \in Windows, NEW s \in Starts
    PROVE  /\ usage[w][s] \in Nat /\ usage'[w][s] \in Nat
           /\ spent[w][s] \in Nat /\ spent'[w][s] \in Nat
           /\ Owed(x, w, s) \in Nat /\ Unspent(x, w, s) \in Nat
           /\ Owed(call[c], w, s) \in Nat /\ Unspent(call[c], w, s) \in Nat
           /\ Due(w, s) \in Nat /\ Outstanding(w, s) \in Nat /\ Outstanding(w, s) <= Due(w, s)
           /\ Due(w, s)' = Due(w, s) - Owed(call[c], w, s) + Owed(x, w, s)
           /\ Outstanding(w, s)' = Outstanding(w, s) - Unspent(call[c], w, s) + Unspent(x, w, s)
<1>1. /\ Due(w, s)' = Due(w, s) - Owed(call[c], w, s) + Owed(x, w, s)
      /\ Outstanding(w, s)' = Outstanding(w, s) - Unspent(call[c], w, s) + Unspent(x, w, s)
    BY SumsMove
<1>2. Due(w, s) \in Nat /\ Outstanding(w, s) \in Nat /\ Outstanding(w, s) <= Due(w, s)
    BY SumsTyped
<1>3. /\ usage[w][s] \in Nat /\ usage'[w][s] \in Nat
      /\ spent[w][s] \in Nat /\ spent'[w][s] \in Nat
    BY DEF QuotaKept, TypeOK
<1>4. PICK y \in Calls : y = call[c]
    BY DEF QuotaKept, TypeOK
<1>5. call'[c] = x
    BY DEF QuotaKept, TypeOK
<1>6. /\ y.pc = "answered" => y.bill <= y.reservation.credits
      /\ x.pc = "answered" => x.bill <= x.reservation.credits
    BY <1>4, <1>5 DEF QuotaKept, CallKept
<1>7. Owed(x, w, s) \in Nat /\ Unspent(x, w, s) \in Nat
    BY <1>6, OwedTyped
<1>8. Owed(call[c], w, s) \in Nat /\ Unspent(call[c], w, s) \in Nat
    BY <1>4, <1>6, OwedTyped
<1> QED
    BY <1>1, <1>2, <1>3, <1>7, <1>8

(* A step keeps the ledger if the row of each current window follows what  *)
(* the search sends and owes, and what it newly holds was in its row.      *)
LEMMA LedgerStep ==
    ASSUME QuotaKept, QuotaKept', LedgerKept, NEW c \in Callers, NEW x \in Calls,
           call' = [call EXCEPT ![c] = x], UNCHANGED clock,
           \A w \in Windows :
             LET s == StartOf(w, clock)
             IN  usage'[w][s] - usage[w][s] >=
                   (spent'[w][s] + Owed(x, w, s)) - (spent[w][s] + Owed(call[c], w, s)),
           \A w \in Windows, s \in Starts :
             LET more == (spent'[w][s] + Unspent(x, w, s)) - (spent[w][s] + Unspent(call[c], w, s))
             IN  more <= 0 \/ (s = StartOf(w, clock) /\ usage[w][s] + more <= Limit[w]),
           \A w \in Windows, s \in Starts :
             s > StartOf(w, clock) => spent'[w][s] = spent[w][s] /\ ~Claims(x, w, s)
    PROVE  LedgerKept'
<1>1. ASSUME NEW w \in Windows, NEW s \in Starts
      PROVE  /\ usage[w][s] \in Nat /\ usage'[w][s] \in Nat
             /\ spent[w][s] \in Nat /\ spent'[w][s] \in Nat
             /\ Owed(x, w, s) \in Nat /\ Unspent(x, w, s) \in Nat
             /\ Owed(call[c], w, s) \in Nat /\ Unspent(call[c], w, s) \in Nat
             /\ Due(w, s) \in Nat /\ Outstanding(w, s) \in Nat /\ Outstanding(w, s) <= Due(w, s)
             /\ Due(w, s)' = Due(w, s) - Owed(call[c], w, s) + Owed(x, w, s)
             /\ Outstanding(w, s)' = Outstanding(w, s) - Unspent(call[c], w, s) + Unspent(x, w, s)
    BY Numbers
<1>2. \A w \in Windows : StartOf(w, clock) \in Starts /\ Limit[w] \in Nat
    BY WindowTypes, Typed DEF QuotaKept
<1>3. ASSUME NEW w \in Windows
      PROVE  LET s == StartOf(w, clock) IN usage'[w][s] >= spent'[w][s] + Due(w, s)'
    <2> DEFINE s == StartOf(w, clock)
    <2>1. usage[w][s] >= spent[w][s] + Due(w, s)
        BY DEF LedgerKept, CoverKept
    <2>2. s \in Starts
        BY <1>2
    <2>3. usage'[w][s] - usage[w][s] >=
            (spent'[w][s] + Owed(x, w, s)) - (spent[w][s] + Owed(call[c], w, s))
        OBVIOUS
    <2>4. PICK t \in Starts : t = s
        BY <2>2
    <2> HIDE DEF s
    <2>5. usage'[w][t] >= spent'[w][t] + Due(w, t)'
        BY <1>1, <2>1, <2>3, <2>4
    <2> QED
        BY <2>4, <2>5 DEF s, Due
<1>4. ASSUME NEW w \in Windows, NEW s \in Starts
      PROVE  spent'[w][s] + Outstanding(w, s)' <= Limit[w]
    <2> DEFINE more == (spent'[w][s] + Unspent(x, w, s)) - (spent[w][s] + Unspent(call[c], w, s))
    <2>1. spent[w][s] + Outstanding(w, s) <= Limit[w]
        BY DEF LedgerKept, BackingKept
    <2>2. CASE more <= 0
        BY <1>1, <1>2, <2>1, <2>2
    <2>3. CASE s = StartOf(w, clock) /\ usage[w][s] + more <= Limit[w]
        <3>1. usage[w][s] >= spent[w][s] + Due(w, s)
            BY <2>3 DEF LedgerKept, CoverKept
        <3> QED
            BY <1>1, <1>2, <2>3, <3>1
    <2> QED
        BY <2>2, <2>3
<1>5. FutureKept'
    <2>1. ASSUME NEW w \in Windows, NEW s \in Starts, s > StartOf(w, clock)
          PROVE  spent'[w][s] = 0 /\ \A d \in Callers : ~Claims(call'[d], w, s)
        <3>1. spent[w][s] = 0 /\ \A d \in Callers : ~Claims(call[d], w, s)
            BY <2>1 DEF LedgerKept, FutureKept
        <3>2. spent'[w][s] = spent[w][s] /\ ~Claims(x, w, s)
            BY <2>1
        <3>3. \A d \in Callers : call'[d] = x \/ call'[d] = call[d]
            BY DEF QuotaKept, TypeOK
        <3> QED
            BY <3>1, <3>2, <3>3
    <2>2. \A w : StartOf(w, clock)' = StartOf(w, clock)
        BY DEF StartOf
    <2>3. \A d \in Callers, w \in Windows, s \in Starts :
            Claims(call[d], w, s)' <=> Claims(call'[d], w, s)
        BY DEF Claims
    <2> QED
        BY <2>1, <2>2, <2>3 DEF FutureKept
<1>6. CoverKept'
    <2>1. \A w : StartOf(w, clock)' = StartOf(w, clock)
        BY DEF StartOf
    <2> QED
        BY <1>3, <2>1 DEF CoverKept, Due
<1>7. BackingKept'
    BY <1>4 DEF BackingKept
<1> QED
    BY <1>5, <1>6, <1>7 DEF LedgerKept

(* Less is owed and claimed. *)
Shrinks(x, y) ==
    \A w \in Windows, s \in Starts :
        /\ Unspent(x, w, s) <= Unspent(y, w, s) /\ Owed(x, w, s) <= Owed(y, w, s)
        /\ Claims(x, w, s) => Claims(y, w, s)

LEMMA QuietStep ==
    ASSUME QuotaKept, QuotaKept', LedgerKept, NEW c \in Callers, NEW x \in Calls,
           call' = [call EXCEPT ![c] = x], UNCHANGED <<clock, spent>>, Shrinks(x, call[c]),
           \A w \in Windows : usage'[w][StartOf(w, clock)] = usage[w][StartOf(w, clock)]
    PROVE  LedgerKept'
<1>1. ASSUME NEW w \in Windows, NEW s \in Starts
      PROVE  /\ usage[w][s] \in Nat /\ spent[w][s] \in Nat
             /\ Owed(x, w, s) \in Nat /\ Owed(call[c], w, s) \in Nat
             /\ Unspent(x, w, s) \in Nat /\ Unspent(call[c], w, s) \in Nat
    BY Numbers
<1>2. \A w \in Windows : StartOf(w, clock) \in Starts
    BY WindowTypes, Typed DEF QuotaKept
<1>3. ASSUME NEW w \in Windows
      PROVE  LET s == StartOf(w, clock)
             IN  usage'[w][s] - usage[w][s] >=
                   (spent'[w][s] + Owed(x, w, s)) - (spent[w][s] + Owed(call[c], w, s))
    <2>1. PICK s \in Starts : s = StartOf(w, clock)
        BY <1>2
    <2>2. usage'[w][s] = usage[w][s] /\ Owed(x, w, s) <= Owed(call[c], w, s)
        BY <2>1 DEF Shrinks
    <2>3. usage'[w][s] - usage[w][s] >=
            (spent'[w][s] + Owed(x, w, s)) - (spent[w][s] + Owed(call[c], w, s))
        BY <1>1, <2>2
    <2> QED
        BY <2>1, <2>3
<1>4. ASSUME NEW w \in Windows, NEW s \in Starts
      PROVE  (spent'[w][s] + Unspent(x, w, s)) - (spent[w][s] + Unspent(call[c], w, s)) <= 0
    BY <1>1 DEF Shrinks
<1>5. ASSUME NEW w \in Windows, NEW s \in Starts, s > StartOf(w, clock)
      PROVE  spent'[w][s] = spent[w][s] /\ ~Claims(x, w, s)
    BY <1>5 DEF Shrinks, LedgerKept, FutureKept
<1> QED
    BY <1>3, <1>4, <1>5, LedgerStep

LEMMA NothingReserved ==
    ASSUME QuotaKept, NEW c \in Callers, NEW x \in Calls, x.reservation.windows = {}
    PROVE  Shrinks(x, call[c])
<1>1. PICK y \in Calls : y = call[c]
    BY DEF QuotaKept, TypeOK
<1>2. y.pc = "answered" => y.bill <= y.reservation.credits
    BY <1>1 DEF QuotaKept, CallKept
<1>3. \A w, s : Owed(y, w, s) \in Nat /\ Unspent(y, w, s) \in Nat
    BY <1>2, OwedTyped
<1>4. \A w, s : Owed(x, w, s) = 0 /\ Unspent(x, w, s) = 0 /\ ~Claims(x, w, s)
    BY DEF Owed, Unspent, Claims
<1> QED
    BY <1>1, <1>3, <1>4 DEF Shrinks

(* A request that waits, or that was not sent, claims what it did. *)
LEMMA StillReserved ==
    ASSUME NEW x \in Calls, NEW y \in Calls, x.reservation = y.reservation,
           y.pc = "request",
           x.pc \in {"request", "sent"} \/ (x.pc = "answered" /\ x.outcome = "refused" /\ x.bill = 0)
    PROVE  Shrinks(x, y)
<1>1. x.reservation.credits \in Nat
    BY WindowAssumption DEF WindowAssumption, Calls, Reservations
<1> QED
    BY <1>1 DEF Shrinks, Owed, Unspent, Claims, BillOf

LEMMA IdleIsKept ==
    /\ CallKept(IdleCall) /\ ~Asked(IdleCall) /\ IdleCall.reservation.windows = {}
BY IdleTyped DEF CallKept, Asked

(* The pause may have expired. *)
LEMMA HoldExpires ==
    ASSUME QuotaKept, NEW at \in ClocksRead, hold' = HoldAt(at), UNCHANGED <<clock, key, paused>>
    PROVE  /\ hold' \in Holds \cup {None} /\ PauseKept'
           /\ HoldIsStale' => HoldIsStale /\ paused' = 0 /\ hold' # None
           /\ hold' = None => paused <= clock
<1>1. TypeOK /\ PauseKept /\ StaleKept
    BY DEF QuotaKept
<1>2. /\ hold' \in Holds \cup {None} /\ (hold' # None => hold' = hold)
      /\ (hold' = None /\ hold # None => hold.until <= clock)
    BY <1>1, HoldRows
<1>3. clock \in Nat /\ paused \in Nat /\ (hold # None => hold.until \in Nat)
    BY <1>1, Typed
<1>4. PauseKept'
    BY <1>1, <1>2, <1>3 DEF PauseKept
<1>5. HoldIsStale' => HoldIsStale /\ paused' = 0 /\ hold' # None
    BY <1>1, <1>2 DEF HoldIsStale, StaleKept
<1>6. hold' = None => paused <= clock
    BY <1>1, <1>2, <1>3 DEF PauseKept
<1> QED
    BY <1>2, <1>4, <1>5, <1>6

(* The pause stays. *)
LEMMA HoldStays ==
    ASSUME QuotaKept, UNCHANGED <<clock, key, hold, paused>>
    PROVE  /\ hold' \in Holds \cup {None} /\ PauseKept' /\ paused' \in Nat
           /\ HoldIsStale' => HoldIsStale /\ paused' = 0
<1>1. TypeOK /\ PauseKept /\ StaleKept
    BY DEF QuotaKept
<1>2. hold' \in Holds \cup {None} /\ paused' \in Nat
    BY <1>1 DEF TypeOK
<1>3. PauseKept'
    BY <1>1 DEF PauseKept
<1>4. HoldIsStale' => HoldIsStale /\ paused' = 0
    BY <1>1 DEF HoldIsStale, StaleKept
<1> QED
    BY <1>2, <1>3, <1>4

-----------------------------------------------------------------------------
(* The steps of a search *)

LEMMA BeginSearchKeeps ==
    ASSUME QuotaKept, NEW c \in Callers, BeginSearch(c)
    PROVE  QuotaKept' /\ (LedgerKept => LedgerKept')
<1> DEFINE found == IF hold # None /\ clock < hold.until THEN hold ELSE None
<1>1. TypeOK
    BY DEF QuotaKept
<1>2. \/ /\ found # None /\ found.reason = "key_rejected" /\ found.key # key
         /\ call' = [call EXCEPT ![c] = [IdleCall EXCEPT !.pc = "release", !.stale = found]]
      \/ call' = [call EXCEPT ![c] = [IdleCall EXCEPT !.pc = "page"]]
    BY DEF BeginSearch
<1>3. found \in Holds \cup {None}
    BY <1>1, Typed
<1> HIDE DEF found
<1>4. \E x \in Calls :
        /\ call' = [call EXCEPT ![c] = x] /\ CallKept(x) /\ ~Asked(x)
        /\ x.reservation.windows = {}
    <2>1. CASE /\ found # None /\ found.reason = "key_rejected" /\ found.key # key
               /\ call' = [call EXCEPT ![c] = [IdleCall EXCEPT !.pc = "release", !.stale = found]]
        <3>1. PICK x : x = [IdleCall EXCEPT !.pc = "release", !.stale = found]
            OBVIOUS
        <3>2. x \in Calls /\ x.pc = "release" /\ x.stale = found /\ x.reservation = NoReservation
            BY <1>3, <3>1, IdleTyped DEF IdleCall, Calls
        <3> QED
            BY <2>1, <3>1, <3>2, IdleTyped DEF CallKept, Asked
    <2>2. CASE call' = [call EXCEPT ![c] = [IdleCall EXCEPT !.pc = "page"]]
        <3>1. PICK x : x = [IdleCall EXCEPT !.pc = "page"]
            OBVIOUS
        <3>2. x \in Calls /\ x.pc = "page" /\ x.reservation = NoReservation
            BY <3>1, IdleTyped DEF IdleCall, Calls
        <3> QED
            BY <2>2, <3>1, <3>2, IdleTyped DEF CallKept, Asked
    <2> QED
        BY <1>2, <2>1, <2>2
<1>5. PICK x \in Calls :
        /\ call' = [call EXCEPT ![c] = x] /\ CallKept(x) /\ ~Asked(x)
        /\ x.reservation.windows = {}
    BY <1>4
<1>6. QuotaKept'
    BY <1>1, <1>5, Typed, HoldStays, QuotaStep DEF BeginSearch
<1>7. LedgerKept => LedgerKept'
    BY <1>5, <1>6, NothingReserved, QuietStep, SMTT(30), ZenonT(40) DEF BeginSearch
<1> QED
    BY <1>6, <1>7

LEMMA EndsKeeps ==
    ASSUME QuotaKept, NEW c \in Callers, Ends(c), UNCHANGED <<source, clock, key, usage, hold, spent, paused>>
    PROVE  QuotaKept' /\ (LedgerKept => LedgerKept')
<1>1. IdleCall \in Calls /\ call' = [call EXCEPT ![c] = IdleCall]
    BY IdleTyped DEF Ends
<1>2. QuotaKept'
    BY <1>1, IdleIsKept, Typed, HoldStays, QuotaStep DEF QuotaKept
<1>3. LedgerKept => LedgerKept'
    BY <1>1, <1>2, IdleIsKept, NothingReserved, QuietStep
<1> QED
    BY <1>2, <1>3

LEMMA SettlementFailsKeeps ==
    ASSUME QuotaKept, NEW c \in Callers, SettlementFails(c)
    PROVE  QuotaKept' /\ (LedgerKept => LedgerKept')
BY EndsKeeps DEF SettlementFails

LEMMA ReleaseStaleHoldKeeps ==
    ASSUME QuotaKept, NEW c \in Callers, ReleaseStaleHold(c)
    PROVE  QuotaKept' /\ (LedgerKept => LedgerKept')
<1>1. PICK y \in Calls : y = call[c]
    BY DEF QuotaKept, TypeOK
<1>2. y.pc = "release" /\ CallKept(y)
    BY <1>1 DEF QuotaKept, ReleaseStaleHold
<1>3. PICK x : x = [y EXCEPT !.pc = "page", !.stale = None]
    OBVIOUS
<1>4. x \in Calls /\ x.pc = "page" /\ x.reservation = y.reservation
    BY <1>3 DEF Calls
<1>5. call' = [call EXCEPT ![c] = x]
    BY <1>1, <1>3 DEF ReleaseStaleHold
<1>6. CallKept(x) /\ ~Asked(x)
    BY <1>2, <1>4 DEF CallKept, Asked
<1>7. hold' = hold \/ (hold' = None /\ HoldIsStale)
    BY <1>1, <1>2 DEF ReleaseStaleHold, CallKept, HoldIsStale
<1>8. /\ TypeOK /\ PauseKept /\ StaleKept
      /\ UNCHANGED <<source, clock, usage, key, spent, paused>>
    BY DEF QuotaKept, ReleaseStaleHold
<1>9. hold' \in Holds \cup {None} /\ PauseKept' /\ (HoldIsStale' => HoldIsStale /\ paused' = 0)
    <2>1. CASE hold' = hold
        BY <1>8, <2>1, HoldStays
    <2>2. CASE hold' = None /\ HoldIsStale
        <3>1. paused' <= clock'
            BY <1>8, <2>2, Typed DEF StaleKept
        <3> QED
            BY <2>2, <3>1 DEF PauseKept, HoldIsStale
    <2> QED
        BY <1>7, <2>1, <2>2
<1>10. QuotaKept'
    BY <1>4, <1>5, <1>6, <1>8, <1>9, Typed, QuotaStep
<1>11. LedgerKept => LedgerKept'
    BY <1>2, <1>4, <1>5, <1>8, <1>10, NothingReserved, QuietStep DEF CallKept
<1> QED
    BY <1>10, <1>11

LEMMA NextTermKeeps ==
    ASSUME QuotaKept, NEW c \in Callers, NextTerm(c)
    PROVE  QuotaKept' /\ (LedgerKept => LedgerKept')
<1>1. PICK y \in Calls : y = call[c]
    BY DEF QuotaKept, TypeOK
<1>2. PICK n \in Nat : n = y.page + 1
    BY DEF Calls
<1> DEFINE x == [y EXCEPT !.pc = "request", !.page = n]
<1>3. x \in Calls /\ x.pc = "request" /\ x.reservation = y.reservation
    BY DEF Calls
<1>4. call' = [call EXCEPT ![c] = x]
    BY <1>1, <1>2 DEF NextTerm
<1> HIDE DEF x
<1>5. CallKept(x) /\ ~Asked(x)
    BY <1>3 DEF CallKept, Asked, NextTerm
<1>6. QuotaKept'
    BY <1>3, <1>4, <1>5, HoldStays, Typed, QuotaStep DEF NextTerm, QuotaKept
<1>7. x.reservation.windows = {}
    BY <1>1, <1>3 DEF QuotaKept, CallKept, NextTerm
<1>8. LedgerKept => LedgerKept'
    BY <1>3, <1>4, <1>6, <1>7, NothingReserved, QuietStep DEF NextTerm
<1> QED
    BY <1>6, <1>8

(* A request that is refused here. *)
LEMMA NotSentKeeps ==
    ASSUME QuotaKept, NEW c \in Callers, call[c].pc = "request", NotSent(c)
    PROVE  \E x \in Calls :
             /\ call' = [call EXCEPT ![c] = x] /\ CallKept(x) /\ ~Asked(x)
             /\ Shrinks(x, call[c])
<1>1. PICK y \in Calls : y = call[c]
    BY DEF QuotaKept, TypeOK
<1>2. PICK x : x = [y EXCEPT !.pc = "answered", !.outcome = "refused", !.bill = 0]
    OBVIOUS
<1>3. /\ x \in Calls /\ x.pc = "answered" /\ x.outcome = "refused" /\ x.bill = 0
      /\ x.reservation = y.reservation
    BY <1>2 DEF Calls, Outcomes
<1>4. call' = [call EXCEPT ![c] = x]
    BY <1>1, <1>2 DEF NotSent
<1>5. CallKept(x) /\ ~Asked(x)
    <2>1. x.reservation.credits \in Nat
        BY <1>3, WindowAssumption DEF Calls, Reservations, WindowAssumption
    <2> QED
        BY <1>3, <2>1 DEF CallKept, Asked
<1>6. Shrinks(x, y)
    BY <1>1, <1>3, StillReserved
<1> QED
    BY <1>1, <1>3, <1>4, <1>5, <1>6

LEMMA BudgetExhaustedKeeps ==
    ASSUME QuotaKept, NEW c \in Callers, BudgetExhausted(c)
    PROVE  QuotaKept' /\ (LedgerKept => LedgerKept')
<1>1. PICK x \in Calls :
        /\ call' = [call EXCEPT ![c] = x] /\ CallKept(x) /\ ~Asked(x)
        /\ Shrinks(x, call[c])
    BY NotSentKeeps DEF BudgetExhausted
<1>2. QuotaKept'
    BY <1>1, HoldStays, Typed, QuotaStep DEF BudgetExhausted, QuotaKept
<1>3. LedgerKept => LedgerKept'
    BY <1>1, <1>2, QuietStep DEF BudgetExhausted
<1> QED
    BY <1>2, <1>3

LEMMA NoLag ==
    ASSUME QuotaKept, Lag = 0, NEW at \in ClocksRead
    PROVE  at = clock
BY Typed DEF ClocksRead, QuotaKept

(* Rows are pruned and nothing is reserved. *)
LEMMA PrunedKeeps ==
    ASSUME QuotaKept, QuotaKept', LedgerKept, Lag = 0, NEW c \in Callers, NEW x \in Calls,
           call' = [call EXCEPT ![c] = x], UNCHANGED <<clock, spent>>, Shrinks(x, call[c]),
           NEW at \in ClocksRead, NEW ws \in SUBSET Windows, usage' = Pruned(ws, at)
    PROVE  LedgerKept'
<1>1. TypeOK /\ at = clock /\ at \in 0..MaxClock
    BY NoLag, Typed DEF QuotaKept
<1>2. \A w \in Windows : usage'[w][StartOf(w, clock)] = usage[w][StartOf(w, clock)]
    BY <1>1, PrunedRows
<1> QED
    BY <1>2, QuietStep

(* The charge of a window that was not full is reserved with it. *)
LEMMA GrantCovered ==
    ASSUME QuotaKept, QuotaKept', LedgerKept, NEW c \in Callers, NEW x \in Calls,
           call' = [call EXCEPT ![c] = x], UNCHANGED <<clock, spent>>,
           call[c].reservation.windows = {}, x.pc = "request",
           NEW m \in Windows, NEW t \in Starts, NEW n \in Nat, t = StartOf(m, clock),
           usage'[m][t] = usage[m][t] + n, usage[m][t] + n <= Limit[m],
           \A w \in Windows : w # m => usage'[w] = usage[w],
           x.reservation = [credits |-> n, start |-> t, windows |-> {m}]
    PROVE  LedgerKept'
<1>1. clock \in 0..MaxClock
    BY Typed DEF QuotaKept
<1>2. \A w \in Windows : StartOf(w, clock) \in Starts
    BY <1>1, WindowTypes
<1>3. ASSUME NEW w \in Windows, NEW s \in Starts
      PROVE  /\ usage[w][s] \in Nat /\ usage'[w][s] \in Nat /\ spent[w][s] \in Nat
             /\ Owed(call[c], w, s) = 0 /\ Unspent(call[c], w, s) = 0
    BY Numbers DEF Owed, Unspent, Claims
<1>4. ASSUME NEW w \in Windows, NEW s \in Starts
      PROVE  IF w = m /\ s = t
             THEN Owed(x, w, s) = n /\ Unspent(x, w, s) = n
             ELSE Owed(x, w, s) = 0 /\ Unspent(x, w, s) = 0 /\ ~Claims(x, w, s)
    BY DEF Owed, Unspent, Claims
<1>5. ASSUME NEW w \in Windows
      PROVE  LET s == StartOf(w, clock)
             IN  usage'[w][s] - usage[w][s] >=
                   (spent'[w][s] + Owed(x, w, s)) - (spent[w][s] + Owed(call[c], w, s))
    <2>1. PICK s \in Starts : s = StartOf(w, clock)
        BY <1>2
    <2>2. usage'[w][s] = usage[w][s] + Owed(x, w, s) /\ Owed(x, w, s) \in Nat
        <3>1. CASE w = m
            BY <1>3, <1>4, <2>1, <3>1
        <3>2. CASE w # m
            BY <1>3, <1>4, <3>2
        <3> QED
            BY <3>1, <3>2
    <2>3. usage'[w][s] - usage[w][s] >=
            (spent'[w][s] + Owed(x, w, s)) - (spent[w][s] + Owed(call[c], w, s))
        BY <1>3, <2>2
    <2> QED
        BY <2>1, <2>3
<1>6. ASSUME NEW w \in Windows, NEW s \in Starts
      PROVE  LET more == (spent'[w][s] + Unspent(x, w, s)) - (spent[w][s] + Unspent(call[c], w, s))
             IN  more <= 0 \/ (s = StartOf(w, clock) /\ usage[w][s] + more <= Limit[w])
    <2>1. CASE w = m /\ s = t
        <3>1. (spent'[w][s] + Unspent(x, w, s)) - (spent[w][s] + Unspent(call[c], w, s)) = n
            BY <1>3, <1>4, <2>1
        <3> QED
            BY <2>1, <3>1
    <2>2. CASE ~(w = m /\ s = t)
        BY <1>3, <1>4, <2>2
    <2> QED
        BY <2>1, <2>2
<1>7. ASSUME NEW w \in Windows, NEW s \in Starts, s > StartOf(w, clock)
      PROVE  spent'[w][s] = spent[w][s] /\ ~Claims(x, w, s)
    <2>1. ~(w = m /\ s = t)
        BY <1>7 DEF Starts
    <2> QED
        BY <1>4, <2>1
<1> QED
    BY <1>5, <1>6, <1>7, LedgerStep

LEMMA ReserveCreditsKeeps ==
    ASSUME QuotaKept, NEW c \in Callers, ReserveCredits(c)
    PROVE  QuotaKept' /\ (Lag = 0 /\ LedgerKept => LedgerKept')
<1>1. PICK m \in Windows : m = "credits_month"
    BY DEF Windows, CreditWindows
<1>2. PICK at \in ClocksRead, wanted \in 1..PageSize :
        /\ hold' = HoldAt(at)
        /\ \/ Ends(c) /\ usage' = usage
           \/ Ends(c) /\ usage' = Pruned({m}, at)
           \/ /\ ~Full(m, at, wanted) /\ hold' = None
              /\ usage' = Charged({m}, at, wanted)
              /\ call' = [call EXCEPT ![c] = [call[c] EXCEPT
                   !.pc = "request", !.page = call[c].page + 1,
                   !.reservation = [credits |-> Charge(m, at, wanted),
                                    start |-> StartOf(m, at), windows |-> {m}]]]
    BY <1>1 DEF ReserveCredits
<1>3. /\ TypeOK /\ at \in 0..MaxClock /\ wanted \in Nat \ {0} /\ wanted <= PageSize
      /\ PageSize \in Nat
    BY ClocksTyped, WindowAssumption DEF QuotaKept, WindowAssumption
<1>4. /\ hold' \in Holds \cup {None} /\ PauseKept'
      /\ HoldIsStale' => HoldIsStale /\ paused' = 0 /\ hold' # None
    BY <1>2, HoldExpires DEF ReserveCredits
<1>5. paused' \in Nat /\ spent' \in Rows /\ UNCHANGED <<source, clock, key, spent, paused>>
    BY <1>3, Typed DEF ReserveCredits
<1>6. CASE Ends(c) /\ usage' \in {usage, Pruned({m}, at)}
    <2>1. usage' \in Rows
        BY <1>3, <1>6, Typed, PrunedRows
    <2>2. IdleCall \in Calls /\ call' = [call EXCEPT ![c] = IdleCall]
        BY <1>6, IdleTyped DEF Ends
    <2>3. QuotaKept'
        BY <1>4, <1>5, <2>1, <2>2, IdleIsKept, QuotaStep
    <2>4. Lag = 0 /\ LedgerKept => LedgerKept'
        <3>1. Shrinks(IdleCall, call[c])
            BY <2>2, IdleIsKept, NothingReserved
        <3>2. CASE usage' = usage
            BY <1>5, <2>2, <2>3, <3>1, <3>2, QuietStep
        <3>3. CASE usage' = Pruned({m}, at)
            BY <1>3, <1>5, <2>2, <2>3, <3>1, <3>3, PrunedKeeps
        <3> QED
            BY <1>6, <3>2, <3>3
    <2> QED
        BY <2>3, <2>4
<1>7. CASE /\ ~Full(m, at, wanted) /\ hold' = None
           /\ usage' = Charged({m}, at, wanted)
           /\ call' = [call EXCEPT ![c] = [call[c] EXCEPT
                !.pc = "request", !.page = call[c].page + 1,
                !.reservation = [credits |-> Charge(m, at, wanted),
                                 start |-> StartOf(m, at), windows |-> {m}]]]
    <2>1. \E row \in Rows, k \in 1..wanted, t \in Starts :
            /\ row = Charged({m}, at, wanted) /\ k = Charge(m, at, wanted) /\ t = StartOf(m, at)
            /\ row[m][t] = usage[m][t] + k /\ usage[m][t] + k <= Limit[m]
            /\ \A w \in Windows : w # m => row[w] = usage[w]
        BY <1>3, <1>7, ChargedOne
    <2>2. PICK row \in Rows, k \in 1..wanted, t \in Starts :
            /\ row = Charged({m}, at, wanted) /\ k = Charge(m, at, wanted) /\ t = StartOf(m, at)
            /\ row[m][t] = usage[m][t] + k /\ usage[m][t] + k <= Limit[m]
            /\ \A w \in Windows : w # m => row[w] = usage[w]
        BY <2>1
    <2>3. PICK y \in Calls : y = call[c]
        BY DEF QuotaKept, TypeOK
    <2>4. PICK n \in Nat : n = y.page + 1
        BY DEF Calls
    <2>5. PICK r \in Reservations : r = [credits |-> k, start |-> t, windows |-> {m}]
        <3>1. k \in 0..PageSize /\ {m} \in SUBSET Windows
            BY <1>3
        <3> QED
            BY <3>1 DEF Reservations
    <2> DEFINE x == [y EXCEPT !.pc = "request", !.page = n, !.reservation = r]
    <2>6. x \in Calls /\ x.pc = "request" /\ x.reservation = r
        BY DEF Calls
    <2>7. call' = [call EXCEPT ![c] = x] /\ usage' = row
        BY <1>7, <2>2, <2>3, <2>4, <2>5
    <2> HIDE DEF x
    <2>8. CallKept(x)
        BY <2>5, <2>6 DEF CallKept
    <2>9. QuotaKept'
        BY <1>4, <1>5, <1>7, <2>6, <2>7, <2>8, QuotaStep
    <2>10. Lag = 0 /\ LedgerKept => LedgerKept'
        <3>1. call[c].reservation.windows = {}
            BY DEF ReserveCredits, QuotaKept, CallKept
        <3>2. ASSUME Lag = 0, LedgerKept
              PROVE  LedgerKept'
            <4>1. t = StartOf(m, clock)
                BY <2>2, <3>2, NoLag
            <4>2. usage'[m][t] = usage[m][t] + k /\ \A w \in Windows : w # m => usage'[w] = usage[w]
                BY <2>2, <2>7
            <4>3. k \in Nat /\ UNCHANGED <<clock, spent>>
                BY <1>5
            <4> QED
                <5>1. PICK i \in Nat : i = k
                    BY <4>3
                <5>2. /\ x.reservation = [credits |-> i, start |-> t, windows |-> {m}]
                      /\ usage'[m][t] = usage[m][t] + i /\ usage[m][t] + i <= Limit[m]
                    BY <2>2, <2>5, <2>6, <4>2, <5>1
                <5> QED
                    BY <2>6, <2>7, <2>9, <3>1, <3>2, <4>1, <4>2, <4>3, <5>2, GrantCovered
        <3> QED
            BY <3>2
    <2> QED
        BY <2>9, <2>10
<1> QED
    BY <1>2, <1>6, <1>7


(* The rows with an amount added to one start of each window. *)
Grown(rows, ws, start, n) ==
    [w \in Windows |-> IF w \in ws THEN [rows[w] EXCEPT ![start[w]] = @ + n] ELSE rows[w]]

LEMMA RowsGrow ==
    ASSUME NEW rows \in Rows, NEW ws \in SUBSET Windows, NEW start \in [Windows -> Starts],
           NEW n \in Nat
    PROVE  /\ Grown(rows, ws, start, n) \in Rows
           /\ \A w \in Windows, s \in Starts :
                Grown(rows, ws, start, n)[w][s] =
                  IF w \in ws /\ s = start[w] THEN rows[w][s] + n ELSE rows[w][s]
<1>1. PICK new : new = Grown(rows, ws, start, n)
    OBVIOUS
<1>2. ASSUME NEW w \in Windows
      PROVE  /\ new[w] \in [Starts -> Nat]
             /\ \A s \in Starts :
                  new[w][s] = IF w \in ws /\ s = start[w] THEN rows[w][s] + n ELSE rows[w][s]
    <2>1. PICK row \in [Starts -> Nat], t \in Starts : row = rows[w] /\ t = start[w]
        BY DEF Rows
    <2>2. CASE w \in ws
        <3>1. new[w] = [row EXCEPT ![t] = @ + n]
            BY <1>1, <2>1, <2>2 DEF Grown
        <3> QED
            BY <2>1, <2>2, <3>1, RowGrows
    <2>3. CASE w \notin ws
        BY <1>1, <2>1, <2>3 DEF Grown
    <2> QED
        BY <2>2, <2>3
<1>3. new = [w \in Windows |-> new[w]]
    BY <1>1 DEF Grown
<1> QED
    BY <1>1, <1>2, <1>3 DEF Rows

(* A search that waits for the next second goes on from where it is. *)
LEMMA WaitKeeps ==
    ASSUME QuotaKept, NEW c \in Callers, call[c].pc = "request",
           NEW at \in ClocksRead, NEW full \in SUBSET Paced, full # {},
           call' = [call EXCEPT ![c] = [@ EXCEPT !.attempts = call[c].attempts + 1,
                        !.wake = Max({ResetAt(w, at) : w \in full})]]
    PROVE  \E x \in Calls :
             /\ call' = [call EXCEPT ![c] = x] /\ CallKept(x) /\ ~Asked(x)
             /\ Shrinks(x, call[c])
<1>1. PICK y \in Calls : y = call[c]
    BY DEF QuotaKept, TypeOK
<1>2. PICK n \in Nat : n = y.attempts + 1
    BY DEF Calls
<1>3. PICK m \in Nat : m = Max({ResetAt(w, at) : w \in full})
    <2>1. ResetAt("second", at) \in Nat
        BY ClocksTyped, WindowTypes DEF QuotaKept, Windows, RequestWindows
    <2>2. PICK i \in Nat : i = ResetAt("second", at)
        BY <2>1
    <2>3. {ResetAt(w, at) : w \in full} = {i, i}
        BY <2>2 DEF Paced
    <2>4. Max({i, i}) = i
        BY MaxOfTwo
    <2> QED
        BY <2>3, <2>4
<1> DEFINE x == [y EXCEPT !.attempts = n, !.wake = m]
<1>4. x \in Calls /\ x.pc = y.pc /\ x.reservation = y.reservation
    BY DEF Calls
<1>5. call' = [call EXCEPT ![c] = x]
    BY <1>1, <1>2, <1>3
<1> HIDE DEF x
<1>6. CallKept(x) /\ ~Asked(x)
    BY <1>1, <1>4 DEF QuotaKept, CallKept, Asked
<1>7. Shrinks(x, y)
    BY <1>1, <1>4, StillReserved
<1> QED
    BY <1>1, <1>4, <1>5, <1>6, <1>7

(* A request that is sent under its windows' rows. *)
LEMMA SentCovered ==
    ASSUME QuotaKept, QuotaKept', LedgerKept, NEW c \in Callers, NEW x \in Calls,
           call' = [call EXCEPT ![c] = x], UNCHANGED clock,
           call[c].pc = "request", x.pc = "sent", x.reservation = call[c].reservation,
           NEW ws \in SUBSET Windows,
           \A w \in Windows : LET s == StartOf(w, clock) IN
             IF w \in ws THEN usage'[w][s] = usage[w][s] + 1 /\ usage[w][s] + 1 <= Limit[w]
             ELSE usage'[w][s] = usage[w][s],
           \A w \in Windows, s \in Starts :
             spent'[w][s] = IF w \in ws /\ s = StartOf(w, clock) THEN spent[w][s] + 1
                            ELSE spent[w][s]
    PROVE  LedgerKept'
<1>1. ASSUME NEW w \in Windows, NEW s \in Starts
      PROVE  /\ usage[w][s] \in Nat /\ usage'[w][s] \in Nat
             /\ spent[w][s] \in Nat /\ spent'[w][s] \in Nat
             /\ Owed(x, w, s) \in Nat /\ Unspent(x, w, s) \in Nat
             /\ Owed(call[c], w, s) = Owed(x, w, s) /\ Unspent(call[c], w, s) = Unspent(x, w, s)
    <2>1. Owed(call[c], w, s) = Owed(x, w, s) /\ Unspent(call[c], w, s) = Unspent(x, w, s)
        BY DEF Owed, Unspent, Claims
    <2> QED
        BY <2>1, Numbers
<1>2. \A w \in Windows : StartOf(w, clock) \in Starts /\ Limit[w] \in Nat
    BY WindowTypes, Typed DEF QuotaKept
<1>3. ASSUME NEW w \in Windows
      PROVE  LET s == StartOf(w, clock)
             IN  usage'[w][s] - usage[w][s] >=
                   (spent'[w][s] + Owed(x, w, s)) - (spent[w][s] + Owed(call[c], w, s))
    <2>1. PICK s \in Starts : s = StartOf(w, clock)
        BY <1>2
    <2>2. CASE w \in ws
        <3>1. usage'[w][s] = usage[w][s] + 1 /\ spent'[w][s] = spent[w][s] + 1
            BY <2>1, <2>2
        <3> QED
            BY <1>1, <2>1, <3>1
    <2>3. CASE w \notin ws
        <3>1. usage'[w][s] = usage[w][s] /\ spent'[w][s] = spent[w][s]
            BY <2>1, <2>3
        <3> QED
            BY <1>1, <2>1, <3>1
    <2> QED
        BY <2>2, <2>3
<1>4. ASSUME NEW w \in Windows, NEW s \in Starts
      PROVE  LET more == (spent'[w][s] + Unspent(x, w, s)) - (spent[w][s] + Unspent(call[c], w, s))
             IN  more <= 0 \/ (s = StartOf(w, clock) /\ usage[w][s] + more <= Limit[w])
    <2>1. CASE w \in ws /\ s = StartOf(w, clock)
        <3>1. spent'[w][s] = spent[w][s] + 1 /\ usage[w][s] + 1 <= Limit[w]
            BY <2>1
        <3>2. (spent'[w][s] + Unspent(x, w, s)) - (spent[w][s] + Unspent(call[c], w, s)) = 1
            BY <1>1, <3>1
        <3> QED
            BY <2>1, <3>1, <3>2
    <2>2. CASE ~(w \in ws /\ s = StartOf(w, clock))
        <3>1. spent'[w][s] = spent[w][s]
            BY <2>2
        <3> QED
            BY <1>1, <3>1
    <2> QED
        BY <2>1, <2>2
<1>5. ASSUME NEW w \in Windows, NEW s \in Starts, s > StartOf(w, clock)
      PROVE  spent'[w][s] = spent[w][s] /\ ~Claims(x, w, s)
    <2>1. s # StartOf(w, clock)
        BY <1>2, <1>5 DEF Starts
    <2>2. ~Claims(x, w, s)
        BY <1>5 DEF Claims, LedgerKept, FutureKept
    <2> QED
        BY <2>1, <2>2
<1> QED
    BY <1>3, <1>4, <1>5, LedgerStep


(* Both outcomes without a request: the row of the current window stays. *)
LEMMA UnsentKeeps ==
    ASSUME QuotaKept, NEW c \in Callers, NEW at \in ClocksRead, NEW ws \in SUBSET Windows,
           hold' = HoldAt(at), usage' \in {usage, Pruned(ws, at)}, UNCHANGED spent,
           UNCHANGED <<source, clock, key, paused>>,
           \E x \in Calls :
             /\ call' = [call EXCEPT ![c] = x] /\ CallKept(x) /\ ~Asked(x)
             /\ Shrinks(x, call[c])
    PROVE  QuotaKept' /\ (Lag = 0 /\ LedgerKept => LedgerKept')
<1>1. PICK x \in Calls :
        /\ call' = [call EXCEPT ![c] = x] /\ CallKept(x) /\ ~Asked(x)
        /\ Shrinks(x, call[c])
    OBVIOUS
<1>2. TypeOK /\ at \in 0..MaxClock
    BY ClocksTyped DEF QuotaKept
<1>3. usage' \in Rows /\ spent' \in Rows /\ paused' \in Nat
    BY <1>2, Typed, PrunedRows
<1>4. /\ hold' \in Holds \cup {None} /\ PauseKept'
      /\ HoldIsStale' => HoldIsStale /\ paused' = 0
    BY HoldExpires
<1>5. QuotaKept'
    BY <1>1, <1>3, <1>4, QuotaStep
<1>6. ASSUME Lag = 0, LedgerKept
      PROVE  LedgerKept'
    <2>1. CASE usage' = usage
        BY <1>1, <1>5, <1>6, <2>1, QuietStep
    <2>2. CASE usage' = Pruned(ws, at)
        BY <1>1, <1>5, <1>6, <2>2, PrunedKeeps
    <2> QED
        BY <2>1, <2>2
<1> QED
    BY <1>5, <1>6

(* The request slots that are taken. *)
LEMMA SlotRows ==
    ASSUME TypeOK, NEW at \in 0..MaxClock, NEW ws \in SUBSET Windows,
           spent' = [w \in Windows |->
                IF w \in ws THEN [spent[w] EXCEPT ![StartOf(w, at)] = @ + 1] ELSE spent[w]]
    PROVE  /\ spent' \in Rows
           /\ \A w \in Windows, s \in Starts :
                spent'[w][s] = IF w \in ws /\ s = StartOf(w, at) THEN spent[w][s] + 1
                               ELSE spent[w][s]
<1>1. PICK start \in [Windows -> Starts] : start = [w \in Windows |-> StartOf(w, at)]
    BY WindowTypes
<1>2. PICK rows \in Rows : rows = spent
    BY Typed
<1>3. PICK one \in Nat : one = 1
    OBVIOUS
<1>4. spent' = Grown(rows, ws, start, one)
    <2>1. \A w \in Windows : StartOf(w, at) = start[w]
        BY <1>1
    <2>2. spent' = [w \in Windows |->
            IF w \in ws THEN [rows[w] EXCEPT ![start[w]] = @ + one] ELSE rows[w]]
        BY <1>2, <1>3, <2>1
    <2> QED
        BY <2>2 DEF Grown
<1>5. /\ Grown(rows, ws, start, one) \in Rows
      /\ \A w \in Windows, s \in Starts :
           Grown(rows, ws, start, one)[w][s] =
             IF w \in ws /\ s = start[w] THEN rows[w][s] + one ELSE rows[w][s]
    BY RowsGrow, SMTT(30)
<1>6. PICK new \in Rows : new = Grown(rows, ws, start, one)
    BY <1>5
<1>7. \A w \in Windows, s \in Starts :
        new[w][s] = IF w \in ws /\ s = start[w] THEN rows[w][s] + one ELSE rows[w][s]
    BY <1>5, <1>6
<1>8. \A w \in Windows, s \in Starts :
        new[w][s] = IF w \in ws /\ s = StartOf(w, at) THEN spent[w][s] + 1 ELSE spent[w][s]
    BY <1>1, <1>2, <1>3, <1>7
<1>9. spent' = new
    BY <1>4, <1>6
<1> QED
    BY <1>8, <1>9

(* One slot in each request window, and the request is sent. *)
LEMMA SendKeeps ==
    ASSUME QuotaKept, NEW c \in Callers, call[c].pc = "request",
           NEW at \in ClocksRead, NEW ws \in SUBSET Windows,
           \A w \in ws : ~Full(w, at, 1),
           hold' = HoldAt(at), hold' = None, usage' = Charged(ws, at, 1),
           spent' = [w \in Windows |->
                IF w \in ws THEN [spent[w] EXCEPT ![StartOf(w, at)] = @ + 1] ELSE spent[w]],
           call' = [call EXCEPT ![c].pc = "sent"], UNCHANGED <<source, clock, key, paused>>
    PROVE  QuotaKept' /\ (Lag = 0 /\ LedgerKept => LedgerKept')
<1>1. TypeOK /\ at \in 0..MaxClock
    BY ClocksTyped DEF QuotaKept
<1>2. /\ usage' \in Rows
      /\ \A w \in ws :
           /\ usage'[w][StartOf(w, at)] = usage[w][StartOf(w, at)] + 1
           /\ usage[w][StartOf(w, at)] + 1 <= Limit[w]
      /\ \A w \in Windows \ ws : usage'[w] = usage[w]
    <2>1. PICK one \in Nat \ {0} : one = 1
        OBVIOUS
    <2>2. /\ Charged(ws, at, one) \in Rows
          /\ \A w \in ws :
               /\ Charge(w, at, one) \in 1..one
               /\ Charged(ws, at, one)[w][StartOf(w, at)]
                    = usage[w][StartOf(w, at)] + Charge(w, at, one)
               /\ usage[w][StartOf(w, at)] + Charge(w, at, one) <= Limit[w]
          /\ \A w \in Windows \ ws : Charged(ws, at, one)[w] = usage[w]
        BY <1>1, <2>1, ChargedRows
    <2>3. \A w \in ws : Charge(w, at, one) = 1
        BY <2>1, <2>2
    <2> QED
        BY <2>1, <2>2, <2>3
<1>3. /\ spent' \in Rows
      /\ \A w \in Windows, s \in Starts :
           spent'[w][s] = IF w \in ws /\ s = StartOf(w, at) THEN spent[w][s] + 1 ELSE spent[w][s]
    BY <1>1, SlotRows, SMTT(30), ZenonT(40)
<1>4. PICK y \in Calls : y = call[c]
    BY DEF QuotaKept, TypeOK
<1>5. PICK x : x = [y EXCEPT !.pc = "sent"]
    OBVIOUS
<1>6. x \in Calls /\ x.pc = "sent" /\ x.reservation = y.reservation
    BY <1>5 DEF Calls
<1>7. call' = [call EXCEPT ![c] = x]
    BY <1>4, <1>5
<1>8. CallKept(x)
    BY <1>4, <1>6 DEF QuotaKept, CallKept
<1>9. /\ hold' \in Holds \cup {None} /\ PauseKept' /\ paused' \in Nat /\ ~HoldIsStale'
    BY <1>1, HoldExpires, Typed
<1>10. QuotaKept'
    BY <1>2, <1>3, <1>6, <1>7, <1>8, <1>9, QuotaStep
<1>11. ASSUME Lag = 0, LedgerKept
       PROVE  LedgerKept'
    <2>1. at = clock
        BY <1>11, NoLag
    <2>2. \A w \in Windows : LET s == StartOf(w, clock) IN
            IF w \in ws THEN usage'[w][s] = usage[w][s] + 1 /\ usage[w][s] + 1 <= Limit[w]
            ELSE usage'[w][s] = usage[w][s]
        BY <1>2, <2>1
    <2>3. \A w \in Windows, s \in Starts :
            spent'[w][s] = IF w \in ws /\ s = StartOf(w, clock) THEN spent[w][s] + 1
                           ELSE spent[w][s]
        BY <1>3, <2>1
    <2>4. x.reservation = call[c].reservation
        BY <1>4, <1>6
    <2> QED
        BY <1>6, <1>7, <1>10, <1>11, <2>2, <2>3, <2>4, SentCovered
<1> QED
    BY <1>10, <1>11

LEMMA ReserveRequestKeeps ==
    ASSUME QuotaKept, NEW c \in Callers, ReserveRequest(c)
    PROVE  QuotaKept' /\ (Lag = 0 /\ LedgerKept => LedgerKept')
<1>1. PICK ws \in SUBSET Windows : ws = WindowsOf(source) \cap RequestWindows
    BY DEF Windows
<1>2. PICK at \in ClocksRead :
        /\ hold' = HoldAt(at)
        /\ \/ NotSent(c) /\ UNCHANGED <<usage, spent>>
           \/ /\ Refusing(ws, at, 1) # {} /\ usage' = Pruned(ws, at) /\ UNCHANGED spent
              /\ \/ NotSent(c)
                 \/ /\ Refusing(ws, at, 1) \subseteq Paced
                    /\ call' = [call EXCEPT ![c] = [@ EXCEPT !.attempts = call[c].attempts + 1,
                          !.wake = Max({ResetAt(w, at) : w \in Refusing(ws, at, 1)})]]
           \/ /\ hold' = None /\ Refusing(ws, at, 1) = {} /\ usage' = Charged(ws, at, 1)
              /\ spent' = [w \in Windows |->
                    IF w \in ws THEN [spent[w] EXCEPT ![StartOf(w, at)] = @ + 1] ELSE spent[w]]
              /\ call' = [call EXCEPT ![c].pc = "sent"]
    BY <1>1 DEF ReserveRequest
<1>3. call[c].pc = "request" /\ UNCHANGED <<source, clock, key, paused>>
    BY DEF ReserveRequest
<1>4. CASE NotSent(c) /\ usage' \in {usage, Pruned(ws, at)} /\ UNCHANGED spent
    BY <1>2, <1>3, <1>4, NotSentKeeps, UnsentKeeps
<1>5. CASE /\ Refusing(ws, at, 1) # {} /\ usage' = Pruned(ws, at) /\ UNCHANGED spent
           /\ Refusing(ws, at, 1) \subseteq Paced
           /\ call' = [call EXCEPT ![c] = [@ EXCEPT !.attempts = call[c].attempts + 1,
                 !.wake = Max({ResetAt(w, at) : w \in Refusing(ws, at, 1)})]]
    <2>1. \E x \in Calls :
            /\ call' = [call EXCEPT ![c] = x] /\ CallKept(x) /\ ~Asked(x)
            /\ Shrinks(x, call[c])
        <3>1. PICK full \in SUBSET Paced : full = Refusing(ws, at, 1)
            BY <1>5
        <3> QED
            BY <1>3, <1>5, <3>1, WaitKeeps
    <2> QED
        BY <1>2, <1>3, <1>5, <2>1, UnsentKeeps
<1>6. CASE /\ hold' = None /\ Refusing(ws, at, 1) = {} /\ usage' = Charged(ws, at, 1)
           /\ spent' = [w \in Windows |->
                 IF w \in ws THEN [spent[w] EXCEPT ![StartOf(w, at)] = @ + 1] ELSE spent[w]]
           /\ call' = [call EXCEPT ![c].pc = "sent"]
    <2>1. \A w \in ws : ~Full(w, at, 1)
        BY <1>6 DEF Refusing
    <2> QED
        BY <1>2, <1>3, <1>6, <2>1, SendKeeps
<1> QED
    BY <1>2, <1>4, <1>5, <1>6


(* What is billed is within what was reserved, and counts as sent. *)
LEMMA BillsWithin ==
    ASSUME QuotaKept, NEW y \in Calls, CallKept(y), y.pc = "sent",
           NEW outcome, NEW bill \in Bills(outcome, y.reservation.credits)
    PROVE  bill \in Nat /\ bill <= y.reservation.credits
<1>1. y.reservation.credits \in Nat
    BY WindowAssumption DEF WindowAssumption, Calls, Reservations
<1>2. source \in {"jobspipe", "adzuna"}
    BY DEF QuotaKept, TypeOK, Sources
<1> QED
    BY <1>1, <1>2 DEF Bills, CallKept

LEMMA BilledRows ==
    ASSUME TypeOK, NEW r \in Reservations, NEW bill \in Nat,
           spent' = [w \in Windows |->
                IF w \in r.windows THEN [spent[w] EXCEPT ![r.start] = @ + bill] ELSE spent[w]]
    PROVE  /\ spent' \in Rows
           /\ \A w \in Windows, s \in Starts :
                spent'[w][s] = IF w \in r.windows /\ r.start = s THEN spent[w][s] + bill
                               ELSE spent[w][s]
<1>1. PICK ws \in SUBSET Windows, start \in [Windows -> Starts] :
        ws = r.windows /\ start = [w \in Windows |-> r.start]
    BY DEF Reservations
<1>2. PICK rows \in Rows : rows = spent
    BY Typed
<1>3. spent' = Grown(rows, ws, start, bill)
    <2>1. \A w \in Windows : r.start = start[w]
        BY <1>1
    <2>2. spent' = [w \in Windows |->
            IF w \in ws THEN [rows[w] EXCEPT ![start[w]] = @ + bill] ELSE rows[w]]
        BY <1>1, <1>2, <2>1
    <2> QED
        BY <2>2 DEF Grown
<1>4. /\ Grown(rows, ws, start, bill) \in Rows
      /\ \A w \in Windows, s \in Starts :
           Grown(rows, ws, start, bill)[w][s] =
             IF w \in ws /\ s = start[w] THEN rows[w][s] + bill ELSE rows[w][s]
    BY RowsGrow
<1>5. PICK new \in Rows : new = Grown(rows, ws, start, bill)
    BY <1>4
<1>6. \A w \in Windows, s \in Starts :
        new[w][s] = IF w \in ws /\ s = start[w] THEN rows[w][s] + bill ELSE rows[w][s]
    BY <1>4, <1>5
<1>7. \A w \in Windows, s \in Starts :
        new[w][s] = IF w \in r.windows /\ r.start = s THEN spent[w][s] + bill ELSE spent[w][s]
    BY <1>1, <1>2, <1>6
<1>8. spent' = new
    BY <1>3, <1>5
<1>9. spent' \in Rows
    BY <1>8
<1>10. ASSUME NEW w \in Windows, NEW s \in Starts
       PROVE  spent'[w][s] = IF w \in r.windows /\ r.start = s THEN spent[w][s] + bill
                             ELSE spent[w][s]
    <2>1. new[w][s] = IF w \in r.windows /\ r.start = s THEN spent[w][s] + bill ELSE spent[w][s]
        BY <1>7
    <2> QED
        BY <1>8, <2>1
<1> QED
    BY <1>9, <1>10

(* The reservation becomes a bill of at most as much. *)
LEMMA BillCovered ==
    ASSUME QuotaKept, QuotaKept', LedgerKept, NEW c \in Callers, NEW x \in Calls, NEW y \in Calls,
           y = call[c], call' = [call EXCEPT ![c] = x], UNCHANGED <<clock, usage>>,
           y.pc = "sent", x.pc = "answered", x.reservation = y.reservation,
           x.bill <= y.reservation.credits,
           \A w \in Windows, s \in Starts :
             spent'[w][s] = IF Claims(y, w, s) THEN spent[w][s] + x.bill ELSE spent[w][s]
    PROVE  LedgerKept'
<1>1. ASSUME NEW w \in Windows, NEW s \in Starts
      PROVE  /\ usage[w][s] \in Nat /\ spent[w][s] \in Nat /\ spent'[w][s] \in Nat
             /\ Owed(x, w, s) \in Nat /\ Owed(y, w, s) \in Nat
    BY Numbers
<1>2. \A w \in Windows : StartOf(w, clock) \in Starts /\ Limit[w] \in Nat
    BY WindowTypes, Typed DEF QuotaKept
<1>3. y.reservation.credits \in Nat /\ x.bill \in Nat
    BY WindowAssumption DEF WindowAssumption, Calls, Reservations
<1>4. x.bill <= BillOf(x) /\ BillOf(x) \in Nat
    BY <1>3 DEF BillOf
<1>5. ASSUME NEW w \in Windows, NEW s \in Starts
      PROVE  /\ (spent'[w][s] + Owed(x, w, s)) - (spent[w][s] + Owed(y, w, s)) <= 0
             /\ (spent'[w][s] + Unspent(x, w, s)) - (spent[w][s] + Unspent(y, w, s)) <= 0
    <2>1. Unspent(x, w, s) = 0
        BY DEF Unspent
    <2>2. CASE Claims(y, w, s)
        <3>1. spent'[w][s] = spent[w][s] + x.bill
            BY <2>2
        <3>2. Owed(y, w, s) = y.reservation.credits /\ Unspent(y, w, s) = y.reservation.credits
            BY <2>2 DEF Owed, Unspent, Claims
        <3>3. Owed(x, w, s) = y.reservation.credits - BillOf(x)
            BY <2>2 DEF Owed, Claims
        <3> QED
            BY <1>1, <1>3, <1>4, <2>1, <3>1, <3>2, <3>3
    <2>3. CASE ~Claims(y, w, s)
        <3>1. Owed(y, w, s) = 0 /\ Unspent(y, w, s) = 0 /\ Owed(x, w, s) = 0
            BY <2>3 DEF Owed, Unspent, Claims
        <3>2. spent'[w][s] = spent[w][s]
            BY <2>3
        <3> QED
            BY <1>1, <2>1, <3>1, <3>2
    <2> QED
        BY <2>2, <2>3
<1>6. ASSUME NEW w \in Windows
      PROVE  LET s == StartOf(w, clock)
             IN  usage'[w][s] - usage[w][s] >=
                   (spent'[w][s] + Owed(x, w, s)) - (spent[w][s] + Owed(call[c], w, s))
    <2>1. PICK s \in Starts : s = StartOf(w, clock)
        BY <1>2
    <2>2. usage'[w][s] - usage[w][s] = 0
        BY <1>1
    <2> QED
        BY <1>5, <2>1, <2>2
<1>7. ASSUME NEW w \in Windows, NEW s \in Starts, s > StartOf(w, clock)
      PROVE  spent'[w][s] = spent[w][s] /\ ~Claims(x, w, s)
    <2>1. ~Claims(y, w, s)
        BY <1>7 DEF LedgerKept, FutureKept
    <2> QED
        BY <2>1 DEF Claims
<1>8. ASSUME NEW w \in Windows, NEW s \in Starts
      PROVE  (spent'[w][s] + Unspent(x, w, s)) - (spent[w][s] + Unspent(call[c], w, s)) <= 0
    BY <1>5
<1> QED
    BY <1>6, <1>7, <1>8, LedgerStep

LEMMA ProviderAnswersKeeps ==
    ASSUME QuotaKept, NEW c \in Callers, ProviderAnswers(c)
    PROVE  QuotaKept' /\ (LedgerKept => LedgerKept')
<1>1. PICK y \in Calls : y = call[c]
    BY DEF QuotaKept, TypeOK
<1>2. PICK r \in Reservations : r = y.reservation
    BY DEF Calls
<1>3. y.pc = "sent" /\ CallKept(y) /\ UNCHANGED <<source, clock, usage, hold, key, paused>>
    BY <1>1 DEF ProviderAnswers, QuotaKept
<1>4. PICK outcome \in Outcomes : \E bill \in Bills(outcome, call[c].reservation.credits) :
        /\ call' = [call EXCEPT ![c] =
                     [call[c] EXCEPT !.pc = "answered", !.outcome = outcome, !.bill = bill]]
        /\ spent' = [w \in Windows |->
                IF w \in call[c].reservation.windows
                THEN [spent[w] EXCEPT ![call[c].reservation.start] = @ + bill] ELSE spent[w]]
    BY DEF ProviderAnswers
<1>5. PICK bill \in Bills(outcome, call[c].reservation.credits) :
        /\ call' = [call EXCEPT ![c] =
                     [call[c] EXCEPT !.pc = "answered", !.outcome = outcome, !.bill = bill]]
        /\ spent' = [w \in Windows |->
                IF w \in call[c].reservation.windows
                THEN [spent[w] EXCEPT ![call[c].reservation.start] = @ + bill] ELSE spent[w]]
    BY <1>4
<1>6. bill \in Nat /\ bill <= r.credits
    BY <1>5, <1>1, <1>2, <1>3, BillsWithin
<1>7. PICK x : x = [y EXCEPT !.pc = "answered", !.outcome = outcome, !.bill = bill]
    OBVIOUS
<1>8. /\ x \in Calls /\ x.pc = "answered" /\ x.outcome = outcome /\ x.bill = bill
      /\ x.reservation = r
    BY <1>2, <1>6, <1>7 DEF Calls
<1>9. call' = [call EXCEPT ![c] = x]
    BY <1>5, <1>1, <1>7
<1>10. CallKept(x)
    BY <1>6, <1>8 DEF CallKept
<1>11. ~HoldIsStale
    BY <1>1, <1>3 DEF QuotaKept, StaleKept, Asked
<1>12. /\ spent' \in Rows
       /\ \A w \in Windows, s \in Starts :
            spent'[w][s] = IF w \in r.windows /\ r.start = s THEN spent[w][s] + bill
                           ELSE spent[w][s]
    <2>1. spent' = [w \in Windows |->
            IF w \in r.windows THEN [spent[w] EXCEPT ![r.start] = @ + bill] ELSE spent[w]]
        BY <1>5, <1>1, <1>2
    <2> QED
        BY <1>6, <2>1, BilledRows DEF QuotaKept
<1>13. QuotaKept'
    <2>1. usage' \in Rows /\ paused' \in Nat
        BY <1>3, Typed DEF QuotaKept
    <2>2. hold' \in Holds \cup {None} /\ PauseKept' /\ ~HoldIsStale'
        BY <1>3, <1>11, HoldStays
    <2> QED
        BY <1>3, <1>8, <1>9, <1>10, <1>12, <2>1, <2>2, QuotaStep
<1>14. LedgerKept => LedgerKept'
    <2>1. \A w \in Windows, s \in Starts :
            spent'[w][s] = IF Claims(y, w, s) THEN spent[w][s] + x.bill ELSE spent[w][s]
        BY <1>2, <1>8, <1>12 DEF Claims
    <2> QED
        BY <1>1, <1>2, <1>3, <1>6, <1>8, <1>9, <1>13, <2>1, BillCovered, SMTT(30), ZenonT(40)
<1> QED
    BY <1>13, <1>14


(* The pause an answer calls for ends later, and none is of another key. *)
LEMMA PauseTyped ==
    ASSUME TypeOK, NEW outcome, PauseAfter(outcome) # None
    PROVE  /\ PauseAfter(outcome).reason = outcome /\ PauseAfter(outcome).until \in Nat
           /\ outcome \in Outcomes /\ outcome # "refused"
<1>1. clock + RateLimited \in Nat /\ 2 * MaxClock + 1 \in Nat
    BY Typed, WindowAssumption DEF WindowAssumption
<1>2. ResetAt("credits_month", clock) \in Nat
    BY Typed, WindowTypes DEF Windows, CreditWindows
<1>3. CASE outcome = "key_rejected"
    BY <1>1, <1>3 DEF PauseAfter, Outcomes
<1>4. CASE outcome = "payment"
    BY <1>2, <1>4 DEF PauseAfter, Outcomes
<1>5. CASE outcome = "rate_limited"
    BY <1>1, <1>5 DEF PauseAfter, Outcomes
<1>6. CASE outcome \notin {"key_rejected", "payment", "rate_limited"}
    BY <1>6 DEF PauseAfter
<1> QED
    BY <1>3, <1>4, <1>5, <1>6

LEMMA HeldKeeps ==
    ASSUME QuotaKept, ~HoldIsStale, NEW reason \in Outcomes, NEW until \in Nat,
           hold' = Held(reason, until), paused' = Max({paused, until}),
           UNCHANGED <<clock, key>>
    PROVE  /\ hold' \in Holds \cup {None} /\ paused' \in Nat /\ PauseKept' /\ ~HoldIsStale'
<1>1. TypeOK /\ PauseKept
    BY DEF QuotaKept
<1>2. PICK k \in Keys \cup {None} : k = IF reason = "key_rejected" THEN key ELSE None
    BY <1>1 DEF TypeOK
<1>3. PICK new \in Holds : new = [reason |-> reason, key |-> k, until |-> until]
    BY DEF Holds
<1>4. hold' = IF hold = None \/ hold.until < until THEN new ELSE hold
    BY <1>2, <1>3 DEF Held
<1>5. new # None /\ new.until = until /\ (new.reason = "key_rejected" => new.key = key)
    BY <1>2, <1>3, NoneAssumption DEF NoneAssumption
<1>6. /\ clock \in Nat /\ paused \in Nat /\ hold \in Holds \cup {None}
      /\ hold # None => hold.until \in Nat
    BY <1>1, Typed DEF TypeOK
<1>7. paused' = IF paused >= until THEN paused ELSE until
    BY <1>6, MaxOfTwo
<1>8. PauseKept'
    <2>1. CASE hold' = new
        BY <1>1, <1>4, <1>5, <1>6, <1>7, <2>1 DEF PauseKept
    <2>2. CASE hold' = hold /\ hold # None /\ until <= hold.until
        BY <1>1, <1>6, <1>7, <2>2 DEF PauseKept
    <2> QED
        BY <1>4, <1>6, <2>1, <2>2
<1>9. ~HoldIsStale'
    BY <1>4, <1>5 DEF HoldIsStale
<1> QED
    BY <1>4, <1>6, <1>7, <1>8, <1>9

(* The reservation is settled: what the search owed is given back. *)
LEMMA SettledCovered ==
    ASSUME QuotaKept, QuotaKept', LedgerKept, NEW c \in Callers, NEW x \in Calls, NEW y \in Calls,
           y = call[c], call' = [call EXCEPT ![c] = x], UNCHANGED <<clock, spent>>,
           y.pc = "answered", x.reservation.windows = {},
           \A w \in Windows, s \in Starts :
             IF Claims(y, w, s)
             THEN usage'[w][s] >= usage[w][s] + BillOf(y) - y.reservation.credits
             ELSE usage'[w][s] = usage[w][s]
    PROVE  LedgerKept'
<1>1. ASSUME NEW w \in Windows, NEW s \in Starts
      PROVE  /\ usage[w][s] \in Nat /\ usage'[w][s] \in Nat /\ spent[w][s] \in Nat
             /\ Owed(y, w, s) \in Nat /\ Owed(x, w, s) = 0
             /\ Unspent(x, w, s) = 0 /\ Unspent(y, w, s) = 0
    <2>1. Owed(x, w, s) = 0 /\ Unspent(x, w, s) = 0 /\ Unspent(y, w, s) = 0
        BY DEF Owed, Unspent, Claims
    <2> QED
        BY <2>1, Numbers
<1>2. \A w \in Windows : StartOf(w, clock) \in Starts
    BY WindowTypes, Typed DEF QuotaKept
<1>3. y.reservation.credits \in Nat /\ BillOf(y) \in Nat
    BY WindowAssumption DEF WindowAssumption, Calls, Reservations, BillOf
<1>4. ASSUME NEW w \in Windows, NEW s \in Starts
      PROVE  usage'[w][s] - usage[w][s] >= 0 - Owed(y, w, s)
    <2>1. CASE Claims(y, w, s)
        <3>1. Owed(y, w, s) = y.reservation.credits - BillOf(y)
            BY <2>1 DEF Owed, Claims
        <3>2. usage'[w][s] >= usage[w][s] + BillOf(y) - y.reservation.credits
            BY <2>1
        <3> QED
            BY <1>1, <1>3, <3>1, <3>2
    <2>2. CASE ~Claims(y, w, s)
        <3>1. usage'[w][s] = usage[w][s]
            BY <2>2
        <3> QED
            BY <1>1, <3>1
    <2> QED
        BY <2>1, <2>2
<1>5. ASSUME NEW w \in Windows
      PROVE  LET s == StartOf(w, clock)
             IN  usage'[w][s] - usage[w][s] >=
                   (spent'[w][s] + Owed(x, w, s)) - (spent[w][s] + Owed(call[c], w, s))
    <2>1. PICK s \in Starts : s = StartOf(w, clock)
        BY <1>2
    <2>2. (spent'[w][s] + Owed(x, w, s)) - (spent[w][s] + Owed(y, w, s)) = 0 - Owed(y, w, s)
        BY <1>1
    <2> QED
        BY <1>4, <2>1, <2>2
<1>6. ASSUME NEW w \in Windows, NEW s \in Starts
      PROVE  (spent'[w][s] + Unspent(x, w, s)) - (spent[w][s] + Unspent(call[c], w, s)) <= 0
    BY <1>1
<1>7. ASSUME NEW w \in Windows, NEW s \in Starts, s > StartOf(w, clock)
      PROVE  spent'[w][s] = spent[w][s] /\ ~Claims(x, w, s)
    BY DEF Claims
<1> QED
    BY <1>5, <1>6, <1>7, LedgerStep

LEMMA HandleAnswerKeeps ==
    ASSUME QuotaKept, NEW c \in Callers, HandleAnswer(c)
    PROVE  QuotaKept' /\ (LedgerKept => LedgerKept')
<1>1. PICK y \in Calls : y = call[c]
    BY DEF QuotaKept, TypeOK
<1>2. PICK r \in Reservations : r = y.reservation
    BY DEF Calls
<1>3. y.pc = "answered" /\ CallKept(y) /\ UNCHANGED <<source, clock, key, spent>>
    BY <1>1 DEF HandleAnswer, QuotaKept
<1>4. PICK bill \in Nat : bill = BillOf(y)
    BY <1>2, WindowAssumption DEF WindowAssumption, Calls, Reservations, BillOf
<1>5. usage' = Settled(r, bill)
    BY <1>1, <1>2, <1>4 DEF HandleAnswer
<1>6. /\ usage' \in Rows
      /\ \A w \in Windows, s \in Starts :
           usage'[w][s] =
             IF w \in r.windows /\ r.start = s
             THEN IF usage[w][s] + bill - r.credits >= 0 THEN usage[w][s] + bill - r.credits ELSE 0
             ELSE usage[w][s]
    BY <1>5, SettledRows DEF QuotaKept
<1>7. PICK x \in Calls :
        /\ call' = [call EXCEPT ![c] = x] /\ CallKept(x) /\ ~Asked(x)
        /\ x.reservation.windows = {}
    <2>1. CASE Ends(c)
        BY <2>1, IdleTyped, IdleIsKept DEF Ends
    <2>2. CASE call' = [call EXCEPT ![c] = [IdleCall EXCEPT !.pc = "page", !.page = call[c].page]]
        <3>1. PICK n \in Nat : n = y.page
            BY DEF Calls
        <3>2. PICK x : x = [IdleCall EXCEPT !.pc = "page", !.page = n]
            OBVIOUS
        <3>3. x \in Calls /\ x.pc = "page" /\ x.reservation = NoReservation
            BY <3>2, IdleTyped DEF IdleCall, Calls
        <3> QED
            BY <1>1, <2>2, <3>1, <3>2, <3>3, IdleTyped DEF CallKept, Asked
    <2> QED
        BY <2>1, <2>2 DEF HandleAnswer, NextPage
<1>8. /\ hold' \in Holds \cup {None} /\ PauseKept' /\ paused' \in Nat
      /\ HoldIsStale' => HoldIsStale /\ paused' = 0
    <2>1. CASE PauseAfter(call[c].outcome) = None
        <3>1. UNCHANGED <<clock, key, hold, paused>>
            BY <2>1 DEF HandleAnswer
        <3> QED
            BY <3>1, HoldStays
    <2>2. CASE PauseAfter(call[c].outcome) # None
        <3>1. /\ PauseAfter(y.outcome).reason = y.outcome /\ PauseAfter(y.outcome).until \in Nat
              /\ y.outcome \in Outcomes /\ y.outcome # "refused"
            BY <1>1, <2>2, PauseTyped DEF QuotaKept
        <3>2. PICK reason \in Outcomes, until \in Nat :
                reason = PauseAfter(y.outcome).reason /\ until = PauseAfter(y.outcome).until
            BY <3>1
        <3>3. ~HoldIsStale
            BY <1>1, <1>3, <3>1 DEF QuotaKept, StaleKept, Asked
        <3>4. hold' = Held(reason, until) /\ paused' = Max({paused, until})
            BY <1>1, <2>2, <3>2 DEF HandleAnswer
        <3> QED
            BY <1>3, <3>3, <3>4, HeldKeeps
    <2> QED
        BY <2>1, <2>2
<1>9. QuotaKept'
    BY <1>3, <1>6, <1>7, <1>8, Typed, QuotaStep DEF QuotaKept
<1>10. LedgerKept => LedgerKept'
    <2>1. r.credits \in Nat
        BY WindowAssumption DEF WindowAssumption, Reservations
    <2>2. \A w \in Windows, s \in Starts :
            IF Claims(y, w, s)
            THEN usage'[w][s] >= usage[w][s] + BillOf(y) - y.reservation.credits
            ELSE usage'[w][s] = usage[w][s]
        <3>1. \A w \in Windows, s \in Starts : usage[w][s] + bill - r.credits \in Int
            BY <2>1, Typed DEF QuotaKept, Rows
        <3> QED
            BY <1>2, <1>4, <1>6, <3>1 DEF Claims
    <2> QED
        BY <1>1, <1>3, <1>7, <1>9, <2>2, SettledCovered
<1> QED
    BY <1>9, <1>10


-----------------------------------------------------------------------------
(* The other steps *)

LEMMA QuotaStarts == Init => QuotaKept
<1> SUFFICES ASSUME Init PROVE QuotaKept
    OBVIOUS
<1>1. MaxClock \in Nat
    BY WindowAssumption DEF WindowAssumption
<1>2. TypeOK
    <2>1. usage \in [Windows -> [Starts -> Nat]] /\ spent \in [Windows -> [Starts -> Nat]]
        BY DEF Init
    <2>2. call \in [Callers -> Calls]
        BY IdleTyped DEF Init
    <2> QED
        BY <1>1, <2>1, <2>2 DEF Init, TypeOK
<1>3. ASSUME NEW c \in Callers
      PROVE  CallKept(call[c]) /\ ~Asked(call[c])
    BY IdleIsKept DEF Init
<1>4. StaleKept /\ PauseKept
    BY <1>3 DEF Init, StaleKept, PauseKept
<1> QED
    BY <1>2, <1>3, <1>4 DEF QuotaKept

(* Idle searches owe nothing. *)
LEMMA NothingDue ==
    ASSUME NEW calls, \A c \in Callers : calls[c] = IdleCall, NEW w, NEW s
    PROVE  /\ Total([c \in Callers |-> Owed(calls[c], w, s)]) = 0
           /\ Total([c \in Callers |-> Unspent(calls[c], w, s)]) = 0
           /\ \A c \in Callers : ~Claims(calls[c], w, s)
<1>1. \A c \in Callers :
        Owed(calls[c], w, s) = 0 /\ Unspent(calls[c], w, s) = 0 /\ ~Claims(calls[c], w, s)
    BY IdleIsKept, IdleTyped DEF Owed, Unspent, Claims
<1>2. 0 \in Credits
    BY WindowAssumption DEF WindowAssumption, Credits
<1>3. PICK f \in [Callers -> Credits] :
        f = [c \in Callers |-> Owed(calls[c], w, s)] /\ f = [c \in Callers |-> Unspent(calls[c], w, s)]
    BY <1>1, <1>2
<1>4. Total(f) = 0
    BY <1>1, <1>3, TotalOfNothing
<1> QED
    BY <1>1, <1>3, <1>4

LEMMA LedgerStarts == Init => LedgerKept
<1> SUFFICES ASSUME Init PROVE LedgerKept
    OBVIOUS
<1>1. QuotaKept
    BY QuotaStarts
<1>2. \A w \in Windows : StartOf(w, clock) \in Starts /\ Limit[w] \in Nat
    BY <1>1, WindowTypes, Typed DEF QuotaKept
<1>3. \A c \in Callers : call[c] = IdleCall
    BY DEF Init
<1>4. \A w, s : Due(w, s) = 0 /\ Outstanding(w, s) = 0 /\ \A c \in Callers : ~Claims(call[c], w, s)
    BY <1>3, NothingDue DEF Due, Outstanding
<1>5. \A w \in Windows, s \in Starts : usage[w][s] = 0 /\ spent[w][s] = 0
    BY DEF Init
<1>6. CoverKept
    BY <1>2, <1>4, <1>5 DEF CoverKept
<1>7. BackingKept
    BY <1>2, <1>4, <1>5 DEF BackingKept
<1>8. FutureKept
    BY <1>4, <1>5 DEF FutureKept
<1> QED
    BY <1>6, <1>7, <1>8 DEF LedgerKept

LEMMA RestartKeeps ==
    ASSUME QuotaKept, NEW k \in Keys, Restart(k)
    PROVE  QuotaKept' /\ (LedgerKept => LedgerKept')
<1>1. /\ TypeOK /\ PauseKept /\ StaleKept
      /\ key' = k /\ UNCHANGED <<source, clock, usage, hold, spent>>
      /\ paused' = IF k = key THEN paused ELSE 0
      /\ \A c \in Callers : call'[c] = IdleCall
    BY DEF QuotaKept, Restart
<1>2. clock \in Nat /\ paused \in Nat
    BY <1>1, Typed
<1>3. TypeOK'
    <2>1. call' \in [Callers -> Calls]
        BY IdleTyped DEF Restart
    <2> QED
        BY <1>1, <1>2, <2>1 DEF TypeOK
<1>4. ASSUME NEW c \in Callers
      PROVE  CallKept(call[c])' /\ ~Asked(call[c])'
    BY <1>1, IdleTyped DEF CallKept, Asked
<1>5. StaleKept'
    BY <1>1, <1>4 DEF StaleKept, HoldIsStale
<1>6. PauseKept'
    BY <1>1, <1>2 DEF PauseKept
<1>7. QuotaKept'
    BY <1>3, <1>4, <1>5, <1>6 DEF QuotaKept
<1>8. ASSUME LedgerKept
      PROVE  LedgerKept'
    <2>1. ASSUME NEW w, NEW s
          PROVE  /\ Due(w, s)' = 0 /\ Outstanding(w, s)' = 0
                 /\ \A c \in Callers : ~Claims(call'[c], w, s)
        <3>1. PICK calls : calls = call'
            OBVIOUS
        <3>2. /\ Total([c \in Callers |-> Owed(calls[c], w, s)]) = 0
              /\ Total([c \in Callers |-> Unspent(calls[c], w, s)]) = 0
              /\ \A c \in Callers : ~Claims(calls[c], w, s)
            BY <1>1, <3>1, NothingDue
        <3> QED
            BY <3>1, <3>2 DEF Due, Outstanding
    <2>2. ASSUME NEW w \in Windows, NEW s \in Starts
          PROVE  /\ usage[w][s] \in Nat /\ spent[w][s] \in Nat /\ Limit[w] \in Nat
                 /\ Due(w, s) \in Nat /\ Outstanding(w, s) \in Nat
        BY <1>1, Typed, WindowTypes, SumsTyped DEF Rows
    <2>3. \A w \in Windows : StartOf(w, clock) \in Starts /\ StartOf(w, clock)' = StartOf(w, clock)
        BY <1>1, Typed, WindowTypes DEF StartOf
    <2>4. CoverKept'
        BY <1>1, <1>8, <2>1, <2>2, <2>3 DEF LedgerKept, CoverKept
    <2>5. BackingKept'
        BY <1>1, <1>8, <2>1, <2>2 DEF LedgerKept, BackingKept
    <2>6. FutureKept'
        BY <1>1, <1>8, <2>1, <2>3 DEF LedgerKept, FutureKept, Claims
    <2> QED
        BY <2>4, <2>5, <2>6 DEF LedgerKept
<1> QED
    BY <1>7, <1>8

LEMMA TickKeeps ==
    ASSUME QuotaKept, Tick
    PROVE  QuotaKept' /\ (LedgerKept => LedgerKept')
<1>1. /\ TypeOK /\ PauseKept /\ StaleKept /\ clock \in 0..MaxClock /\ clock \in Nat /\ paused \in Nat
      /\ clock < MaxClock /\ clock' = clock + 1 /\ UNCHANGED <<source, usage, hold, key, call, spent, paused>>
      /\ MaxClock \in Nat
    BY Typed, WindowAssumption DEF QuotaKept, Tick, WindowAssumption
<1>2. TypeOK'
    BY <1>1 DEF TypeOK
<1>3. \A c \in Callers : CallKept(call[c])'
    BY <1>1 DEF QuotaKept, CallKept
<1>4. StaleKept' /\ PauseKept'
    BY <1>1 DEF StaleKept, HoldIsStale, Asked, PauseKept
<1>5. QuotaKept'
    BY <1>2, <1>3, <1>4 DEF QuotaKept
<1>6. ASSUME LedgerKept
      PROVE  LedgerKept'
    <2>1. ASSUME NEW w \in Windows, NEW s \in Starts
          PROVE  /\ usage[w][s] \in Nat /\ Due(w, s)' = Due(w, s)
                 /\ Outstanding(w, s)' = Outstanding(w, s)
                 /\ \A c \in Callers : Claims(call[c], w, s)' <=> Claims(call[c], w, s)
        BY <1>1, Typed DEF Rows, Due, Outstanding, Claims
    <2>2. ASSUME NEW w \in Windows
          PROVE  /\ StartOf(w, clock) \in Starts /\ StartOf(w, clock) \in Nat
                 /\ StartOf(w, clock)' \in Starts /\ StartOf(w, clock)' \in Nat
                 /\ StartOf(w, clock) <= StartOf(w, clock)'
        <3>1. clock + 1 \in 0..MaxClock
            BY <1>1
        <3>2. StartOf(w, clock) <= StartOf(w, clock + 1)
            BY <1>1, WindowTypes, Division DEF StartOf
        <3> QED
            BY <1>1, <3>1, <3>2, WindowTypes DEF StartOf
    <2>3. ASSUME NEW w \in Windows, NEW s \in Starts, s > StartOf(w, clock)
          PROVE  spent[w][s] = 0 /\ Due(w, s) = 0
        <3>1. spent[w][s] = 0 /\ \A c \in Callers : ~Claims(call[c], w, s)
            BY <1>6, <2>3 DEF LedgerKept, FutureKept
        <3>2. PICK f \in [Callers -> Credits] : f = [c \in Callers |-> Owed(call[c], w, s)]
            BY SumsTyped
        <3>3. \A c \in Callers : f[c] = 0
            BY <3>1, <3>2 DEF Owed
        <3> QED
            BY <3>1, <3>2, <3>3, TotalOfNothing DEF Due
    <2>4. CoverKept'
        <3>1. ASSUME NEW w \in Windows
              PROVE  LET s == StartOf(w, clock)' IN usage[w][s] >= spent[w][s] + Due(w, s)
            <4>1. PICK s \in Starts : s = StartOf(w, clock)'
                BY <2>2
            <4>2. CASE s = StartOf(w, clock)
                BY <1>6, <4>1, <4>2 DEF LedgerKept, CoverKept
            <4>3. CASE s > StartOf(w, clock)
                BY <2>1, <2>3, <4>1, <4>3
            <4> QED
                BY <2>2, <4>1, <4>2, <4>3
        <3>2. ASSUME NEW w \in Windows, NEW s \in Starts, s = StartOf(w, clock)'
              PROVE  usage'[w][s] >= spent'[w][s] + Due(w, s)'
            BY <1>1, <2>1, <3>1, <3>2
        <3> QED
            BY <2>2, <3>2 DEF CoverKept
    <2>5. BackingKept'
        BY <1>1, <1>6, <2>1 DEF LedgerKept, BackingKept
    <2>6. FutureKept'
        <3>1. ASSUME NEW w \in Windows, NEW s \in Starts, s > StartOf(w, clock)'
              PROVE  spent'[w][s] = 0 /\ \A c \in Callers : ~Claims(call[c], w, s)'
            <4>1. s > StartOf(w, clock)
                BY <2>2, <3>1 DEF Starts
            <4> QED
                BY <1>1, <1>6, <2>1, <4>1 DEF LedgerKept, FutureKept
        <3> QED
            BY <3>1 DEF FutureKept
    <2> QED
        BY <2>4, <2>5, <2>6 DEF LedgerKept
<1> QED
    BY <1>5, <1>6


LEMMA QuotaStutters ==
    ASSUME QuotaKept, UNCHANGED vars
    PROVE  QuotaKept' /\ (LedgerKept => LedgerKept')
<1>1. UNCHANGED <<source, clock, usage, hold, key, call, spent, paused>>
    BY DEF vars
<1>2. QuotaKept'
    BY <1>1 DEF QuotaKept, TypeOK, CallKept, StaleKept, HoldIsStale, Asked, PauseKept
<1>3. LedgerKept => LedgerKept'
    BY <1>1 DEF LedgerKept, CoverKept, BackingKept, FutureKept, Due, Outstanding, StartOf, Claims
<1> QED
    BY <1>2, <1>3

LEMMA StepKeeps ==
    ASSUME QuotaKept, [Next]_vars
    PROVE  QuotaKept' /\ (Lag = 0 /\ LedgerKept => LedgerKept')
<1>1. CASE Tick
    BY <1>1, TickKeeps
<1>2. CASE \E k \in Keys : Restart(k)
    BY <1>2, RestartKeeps
<1>3. ASSUME NEW c \in Callers,
             \/ BeginSearch(c) \/ ReleaseStaleHold(c) \/ ReserveCredits(c) \/ NextTerm(c)
             \/ BudgetExhausted(c) \/ ReserveRequest(c) \/ ProviderAnswers(c)
             \/ HandleAnswer(c) \/ SettlementFails(c)
      PROVE  QuotaKept' /\ (Lag = 0 /\ LedgerKept => LedgerKept')
    <2>1. CASE BeginSearch(c) \/ ReleaseStaleHold(c) \/ NextTerm(c)
        BY <2>1, BeginSearchKeeps, ReleaseStaleHoldKeeps, NextTermKeeps
    <2>2. CASE ReserveCredits(c) \/ ReserveRequest(c)
        BY <2>2, ReserveCreditsKeeps, ReserveRequestKeeps
    <2>3. CASE BudgetExhausted(c) \/ ProviderAnswers(c)
        BY <2>3, BudgetExhaustedKeeps, ProviderAnswersKeeps
    <2>4. CASE HandleAnswer(c) \/ SettlementFails(c)
        BY <2>4, HandleAnswerKeeps, SettlementFailsKeeps
    <2> QED
        BY <1>3, <2>1, <2>2, <2>3, <2>4
<1>4. CASE UNCHANGED vars
    BY <1>4, QuotaStutters
<1> QED
    BY <1>1, <1>2, <1>3, <1>4 DEF Next

-----------------------------------------------------------------------------
(* The theorems *)

(* The inductive invariant holds of every behaviour, whatever the lag. *)
THEOREM QuotaIsKept == Spec => []QuotaKept
<1>1. Init => QuotaKept
    BY QuotaStarts
<1>2. QuotaKept /\ [Next]_vars => QuotaKept'
    BY StepKeeps
<1> QED
    BY <1>1, <1>2, PTL DEF Spec

(* The ledger, the pause and the searches have their types. *)
THEOREM TypesAreKept == Spec => []TypeOK
<1>1. QuotaKept => TypeOK
    BY DEF QuotaKept
<1> QED
    BY <1>1, QuotaIsKept, PTL

(* Without lag, the row of the current window covers what was sent and     *)
(* what is owed under it.                                                  *)
THEOREM LedgerIsKept ==
    ASSUME Lag = 0
    PROVE  Spec => []LedgerKept
<1>1. Init => LedgerKept
    BY LedgerStarts
<1>2. QuotaKept /\ LedgerKept /\ [Next]_vars => LedgerKept'
    BY StepKeeps
<1> QED
    BY <1>1, <1>2, QuotaIsKept, PTL DEF Spec

(* No window of the provider is used beyond its allowance: what was sent   *)
(* under any start of any window is within its limit, whatever searches    *)
(* overlap, answers are lost, settlements fail and restarts happen,        *)
(* provided a reservation commits at the clock it has read                 *)
(* (source-quota.js 72-116).                                               *)
THEOREM AllowanceIsKept ==
    ASSUME Lag = 0
    PROVE  Spec => []AllowanceKept
<1>1. QuotaKept /\ LedgerKept => AllowanceKept
    <2> SUFFICES ASSUME QuotaKept, LedgerKept, NEW w \in Windows, NEW s \in Starts
                 PROVE  spent[w][s] <= Limit[w]
        BY DEF AllowanceKept
    <2>1. spent[w][s] + Outstanding(w, s) <= Limit[w]
        BY DEF LedgerKept, BackingKept
    <2>2. spent[w][s] \in Nat /\ Limit[w] \in Nat /\ Outstanding(w, s) \in Nat
        BY Typed, SumsTyped, WindowAssumption DEF QuotaKept, Rows, WindowAssumption
    <2> QED
        BY <2>1, <2>2
<1> QED
    BY <1>1, QuotaIsKept, LedgerIsKept, PTL

(* The row of the current window covers what was sent under it and what is *)
(* still reserved, so a settlement gives back only what was not billed     *)
(* (source-quota.js 118-126).                                              *)
THEOREM LedgerCoversItsSearches ==
    ASSUME Lag = 0
    PROVE  Spec => []LedgerCovers
<1>1. QuotaKept /\ LedgerKept => LedgerCovers
    <2> SUFFICES ASSUME QuotaKept, LedgerKept, NEW w \in Windows
                 PROVE  LET s == StartOf(w, clock)
                        IN  usage[w][s] >= spent[w][s] + Outstanding(w, s)
        BY DEF LedgerCovers
    <2>1. PICK s \in Starts : s = StartOf(w, clock)
        BY Typed, WindowTypes DEF QuotaKept
    <2>2. usage[w][s] >= spent[w][s] + Due(w, s)
        BY <2>1 DEF LedgerKept, CoverKept
    <2>3. /\ usage[w][s] \in Nat /\ spent[w][s] \in Nat
          /\ Due(w, s) \in Nat /\ Outstanding(w, s) \in Nat /\ Outstanding(w, s) <= Due(w, s)
        BY Typed, SumsTyped DEF QuotaKept, Rows
    <2>4. usage[w][s] >= spent[w][s] + Outstanding(w, s)
        BY <2>2, <2>3
    <2> QED
        BY <2>1, <2>4
<1> QED
    BY <1>1, QuotaIsKept, LedgerIsKept, PTL

-----------------------------------------------------------------------------
(* A pause lasts *)

(* A step of a search grants nothing, or there is no pause. *)
Ungranted(x, y) ==
    x.pc # "sent" /\ (x.reservation = NoReservation \/ x.reservation = y.reservation)

LEMMA MovesOfSearches ==
    ASSUME QuotaKept, NEW c \in Callers,
           \/ BeginSearch(c) \/ ReleaseStaleHold(c) \/ ReserveCredits(c) \/ NextTerm(c)
           \/ BudgetExhausted(c) \/ ReserveRequest(c) \/ ProviderAnswers(c)
           \/ HandleAnswer(c) \/ SettlementFails(c)
    PROVE  \E x : call' = [call EXCEPT ![c] = x] /\ (paused <= clock \/ Ungranted(x, call[c]))
<1>1. PICK y \in Calls : y = call[c]
    BY DEF QuotaKept, TypeOK
<1>2. ASSUME Ends(c) PROVE \E x : call' = [call EXCEPT ![c] = x] /\ Ungranted(x, call[c])
    BY <1>2, IdleTyped DEF Ends, Ungranted
<1>3. ASSUME NotSent(c) PROVE \E x : call' = [call EXCEPT ![c] = x] /\ Ungranted(x, call[c])
    <2>1. PICK x : x = [y EXCEPT !.pc = "answered", !.outcome = "refused", !.bill = 0]
        OBVIOUS
    <2>2. x.pc = "answered" /\ x.reservation = y.reservation
        BY <2>1 DEF Calls
    <2>3. call' = [call EXCEPT ![c] = x]
        BY <1>1, <1>3, <2>1 DEF NotSent
    <2> QED
        BY <1>1, <2>2, <2>3 DEF Ungranted
<1>4. CASE BeginSearch(c)
    <2>1. PICK found : found = IF hold # None /\ clock < hold.until THEN hold ELSE None
        OBVIOUS
    <2>2. PICK x : x = IF found # None /\ found.reason = "key_rejected" /\ found.key # key
                       THEN [IdleCall EXCEPT !.pc = "release", !.stale = found]
                       ELSE [IdleCall EXCEPT !.pc = "page"]
        OBVIOUS
    <2>3. x.pc # "sent" /\ x.reservation = NoReservation
        BY <2>2 DEF IdleCall
    <2>4. call' = [call EXCEPT ![c] = x]
        BY <1>4, <2>1, <2>2 DEF BeginSearch
    <2> QED
        BY <2>3, <2>4 DEF Ungranted
<1>5. CASE ReleaseStaleHold(c)
    <2>1. PICK x : x = [y EXCEPT !.pc = "page", !.stale = None]
        OBVIOUS
    <2>2. x.pc = "page" /\ x.reservation = y.reservation
        BY <2>1 DEF Calls
    <2>3. call' = [call EXCEPT ![c] = x]
        BY <1>1, <1>5, <2>1 DEF ReleaseStaleHold
    <2> QED
        BY <1>1, <2>2, <2>3 DEF Ungranted
<1>6. CASE NextTerm(c)
    <2>1. PICK n : n = y.page + 1
        OBVIOUS
    <2>2. PICK x : x = [y EXCEPT !.pc = "request", !.page = n]
        OBVIOUS
    <2>3. x.pc = "request" /\ x.reservation = y.reservation
        BY <2>2 DEF Calls
    <2>4. call' = [call EXCEPT ![c] = x]
        BY <1>1, <1>6, <2>1, <2>2 DEF NextTerm
    <2> QED
        BY <1>1, <2>3, <2>4 DEF Ungranted
<1>7. CASE BudgetExhausted(c) \/ SettlementFails(c)
    BY <1>2, <1>3, <1>7 DEF BudgetExhausted, SettlementFails

<1>8. CASE ReserveCredits(c)
    <2>1. PICK at \in ClocksRead : hold' = HoldAt(at) /\ (Ends(c) \/ hold' = None)
        BY <1>8 DEF ReserveCredits
    <2>2. UNCHANGED <<clock, key, paused>>
        BY <1>8 DEF ReserveCredits
    <2>3. hold' = None => paused <= clock
        BY <2>1, <2>2, HoldExpires
    <2>4. \E x : call' = [call EXCEPT ![c] = x]
        BY <1>8 DEF ReserveCredits, Ends
    <2> QED
        BY <1>2, <2>1, <2>3, <2>4
<1>9. CASE ReserveRequest(c)
    <2>1. PICK at \in ClocksRead :
            /\ hold' = HoldAt(at)
            /\ \/ hold' = None \/ NotSent(c)
        BY <1>9 DEF ReserveRequest
    <2>2. UNCHANGED <<clock, key, paused>>
        BY <1>9 DEF ReserveRequest
    <2>3. hold' = None => paused <= clock
        BY <2>1, <2>2, HoldExpires
    <2>4. \E x : call' = [call EXCEPT ![c] = x]
        BY <1>9 DEF ReserveRequest, NotSent
    <2> QED
        BY <1>3, <2>1, <2>3, <2>4
<1>10. CASE ProviderAnswers(c)
    <2>1. PICK outcome, bill :
            call' = [call EXCEPT ![c] =
                      [call[c] EXCEPT !.pc = "answered", !.outcome = outcome, !.bill = bill]]
        BY <1>10 DEF ProviderAnswers
    <2>2. PICK x : x = [y EXCEPT !.pc = "answered", !.outcome = outcome, !.bill = bill]
        OBVIOUS
    <2>3. x.pc = "answered" /\ x.reservation = y.reservation
        BY <2>2 DEF Calls
    <2>4. call' = [call EXCEPT ![c] = x]
        BY <1>1, <2>1, <2>2
    <2> QED
        BY <1>1, <2>3, <2>4 DEF Ungranted
<1>11. CASE HandleAnswer(c)
    <2>1. CASE call' = [call EXCEPT ![c] = [IdleCall EXCEPT !.pc = "page", !.page = call[c].page]]
        <3>1. PICK n : n = call[c].page
            OBVIOUS
        <3>2. PICK x : x = [IdleCall EXCEPT !.pc = "page", !.page = n]
            OBVIOUS
        <3>3. x.pc = "page" /\ x.reservation = NoReservation
            BY <3>2 DEF IdleCall
        <3> QED
            BY <2>1, <3>1, <3>2, <3>3 DEF Ungranted
    <2> QED
        BY <1>2, <1>11, <2>1 DEF HandleAnswer, NextPage
<1> QED
    BY <1>4, <1>5, <1>6, <1>7, <1>8, <1>9, <1>10, <1>11

LEMMA GrantsWhenFree ==
    ASSUME QuotaKept, Next, NEW c \in Callers, Grants(c)
    PROVE  paused <= clock
<1>1. PICK y \in Calls : y = call[c]
    BY DEF QuotaKept, TypeOK
<1>2. y.reservation.credits \in Nat /\ call \in [Callers -> Calls]
    BY WindowAssumption DEF WindowAssumption, Calls, Reservations, QuotaKept, TypeOK
<1>3. CASE Tick
    BY <1>1, <1>2, <1>3 DEF Tick, Grants
<1>4. CASE \E k \in Keys : Restart(k)
    <2>1. call'[c].pc = "idle" /\ call'[c].reservation.credits = 0
        BY <1>4 DEF Restart, IdleCall, NoReservation
    <2> QED
        BY <1>1, <1>2, <2>1 DEF Grants
<1>5. ASSUME NEW d \in Callers,
             \/ BeginSearch(d) \/ ReleaseStaleHold(d) \/ ReserveCredits(d) \/ NextTerm(d)
             \/ BudgetExhausted(d) \/ ReserveRequest(d) \/ ProviderAnswers(d)
             \/ HandleAnswer(d) \/ SettlementFails(d)
      PROVE  paused <= clock
    <2>1. PICK x : call' = [call EXCEPT ![d] = x] /\ (paused <= clock \/ Ungranted(x, call[d]))
        BY <1>5, MovesOfSearches
    <2>2. CASE d # c
        BY <1>1, <1>2, <2>1, <2>2 DEF Grants
    <2>3. CASE d = c /\ Ungranted(x, y)
        <3>1. call'[c] = x
            BY <1>2, <2>1, <2>3
        <3>2. x.reservation.credits = 0 \/ x.reservation.credits = y.reservation.credits
            BY <2>3 DEF Ungranted, NoReservation
        <3> QED
            BY <1>1, <1>2, <2>3, <3>1, <3>2 DEF Grants, Ungranted
    <2> QED
        BY <1>1, <2>1, <2>2, <2>3
<1> QED
    BY <1>3, <1>4, <1>5 DEF Next

(* A pause the provider asked for lasts: no credits and no request are     *)
(* reserved before the latest end of the pauses written under this key,    *)
(* though later answers write shorter ones and a search may lift a pause   *)
(* that another key left, whatever the lag (sqlite-store.js 287-297,       *)
(* source-quota.js 158-165).                                               *)
THEOREM PausesAreKept == Spec => PausesLast
<1>1. QuotaKept /\ [Next]_vars => [(\E c \in Callers : Grants(c)) => paused <= clock]_vars
    BY GrantsWhenFree
<1> QED
    BY <1>1, QuotaIsKept, PTL DEF Spec, PausesLast
=============================================================================
