------------------------- MODULE ScanRequestsProofs -------------------------
(***************************************************************************)
(* Why a scan keeps to its budgets, why a learned board is not listed more *)
(* often than it may and why a platform that refused gets no more queued   *)
(* requests, for any number of scans, calls, platforms and boards.         *)
(*                                                                         *)
(* Nothing of a scan's invariant is about another scan, so it is stated    *)
(* for values: sc, ts, ca, ta and se stand for what scan, task, cache,     *)
(* tail and sent hold for a scan s.                                        *)
(***************************************************************************)
EXTENDS ScanRequests, FiniteSetTheorems, TLAPS

-----------------------------------------------------------------------------
(* The inductive invariant *)

(* What stands in a platform's line until it settles; what joined another  *)
(* waits elsewhere.                                                        *)
InLine == Running \ {"joined"}
Line(ts) == {f \in Paced : ts[f].pc \in InLine}

(* Before it begins and after its end a scan holds nothing. *)
AtRest(sc, ts, ca, ta, se) ==
    /\ sc.pc \in {"idle", "done"}
    /\ sc.count = 0 /\ sc.by = [i \in Sources |-> 0] /\ sc.blocked = {}
    /\ ts = [f \in Fetches |-> NewTask]
    /\ ca = [u \in Urls |-> None] /\ ta = [o \in Origins |-> None] /\ se = {}

(* Each state has its kind of fetch, and a fetch waits only for one that   *)
(* is under way: in its platform's line, or for its own URL.               *)
WaitsKept(ts) ==
    \A f \in Fetches :
        /\ ts[f].pc \in {"queued", "pacing"} => f \in Paced
        /\ ts[f].pc \in {"reserving", "granted"} => ListsLearned(f)
        /\ ts[f].pc = "ledger" => f \in Keyed
        /\ ts[f].on # None =>
             /\ ts[ts[f].on].pc \in InLine
             /\ \/ ts[f].pc = "queued" /\ ts[f].on \in Paced /\ Origin(ts[f].on) = Origin(f)
                \/ ts[f].pc = "joined" /\ UrlOf[ts[f].on] = UrlOf[f]

(* The fetches in the line of a platform have an order in which each waits *)
(* for the one before it; the tail is the last of them.                    *)
InOrder(ts, ta, rank) ==
    /\ \A f, g \in Line(ts) : Origin(f) = Origin(g) =>
         /\ rank[f] = rank[g] \/ UrlOf[f] = UrlOf[g] => f = g
         /\ rank[f] < rank[g] => ts[g].on # None /\ rank[f] <= rank[ts[g].on]
         /\ ts[g].on = f => rank[f] < rank[g]
    /\ \A o \in Origins : ta[o] # None =>
         /\ ta[o] \in Line(ts) /\ Origin(ta[o]) = o
         /\ \A f \in Line(ts) : Origin(f) = o => rank[f] <= rank[ta[o]]
    /\ \A f \in Line(ts) : ta[Origin(f)] # None

LineKept(ts, ta) == \E rank \in [Fetches -> Nat] : InOrder(ts, ta, rank)

(* What is cached is on its way or answered, and nothing is cached for a   *)
(* URL whose fetch still waits in line.                                    *)
CacheKept(ts, ca) ==
    /\ \A u \in Urls : ca[u] # None =>
         UrlOf[ca[u]] = u /\ ts[ca[u]].pc \in {"ledger", "sent", "ok", "restricted"}
    /\ \A f \in Paced :
         ts[f].pc \in {"queued", "pacing", "reserving", "granted"} => ca[UrlOf[f]] = None

(* A refusal is remembered, and none is known of the platform of a fetch   *)
(* that has had its turn.                                                  *)
BlocksKept(sc, ts) ==
    \A f \in Paced :
        /\ ts[f].pc = "restricted" => Origin(f) \in sc.blocked
        /\ ts[f].pc \in {"pacing", "reserving", "granted"} => Origin(f) \notin sc.blocked

(* A request is of the first or the second try of a fetch that has been    *)
(* sent.                                                                   *)
SentKept(s, ts, se) ==
    \A q \in se :
        /\ q[1] = s /\ q[3] <= ts[q[2]].tries
        /\ q[3] = ts[q[2]].tries => ts[q[2]].pc \in Ended \cup {"sent"}

(* The slots taken: of fetches that wait to be sent, and of requests.      *)
Held(ts) == {f \in Fetches : ts[f].pc \in Claiming}
Slot(s, ts, f) == <<s, f, ts[f].tries>>
SlotsOf(s, ts, held) == {Slot(s, ts, f) : f \in held}
Used(s, ts, se) == SlotsOf(s, ts, Held(ts)) \cup se
UsedBy(i, s, ts, se) == {q \in Used(s, ts, se) : SourceOf[q[2]] = i}

SlotsKept(s, sc, ts, se) ==
    /\ sc.count = Cardinality(Used(s, ts, se)) /\ sc.count <= MaxRequests
    /\ \A i \in Sources :
         /\ sc.by[i] = Cardinality(UsedBy(i, s, ts, se))
         /\ sc.by[i] <= MaxRequestsPerSource

ScanKept(s, sc, ts, ca, ta, se) ==
    /\ sc.pc \in {"idle", "done"} => AtRest(sc, ts, ca, ta, se)
    /\ WaitsKept(ts) /\ LineKept(ts, ta) /\ CacheKept(ts, ca) /\ BlocksKept(sc, ts)
    /\ SentKept(s, ts, se) /\ SlotsKept(s, sc, ts, se)

(* A list of a learned board is recorded before it may be sent, and no     *)
(* more are recorded in a day than it may get.                             *)
DayKept ==
    /\ \A s \in Scans, f \in Fetches :
         task[s][f].pc = "granted" => ListsLearned(f) /\ Request(s, f) \in log[Board(f)]
    /\ \A b \in Learned :
         IsFiniteSet(log[b]) /\ Cardinality(log[b]) <= DailyLists /\ listed[b] \subseteq log[b]

RequestsKept ==
    /\ TypeOK
    /\ \A s \in Scans : ScanKept(s, scan[s], task[s], cache[s], tail[s], sent[s])
    /\ DayKept


-----------------------------------------------------------------------------
(* Values of a scan *)

ValuesOf(s, sc, ts, ca, ta, se) ==
    /\ s \in Scans /\ sc \in ScanRecords /\ ts \in [Fetches -> Tasks]
    /\ ca \in [Urls -> Fetches \cup {None}] /\ ta \in [Origins -> Fetches \cup {None}]
    /\ se \in SUBSET Requests

LEMMA NamesOf ==
    ASSUME NEW f \in Fetches
    PROVE  /\ UrlOf[f] \in Urls /\ Origin(f) \in Origins /\ SourceOf[f] \in Sources
           /\ f # None
BY RequestAssumption DEF RequestAssumption, Urls, Origins, Sources, Origin

LEMMA Platforms ==
    ASSUME NEW f \in Fetches, NEW g \in Fetches, UrlOf[f] = UrlOf[g]
    PROVE  (f \in Paced <=> g \in Paced) /\ Origin(f) = Origin(g)
BY PlatformAssumption DEF Origin

LEMMA TaskTyped ==
    ASSUME NEW ts \in [Fetches -> Tasks], NEW f \in Fetches
    PROVE  /\ ts[f] \in Tasks /\ ts[f].pc \in Running \cup Ended \cup {"new"}
           /\ ts[f].on \in Fetches \cup {None} /\ ts[f].tries \in {1, 2}
BY DEF Tasks

(* Only one fetch is at the head of a platform's line, and only one is in  *)
(* it for a URL.                                                           *)
LEMMA OneAhead ==
    ASSUME NEW ts \in [Fetches -> Tasks], NEW ta, LineKept(ts, ta),
           NEW f \in Line(ts), NEW g \in Line(ts), Origin(f) = Origin(g),
           ts[f].on = None, ts[g].on = None
    PROVE  f = g
<1>1. PICK rank \in [Fetches -> Nat] : InOrder(ts, ta, rank)
    BY DEF LineKept
<1>2. f \in Fetches /\ g \in Fetches
    BY RequestAssumption DEF Line, RequestAssumption
<1>3. rank[f] \in Nat /\ rank[g] \in Nat
    BY <1>2
<1>4. ~(rank[f] < rank[g]) /\ ~(rank[g] < rank[f])
    BY <1>1 DEF InOrder
<1>5. rank[f] = rank[g]
    BY <1>3, <1>4
<1> QED
    BY <1>1, <1>5 DEF InOrder

LEMMA OneOfUrl ==
    ASSUME NEW ts \in [Fetches -> Tasks], NEW ta, LineKept(ts, ta),
           NEW f \in Line(ts), NEW g \in Line(ts), UrlOf[f] = UrlOf[g]
    PROVE  f = g
BY DEF LineKept, InOrder, Origin

-----------------------------------------------------------------------------
(* The slots *)

LEMMA UsedFinite ==
    ASSUME NEW s, NEW sc, NEW ts, NEW ca, NEW ta, NEW se, ValuesOf(s, sc, ts, ca, ta, se),
           SentKept(s, ts, se)
    PROVE  IsFiniteSet(Used(s, ts, se)) /\ \A i : IsFiniteSet(UsedBy(i, s, ts, se))
<1>1. IsFiniteSet(Fetches) /\ IsFiniteSet({1, 2})
    <2>1. IsFiniteSet({1})
        BY FS_Singleton
    <2>2. IsFiniteSet({1} \cup {2})
        BY <2>1, FS_AddElement
    <2>3. {1} \cup {2} = {1, 2}
        OBVIOUS
    <2> QED
        BY <2>2, <2>3, RequestAssumption DEF RequestAssumption
<1>2. IsFiniteSet(Fetches \X {1, 2})
    BY <1>1, FS_Product
<1> DEFINE pairs == Fetches \X {1, 2}
           triples == {s} \X Fetches \X {1, 2}
           tripleOf == [p \in pairs |-> <<s, p[1], p[2]>>]
<1>3. tripleOf \in Surjection(pairs, triples)
    <2>1. tripleOf \in [pairs -> triples]
        OBVIOUS
    <2>2. ASSUME NEW q \in triples
          PROVE  \E p \in pairs : tripleOf[p] = q
        <3>1. <<q[2], q[3]>> \in pairs /\ q = <<s, q[2], q[3]>>
            OBVIOUS
        <3> QED
            BY <3>1
    <2> QED
        BY <2>1, <2>2 DEF Surjection
<1>4. IsFiniteSet(triples)
    <2> HIDE DEF pairs, triples, tripleOf
    <2> QED
        BY <1>2, <1>3, FS_Surjection DEF pairs
<1>5. Used(s, ts, se) \subseteq triples
    <2>1. \A f \in Fetches : ts[f].tries \in {1, 2}
        BY TaskTyped DEF ValuesOf
    <2>2. \A q \in se : q \in Requests /\ q[1] = s
        BY DEF ValuesOf, SentKept
    <2>3. \A q \in se : q \in triples
        BY <2>2 DEF Requests
    <2> QED
        BY <2>1, <2>3 DEF Used, Held, SlotsOf, Slot
<1>6. \A i : UsedBy(i, s, ts, se) \subseteq triples
    BY <1>5 DEF UsedBy
<1> HIDE DEF triples
<1> QED
    BY <1>4, <1>5, <1>6, FS_Subset


LEMMA BoundsTyped ==
    MaxRequests \in Nat /\ MaxRequestsPerSource \in Nat /\ DailyLists \in Nat
BY RequestAssumption DEF RequestAssumption

LEMMA SlotsAgree ==
    ASSUME NEW s, NEW ts, NEW ts2, NEW held, \A f \in held : ts2[f].tries = ts[f].tries
    PROVE  SlotsOf(s, ts2, held) = SlotsOf(s, ts, held)
BY DEF SlotsOf, Slot

LEMMA OneSlot ==
    ASSUME NEW s, NEW ts, NEW held, NEW f
    PROVE  f \in held <=> Slot(s, ts, f) \in SlotsOf(s, ts, held)
BY DEF SlotsOf, Slot

LEMMA SlotsSame ==
    ASSUME NEW s, NEW sc, NEW ts, NEW se, SlotsKept(s, sc, ts, se),
           NEW sc2, sc2.count = sc.count, sc2.by = sc.by,
           NEW ts2, NEW se2, Used(s, ts2, se2) = Used(s, ts, se)
    PROVE  SlotsKept(s, sc2, ts2, se2)
BY DEF SlotsKept, UsedBy

OneMore(sc, sc2, f) ==
    /\ sc2.count = sc.count + 1
    /\ sc2.by = [sc.by EXCEPT ![SourceOf[f]] = sc.by[SourceOf[f]] + 1]

OneLess(sc, sc2, f) ==
    /\ sc2.count = sc.count - 1
    /\ sc2.by = [sc.by EXCEPT ![SourceOf[f]] = sc.by[SourceOf[f]] - 1]

LEMMA SlotTaken ==
    ASSUME NEW s, NEW sc, NEW ts, NEW ca, NEW ta, NEW se, ValuesOf(s, sc, ts, ca, ta, se),
           SentKept(s, ts, se), SlotsKept(s, sc, ts, se),
           NEW f \in Fetches, Slot(s, ts, f) \notin Used(s, ts, se),
           sc.count < MaxRequests, sc.by[SourceOf[f]] < MaxRequestsPerSource,
           NEW sc2, OneMore(sc, sc2, f),
           NEW ts2, NEW se2, Used(s, ts2, se2) = Used(s, ts, se) \cup {Slot(s, ts, f)}
    PROVE  SlotsKept(s, sc2, ts2, se2)
<1>1. IsFiniteSet(Used(s, ts, se)) /\ \A i : IsFiniteSet(UsedBy(i, s, ts, se))
    BY UsedFinite
<1>2. sc.count \in Nat /\ sc.by \in [Sources -> Nat] /\ SourceOf[f] \in Sources
    BY NamesOf DEF ValuesOf, ScanRecords
<1>3. Cardinality(Used(s, ts2, se2)) = Cardinality(Used(s, ts, se)) + 1
    BY <1>1, FS_AddElement
<1>4. sc2.count = Cardinality(Used(s, ts2, se2)) /\ sc2.count <= MaxRequests
    BY <1>2, <1>3, BoundsTyped DEF SlotsKept, OneMore
<1>5. ASSUME NEW i \in Sources
      PROVE  /\ sc2.by[i] = Cardinality(UsedBy(i, s, ts2, se2))
             /\ sc2.by[i] <= MaxRequestsPerSource
    <2>1. sc.by[i] = Cardinality(UsedBy(i, s, ts, se)) /\ sc.by[i] <= MaxRequestsPerSource
        BY DEF SlotsKept
    <2>2. CASE SourceOf[f] = i
        <3>1. /\ UsedBy(i, s, ts2, se2) = UsedBy(i, s, ts, se) \cup {Slot(s, ts, f)}
              /\ Slot(s, ts, f) \notin UsedBy(i, s, ts, se)
            BY <2>2 DEF UsedBy, Slot
        <3>2. Cardinality(UsedBy(i, s, ts2, se2)) = Cardinality(UsedBy(i, s, ts, se)) + 1
            BY <1>1, <3>1, FS_AddElement
        <3> QED
            BY <1>2, <2>1, <2>2, <3>2, BoundsTyped DEF OneMore
    <2>3. CASE SourceOf[f] # i
        <3>1. UsedBy(i, s, ts2, se2) = UsedBy(i, s, ts, se)
            BY <2>3 DEF UsedBy, Slot
        <3> QED
            BY <1>2, <2>1, <2>3, <3>1 DEF OneMore
    <2> QED
        BY <2>2, <2>3
<1> QED
    BY <1>4, <1>5 DEF SlotsKept

LEMMA SlotReturned ==
    ASSUME NEW s, NEW sc, NEW ts, NEW ca, NEW ta, NEW se, ValuesOf(s, sc, ts, ca, ta, se),
           SentKept(s, ts, se), SlotsKept(s, sc, ts, se),
           NEW f \in Fetches, Slot(s, ts, f) \in Used(s, ts, se),
           NEW sc2, OneLess(sc, sc2, f),
           NEW ts2, NEW se2, Used(s, ts2, se2) = Used(s, ts, se) \ {Slot(s, ts, f)}
    PROVE  /\ SlotsKept(s, sc2, ts2, se2)
           /\ sc2.count \in Nat /\ sc2.by \in [Sources -> Nat]
<1>1. IsFiniteSet(Used(s, ts, se)) /\ \A i : IsFiniteSet(UsedBy(i, s, ts, se))
    BY UsedFinite
<1>2. sc.count \in Nat /\ sc.by \in [Sources -> Nat] /\ SourceOf[f] \in Sources
    BY NamesOf DEF ValuesOf, ScanRecords
<1>3. Cardinality(Used(s, ts2, se2)) = Cardinality(Used(s, ts, se)) - 1
    BY <1>1, FS_RemoveElement
<1>4. IsFiniteSet(Used(s, ts2, se2))
    BY <1>1, FS_RemoveElement
<1>5. Cardinality(Used(s, ts2, se2)) \in Nat
    BY <1>4, FS_CardinalityType
<1>6. /\ sc2.count = Cardinality(Used(s, ts2, se2)) /\ sc2.count <= MaxRequests
      /\ sc2.count \in Nat
    BY <1>2, <1>3, <1>5, BoundsTyped DEF SlotsKept, OneLess
<1>7. ASSUME NEW i \in Sources
      PROVE  /\ sc2.by[i] = Cardinality(UsedBy(i, s, ts2, se2))
             /\ sc2.by[i] <= MaxRequestsPerSource /\ sc2.by[i] \in Nat
    <2>1. sc.by[i] = Cardinality(UsedBy(i, s, ts, se)) /\ sc.by[i] <= MaxRequestsPerSource
        BY DEF SlotsKept
    <2>2. CASE SourceOf[f] = i
        <3>1. /\ UsedBy(i, s, ts2, se2) = UsedBy(i, s, ts, se) \ {Slot(s, ts, f)}
              /\ Slot(s, ts, f) \in UsedBy(i, s, ts, se)
            BY <2>2 DEF UsedBy, Slot
        <3>2. /\ Cardinality(UsedBy(i, s, ts2, se2)) = Cardinality(UsedBy(i, s, ts, se)) - 1
              /\ IsFiniteSet(UsedBy(i, s, ts2, se2))
            BY <1>1, <3>1, FS_RemoveElement
        <3>3. Cardinality(UsedBy(i, s, ts2, se2)) \in Nat
            BY <3>2, FS_CardinalityType
        <3> QED
            BY <1>2, <2>1, <2>2, <3>2, <3>3, BoundsTyped DEF OneLess
    <2>3. CASE SourceOf[f] # i
        <3>1. UsedBy(i, s, ts2, se2) = UsedBy(i, s, ts, se)
            BY <2>3 DEF UsedBy, Slot
        <3> QED
            BY <1>2, <2>1, <2>3, <3>1 DEF OneLess
    <2> QED
        BY <2>2, <2>3
<1>8. sc2.by \in [Sources -> Nat]
    BY <1>2, <1>7 DEF OneLess
<1> QED
    BY <1>6, <1>7, <1>8 DEF SlotsKept

-----------------------------------------------------------------------------
(* A fetch settles *)

Settles(ts, ts2, f, result) ==
    /\ ts2 \in [Fetches -> Tasks]
    /\ \A g \in Fetches : ts2[g].tries = ts[g].tries
    /\ \A g \in Fetches :
         IF g = f \/ (ts[g].pc = "joined" /\ ts[g].on = f)
         THEN ts2[g].pc = result /\ ts2[g].on = None
         ELSE /\ ts2[g].pc = ts[g].pc
              /\ ts2[g].on = IF ts[g].on = f THEN None ELSE ts[g].on

Uncached(ca, f, result) ==
    [ca EXCEPT ![UrlOf[f]] = IF ca[UrlOf[f]] = f /\ result = "failed" THEN None ELSE ca[UrlOf[f]]]

Untailed(ta, f) ==
    [ta EXCEPT ![Origin(f)] = IF ta[Origin(f)] = f THEN None ELSE ta[Origin(f)]]

LEMMA SettlingWaits ==
    ASSUME NEW ts \in [Fetches -> Tasks], NEW ts2, NEW f \in Fetches, NEW result \in Ended,
           Settles(ts, ts2, f, result), WaitsKept(ts)
    PROVE  WaitsKept(ts2)
<1> SUFFICES ASSUME NEW g \in Fetches
             PROVE  /\ ts2[g].pc \in {"queued", "pacing"} => g \in Paced
                    /\ ts2[g].pc \in {"reserving", "granted"} => ListsLearned(g)
                    /\ ts2[g].pc = "ledger" => g \in Keyed
                    /\ ts2[g].on # None =>
                         /\ ts2[ts2[g].on].pc \in InLine
                         /\ \/ ts2[g].pc = "queued" /\ ts2[g].on \in Paced /\ Origin(ts2[g].on) = Origin(g)
                            \/ ts2[g].pc = "joined" /\ UrlOf[ts2[g].on] = UrlOf[g]
    BY DEF WaitsKept
<1>1. CASE g = f \/ (ts[g].pc = "joined" /\ ts[g].on = f)
    BY <1>1 DEF Settles, Ended
<1>2. CASE ~(g = f \/ (ts[g].pc = "joined" /\ ts[g].on = f))
    <2>1. ts2[g].pc = ts[g].pc /\ (ts2[g].on # None => ts2[g].on = ts[g].on /\ ts[g].on # f)
        BY <1>2 DEF Settles
    <2>2. ASSUME ts2[g].on # None
          PROVE  ts2[ts[g].on].pc \in InLine
        <3>1. PICK h \in Fetches : h = ts[g].on /\ h # f /\ ts[h].pc \in InLine
            BY <2>1, <2>2, TaskTyped DEF WaitsKept
        <3> QED
            BY <3>1 DEF Settles, InLine
    <2> QED
        BY <2>1, <2>2 DEF WaitsKept
<1> QED
    BY <1>1, <1>2

(* The head of a line leaves it to the next; what is in no line leaves all *)
(* of them as they were.                                                   *)
LEMMA SettlingLine ==
    ASSUME NEW ts \in [Fetches -> Tasks], NEW ts2, NEW f \in Fetches, NEW result \in Ended,
           Settles(ts, ts2, f, result), WaitsKept(ts), ts[f].on = None,
           NEW ta \in [Origins -> Fetches \cup {None}], LineKept(ts, ta)
    PROVE  LineKept(ts2, Untailed(ta, f))
<1>1. PICK rank \in [Fetches -> Nat] : InOrder(ts, ta, rank)
    BY DEF LineKept
<1>2. Line(ts2) = Line(ts) \ {f} /\ Line(ts) \subseteq Fetches /\ Line(ts) \subseteq Paced
    <2>1. Paced \subseteq Fetches
        BY RequestAssumption DEF RequestAssumption
    <2>2. ASSUME NEW g \in Paced
          PROVE  ts2[g].pc \in InLine <=> ts[g].pc \in InLine /\ g # f
        BY <2>1, <2>2 DEF Settles, InLine, Ended, Running, Waiting, Claiming
    <2> QED
        BY <2>1, <2>2 DEF Line
<1>3. ASSUME NEW g \in Line(ts2)
      PROVE  g \in Line(ts) /\ g # f /\ ts2[g].on = IF ts[g].on = f THEN None ELSE ts[g].on
    BY <1>2 DEF Settles, Line, InLine
<1>4. \A g \in Line(ts) : rank[g] \in Nat
    BY <1>2
<1>5. ASSUME NEW g \in Line(ts), ts[g].on = f
      PROVE  f \in Line(ts) /\ Origin(f) = Origin(g)
    <2>1. ts[f].pc \in InLine /\ f \in Paced /\ Origin(f) = Origin(g)
        BY <1>2, <1>5, NamesOf DEF WaitsKept, Line, InLine
    <2> QED
        BY <2>1 DEF Line
<1>6. ASSUME NEW g \in Line(ts2), f \in Line(ts), Origin(g) = Origin(f)
      PROVE  rank[f] < rank[g]
    <2>1. ~(rank[g] < rank[f]) /\ rank[g] # rank[f]
        BY <1>1, <1>3, <1>6 DEF InOrder
    <2> QED
        BY <1>3, <1>4, <1>6, <2>1
<1>7. ASSUME NEW g \in Line(ts2), NEW h \in Line(ts2), Origin(g) = Origin(h)
      PROVE  /\ rank[g] = rank[h] \/ UrlOf[g] = UrlOf[h] => g = h
             /\ rank[g] < rank[h] => ts2[h].on # None /\ rank[g] <= rank[ts2[h].on]
             /\ ts2[h].on = g => rank[g] < rank[h]
    <2>1. /\ rank[g] = rank[h] \/ UrlOf[g] = UrlOf[h] => g = h
          /\ rank[g] < rank[h] => ts[h].on # None /\ rank[g] <= rank[ts[h].on]
          /\ ts[h].on = g => rank[g] < rank[h]
        BY <1>1, <1>3, <1>7 DEF InOrder
    <2>2. g # None
        BY <1>2, <1>3, NamesOf
    <2>3. ASSUME ts[h].on = f
          PROVE  ~(rank[g] < rank[h])
        <3>1. f \in Line(ts) /\ Origin(f) = Origin(g)
            BY <1>3, <1>5, <1>7, <2>3
        <3>2. rank[f] < rank[g]
            BY <1>6, <3>1
        <3> QED
            BY <1>3, <1>4, <2>1, <2>3, <3>1, <3>2
    <2> QED
        BY <1>3, <2>1, <2>2, <2>3
<1>8. ASSUME NEW o \in Origins, Untailed(ta, f)[o] # None
      PROVE  /\ Untailed(ta, f)[o] \in Line(ts2) /\ Origin(Untailed(ta, f)[o]) = o
             /\ \A g \in Line(ts2) : Origin(g) = o => rank[g] <= rank[Untailed(ta, f)[o]]
    <2>1. Untailed(ta, f)[o] = ta[o] /\ (o = Origin(f) => ta[o] # f)
        BY <1>8, NamesOf DEF Untailed
    <2>2. /\ ta[o] \in Line(ts) /\ Origin(ta[o]) = o
          /\ \A g \in Line(ts) : Origin(g) = o => rank[g] <= rank[ta[o]]
        BY <1>1, <1>8, <2>1 DEF InOrder
    <2> QED
        BY <1>2, <2>1, <2>2
<1>9. ASSUME NEW g \in Line(ts2)
      PROVE  Untailed(ta, f)[Origin(g)] # None
    <2>1. ta[Origin(g)] # None /\ Origin(g) \in Origins
        BY <1>1, <1>2, <1>3, NamesOf DEF InOrder
    <2>2. CASE Origin(g) = Origin(f) /\ ta[Origin(f)] = f
        <3>1. f \in Line(ts) /\ rank[g] <= rank[f]
            BY <1>1, <1>3, <2>1, <2>2 DEF InOrder
        <3> QED
            BY <1>3, <1>4, <1>6, <2>2, <3>1
    <2>3. CASE ~(Origin(g) = Origin(f) /\ ta[Origin(f)] = f)
        BY <2>1, <2>3 DEF Untailed
    <2> QED
        BY <2>2, <2>3
<1>10. InOrder(ts2, Untailed(ta, f), rank)
    BY <1>7, <1>8, <1>9 DEF InOrder
<1> QED
    BY <1>10 DEF LineKept

LEMMA SettlingCache ==
    ASSUME NEW ts \in [Fetches -> Tasks], NEW ts2, NEW f \in Fetches, NEW result \in Ended,
           Settles(ts, ts2, f, result),
           NEW ca \in [Urls -> Fetches \cup {None}], CacheKept(ts, ca)
    PROVE  CacheKept(ts2, Uncached(ca, f, result))
<1>1. ASSUME NEW u \in Urls, Uncached(ca, f, result)[u] # None
      PROVE  /\ UrlOf[Uncached(ca, f, result)[u]] = u
             /\ ts2[Uncached(ca, f, result)[u]].pc \in {"ledger", "sent", "ok", "restricted"}
    <2>1. PICK g \in Fetches : g = ca[u] /\ Uncached(ca, f, result)[u] = g
        BY <1>1, NamesOf DEF Uncached
    <2>2. UrlOf[g] = u /\ ts[g].pc \in {"ledger", "sent", "ok", "restricted"}
        BY <2>1, NamesOf DEF CacheKept
    <2>3. CASE g = f
        <3>1. result # "failed"
            BY <1>1, <2>1, <2>2, <2>3 DEF Uncached
        <3> QED
            BY <2>1, <2>2, <2>3, <3>1 DEF Settles, Ended
    <2>4. CASE g # f
        BY <2>1, <2>2, <2>4 DEF Settles
    <2> QED
        BY <2>3, <2>4
<1>2. ASSUME NEW g \in Paced, ts2[g].pc \in {"queued", "pacing", "reserving", "granted"}
      PROVE  Uncached(ca, f, result)[UrlOf[g]] = None
    <2>1. g \in Fetches
        BY RequestAssumption DEF RequestAssumption
    <2>2. ts[g].pc = ts2[g].pc
        BY <1>2, <2>1 DEF Settles, Ended
    <2>3. ca[UrlOf[g]] = None
        BY <1>2, <2>2 DEF CacheKept
    <2> QED
        BY <2>1, <2>3, NamesOf DEF Uncached
<1> QED
    BY <1>1, <1>2 DEF CacheKept

(* Nobody else has had a turn at a blocked platform. *)
Spares(blocked, ts, f) ==
    \A g \in Paced \ {f} : ts[g].pc \in {"pacing", "reserving", "granted"} => Origin(g) \notin blocked

LEMMA SettlingBlocks ==
    ASSUME NEW ts \in [Fetches -> Tasks], NEW ts2, NEW f \in Fetches, NEW result \in Ended,
           Settles(ts, ts2, f, result), WaitsKept(ts), NEW sc, BlocksKept(sc, ts),
           NEW sc2, sc.blocked \subseteq sc2.blocked,
           result = "restricted" /\ f \in Paced => Origin(f) \in sc2.blocked,
           Spares(sc2.blocked, ts, f)
    PROVE  BlocksKept(sc2, ts2)
<1> SUFFICES ASSUME NEW g \in Paced
             PROVE  /\ ts2[g].pc = "restricted" => Origin(g) \in sc2.blocked
                    /\ ts2[g].pc \in {"pacing", "reserving", "granted"} => Origin(g) \notin sc2.blocked
    BY DEF BlocksKept
<1>1. g \in Fetches
    BY RequestAssumption DEF RequestAssumption
<1>2. CASE g = f
    BY <1>1, <1>2 DEF Settles, Ended
<1>3. CASE g # f /\ ts[g].pc = "joined" /\ ts[g].on = f
    <2>1. UrlOf[f] = UrlOf[g]
        BY <1>1, <1>3, NamesOf DEF WaitsKept
    <2>2. f \in Paced /\ Origin(f) = Origin(g)
        BY <1>1, <2>1, Platforms
    <2> QED
        BY <1>1, <1>3, <2>2 DEF Settles, Ended
<1>4. CASE g # f /\ ~(ts[g].pc = "joined" /\ ts[g].on = f)
    <2>1. ts2[g].pc = ts[g].pc
        BY <1>1, <1>4 DEF Settles
    <2> QED
        BY <1>4, <2>1 DEF BlocksKept, Spares
<1> QED
    BY <1>2, <1>3, <1>4

LEMMA SettlingSent ==
    ASSUME NEW ts \in [Fetches -> Tasks], NEW ts2, NEW f \in Fetches, NEW result \in Ended,
           Settles(ts, ts2, f, result),
           NEW s, NEW se \in SUBSET Requests, SentKept(s, ts, se)
    PROVE  SentKept(s, ts2, se)
<1> SUFFICES ASSUME NEW q \in se
             PROVE  /\ q[1] = s /\ q[3] <= ts2[q[2]].tries
                    /\ q[3] = ts2[q[2]].tries => ts2[q[2]].pc \in Ended \cup {"sent"}
    BY DEF SentKept
<1>1. PICK g \in Fetches : g = q[2]
    BY DEF Requests
<1>2. ts2[g].tries = ts[g].tries /\ (ts2[g].pc = result \/ ts2[g].pc = ts[g].pc)
    BY DEF Settles
<1> QED
    BY <1>1, <1>2 DEF SentKept

LEMMA SettlingHeld ==
    ASSUME NEW ts \in [Fetches -> Tasks], NEW ts2, NEW f \in Fetches, NEW result \in Ended,
           Settles(ts, ts2, f, result)
    PROVE  /\ Held(ts2) = Held(ts) \ {f}
           /\ \A s, held : held \subseteq Fetches => SlotsOf(s, ts2, held) = SlotsOf(s, ts, held)
<1>1. \A g \in Fetches :
        ts2[g].tries = ts[g].tries /\ (ts2[g].pc \in Claiming <=> ts[g].pc \in Claiming /\ g # f)
    BY DEF Settles, Ended, Claiming
<1> QED
    BY <1>1, SlotsAgree DEF Held

LEMMA SettlingUsed ==
    ASSUME NEW ts \in [Fetches -> Tasks], NEW ts2, NEW f \in Fetches, NEW result \in Ended,
           Settles(ts, ts2, f, result), NEW s, NEW se, ts[f].pc \notin Claiming
    PROVE  Used(s, ts2, se) = Used(s, ts, se)
<1>1. Held(ts2) = Held(ts) /\ Held(ts) \subseteq Fetches
    BY SettlingHeld DEF Held
<1>2. SlotsOf(s, ts2, Held(ts2)) = SlotsOf(s, ts, Held(ts))
    BY <1>1, SettlingHeld
<1> QED
    BY <1>2 DEF Used

LEMMA ReturningUsed ==
    ASSUME NEW ts \in [Fetches -> Tasks], NEW ts2, NEW f \in Fetches, NEW result \in Ended,
           Settles(ts, ts2, f, result), NEW s, NEW se, SentKept(s, ts, se), ts[f].pc \in Claiming
    PROVE  /\ Slot(s, ts, f) \in Used(s, ts, se)
           /\ Used(s, ts2, se) = Used(s, ts, se) \ {Slot(s, ts, f)}
<1>1. Slot(s, ts, f) \notin se
    BY DEF SentKept, Claiming, Ended, Slot
<1>2. Held(ts2) = Held(ts) \ {f} /\ Held(ts) \subseteq Fetches /\ f \in Held(ts)
    BY SettlingHeld DEF Held
<1>3. SlotsOf(s, ts2, Held(ts2)) = SlotsOf(s, ts, Held(ts) \ {f})
    BY <1>2, SettlingHeld
<1>4. /\ SlotsOf(s, ts2, Held(ts2)) = SlotsOf(s, ts, Held(ts)) \ {Slot(s, ts, f)}
      /\ Slot(s, ts, f) \in SlotsOf(s, ts, Held(ts))
    <2>1. \A held : SlotsOf(s, ts, held \ {f}) = SlotsOf(s, ts, held) \ {Slot(s, ts, f)}
        BY DEF SlotsOf, Slot
    <2>2. Slot(s, ts, f) \in SlotsOf(s, ts, Held(ts))
        BY <1>2, OneSlot
    <2> QED
        BY <1>3, <2>1, <2>2, Zenon
<1> QED
    BY <1>1, <1>4 DEF Used

-----------------------------------------------------------------------------
(* A fetch moves on *)

Moved(ts, ts2, f, t) ==
    /\ ts2 \in [Fetches -> Tasks] /\ ts2[f] = t
    /\ \A g \in Fetches : g # f => ts2[g] = ts[g]

LEMMA OneMoves ==
    ASSUME NEW ts \in [Fetches -> Tasks], NEW f \in Fetches, NEW t \in Tasks
    PROVE  Moved(ts, [ts EXCEPT ![f] = t], f, t)
BY DEF Moved

LEMMA MovingWaits ==
    ASSUME NEW ts \in [Fetches -> Tasks], NEW f \in Fetches, NEW t \in Tasks,
           NEW ts2, Moved(ts, ts2, f, t), WaitsKept(ts),
           ts[f].pc \in InLine => t.pc \in InLine,
           t.pc \in {"queued", "pacing"} => f \in Paced,
           t.pc \in {"reserving", "granted"} => ListsLearned(f),
           t.pc = "ledger" => f \in Keyed,
           t.on # None =>
             /\ ts[t.on].pc \in InLine /\ t.on # f
             /\ \/ t.pc = "queued" /\ t.on \in Paced /\ Origin(t.on) = Origin(f)
                \/ t.pc = "joined" /\ UrlOf[t.on] = UrlOf[f]
    PROVE  WaitsKept(ts2)
<1>1. ts2[f] = t /\ \A g \in Fetches : g # f => ts2[g] = ts[g]
    BY DEF Moved
<1>2. t.on \in Fetches \cup {None} /\ \A g \in Fetches : ts[g].on \in Fetches \cup {None}
    BY TaskTyped DEF Tasks
<1>3. ASSUME NEW g \in Fetches, g # f
      PROVE  /\ ts2[g].pc \in {"queued", "pacing"} => g \in Paced
             /\ ts2[g].pc \in {"reserving", "granted"} => ListsLearned(g)
             /\ ts2[g].pc = "ledger" => g \in Keyed
             /\ ts2[g].on # None =>
                  /\ ts2[ts2[g].on].pc \in InLine
                  /\ \/ ts2[g].pc = "queued" /\ ts2[g].on \in Paced /\ Origin(ts2[g].on) = Origin(g)
                     \/ ts2[g].pc = "joined" /\ UrlOf[ts2[g].on] = UrlOf[g]
    <2>1. ts2[g] = ts[g]
        BY <1>1, <1>3
    <2>2. ts[g].on # None => ts2[ts[g].on].pc \in InLine
        BY <1>1, <1>2 DEF WaitsKept
    <2> QED
        BY <2>1, <2>2 DEF WaitsKept
<1>4. /\ ts2[f].pc \in {"queued", "pacing"} => f \in Paced
      /\ ts2[f].pc \in {"reserving", "granted"} => ListsLearned(f)
      /\ ts2[f].pc = "ledger" => f \in Keyed
      /\ ts2[f].on # None =>
           /\ ts2[ts2[f].on].pc \in InLine
           /\ \/ ts2[f].pc = "queued" /\ ts2[f].on \in Paced /\ Origin(ts2[f].on) = Origin(f)
              \/ ts2[f].pc = "joined" /\ UrlOf[ts2[f].on] = UrlOf[f]
    BY <1>1, <1>2
<1> QED
    BY <1>3, <1>4 DEF WaitsKept

(* Lines stay as they are when nothing enters or leaves one. *)
LEMMA MovingLine ==
    ASSUME NEW ts \in [Fetches -> Tasks], NEW f \in Fetches, NEW t \in Tasks,
           NEW ts2, Moved(ts, ts2, f, t),
           f \in Line(ts) => t.pc \in InLine /\ t.on = ts[f].on,
           f \in Paced /\ t.pc \in InLine => f \in Line(ts),
           NEW ta, LineKept(ts, ta)
    PROVE  LineKept(ts2, ta)
<1>1. ts2[f] = t /\ \A g \in Fetches : g # f => ts2[g] = ts[g]
    BY DEF Moved
<1>2. Paced \subseteq Fetches
    BY RequestAssumption DEF RequestAssumption
<1>3. Line(ts2) = Line(ts) /\ \A g \in Line(ts) : ts2[g].on = ts[g].on
    BY <1>1, <1>2 DEF Line
<1>4. PICK rank \in [Fetches -> Nat] : InOrder(ts, ta, rank)
    BY DEF LineKept
<1>5. ASSUME NEW g \in Line(ts2), NEW h \in Line(ts2), Origin(g) = Origin(h)
      PROVE  /\ rank[g] = rank[h] \/ UrlOf[g] = UrlOf[h] => g = h
             /\ rank[g] < rank[h] => ts2[h].on # None /\ rank[g] <= rank[ts2[h].on]
             /\ ts2[h].on = g => rank[g] < rank[h]
    <2>1. ts2[h].on = ts[h].on /\ g \in Line(ts) /\ h \in Line(ts)
        BY <1>3
    <2> QED
        BY <1>4, <1>5, <2>1 DEF InOrder
<1>6. /\ \A o \in Origins : ta[o] # None =>
           /\ ta[o] \in Line(ts2) /\ Origin(ta[o]) = o
           /\ \A g \in Line(ts2) : Origin(g) = o => rank[g] <= rank[ta[o]]
      /\ \A g \in Line(ts2) : ta[Origin(g)] # None
    BY <1>3, <1>4 DEF InOrder
<1>7. InOrder(ts2, ta, rank)
    BY <1>5, <1>6 DEF InOrder
<1> QED
    BY <1>7 DEF LineKept

LEMMA MovingCache ==
    ASSUME NEW ts \in [Fetches -> Tasks], NEW f \in Fetches, NEW t \in Tasks,
           NEW ts2, Moved(ts, ts2, f, t),
           NEW ca \in [Urls -> Fetches \cup {None}], CacheKept(ts, ca),
           ts[f].pc \in {"ledger", "sent", "ok", "restricted"} =>
             t.pc \in {"ledger", "sent", "ok", "restricted"},
           f \in Paced /\ t.pc \in {"queued", "pacing", "reserving", "granted"} => ca[UrlOf[f]] = None
    PROVE  CacheKept(ts2, ca)
<1>1. ts2[f] = t /\ \A g \in Fetches : g # f => ts2[g] = ts[g]
    BY DEF Moved
<1>2. Paced \subseteq Fetches
    BY RequestAssumption DEF RequestAssumption
<1>3. \A u \in Urls : ca[u] # None =>
         UrlOf[ca[u]] = u /\ ts2[ca[u]].pc \in {"ledger", "sent", "ok", "restricted"}
    BY <1>1 DEF CacheKept
<1>4. \A g \in Paced :
         ts2[g].pc \in {"queued", "pacing", "reserving", "granted"} => ca[UrlOf[g]] = None
    BY <1>1, <1>2 DEF CacheKept
<1> QED
    BY <1>3, <1>4 DEF CacheKept

(* What is asked for is cached; no other fetch waits in line for its URL.  *)
LEMMA AskingCache ==
    ASSUME NEW ts \in [Fetches -> Tasks], NEW f \in Fetches, NEW t \in Tasks,
           NEW ts2, Moved(ts, ts2, f, t), t.pc \in {"ledger", "sent"},
           f \in Paced => f \in Line(ts), NEW ta, LineKept(ts, ta),
           NEW ca \in [Urls -> Fetches \cup {None}], CacheKept(ts, ca)
    PROVE  CacheKept(ts2, [ca EXCEPT ![UrlOf[f]] = f])
<1>1. ts2[f] = t /\ \A g \in Fetches : g # f => ts2[g] = ts[g]
    BY DEF Moved
<1>2. Paced \subseteq Fetches
    BY RequestAssumption DEF RequestAssumption
<1>3. PICK ca2 : ca2 = [ca EXCEPT ![UrlOf[f]] = f]
    OBVIOUS
<1>4. ca2[UrlOf[f]] = f /\ \A u \in Urls : u # UrlOf[f] => ca2[u] = ca[u]
    BY <1>3, NamesOf
<1>5. \A u \in Urls : ca2[u] # None =>
         UrlOf[ca2[u]] = u /\ ts2[ca2[u]].pc \in {"ledger", "sent", "ok", "restricted"}
    BY <1>1, <1>4 DEF CacheKept
<1>6. ASSUME NEW g \in Paced, ts2[g].pc \in {"queued", "pacing", "reserving", "granted"}
      PROVE  ca2[UrlOf[g]] = None
    <2>1. g # f /\ ts2[g] = ts[g] /\ g \in Fetches
        BY <1>1, <1>2, <1>6
    <2>2. g \in Line(ts)
        BY <1>6, <2>1 DEF Line, InLine, Running, Waiting, Claiming
    <2>3. UrlOf[g] # UrlOf[f]
        BY <2>1, <2>2, OneOfUrl, Platforms
    <2> QED
        BY <1>4, <1>6, <2>1, <2>3, NamesOf DEF CacheKept
<1> QED
    BY <1>3, <1>5, <1>6 DEF CacheKept

LEMMA MovingBlocks ==
    ASSUME NEW ts \in [Fetches -> Tasks], NEW f \in Fetches, NEW t \in Tasks,
           NEW ts2, Moved(ts, ts2, f, t), NEW sc, BlocksKept(sc, ts),
           NEW sc2, sc2.blocked = sc.blocked, t.pc # "restricted",
           f \in Paced /\ t.pc \in {"pacing", "reserving", "granted"} => Origin(f) \notin sc.blocked
    PROVE  BlocksKept(sc2, ts2)
<1>1. ts2[f] = t /\ \A g \in Fetches : g # f => ts2[g] = ts[g]
    BY DEF Moved
<1>2. Paced \subseteq Fetches
    BY RequestAssumption DEF RequestAssumption
<1>3. ASSUME NEW g \in Paced
      PROVE  /\ ts2[g].pc = "restricted" => Origin(g) \in sc2.blocked
             /\ ts2[g].pc \in {"pacing", "reserving", "granted"} => Origin(g) \notin sc2.blocked
    <2>1. CASE g = f
        BY <1>1, <2>1
    <2>2. CASE g # f
        <3>1. ts2[g] = ts[g]
            BY <1>1, <1>2, <2>2
        <3> QED
            BY <3>1 DEF BlocksKept
    <2> QED
        BY <2>1, <2>2
<1> QED
    BY <1>3 DEF BlocksKept


LEMMA MovingSent ==
    ASSUME NEW ts \in [Fetches -> Tasks], NEW f \in Fetches, NEW t \in Tasks,
           NEW ts2, Moved(ts, ts2, f, t),
           NEW s, NEW se \in SUBSET Requests, SentKept(s, ts, se),
           \/ t.tries = ts[f].tries /\ (ts[f].pc \in Ended \cup {"sent"} => t.pc \in Ended \cup {"sent"})
           \/ ts[f].tries < t.tries
    PROVE  SentKept(s, ts2, se)
<1>1. ts2[f] = t /\ \A g \in Fetches : g # f => ts2[g] = ts[g]
    BY DEF Moved
<1> SUFFICES ASSUME NEW q \in se
             PROVE  /\ q[1] = s /\ q[3] <= ts2[q[2]].tries
                    /\ q[3] = ts2[q[2]].tries => ts2[q[2]].pc \in Ended \cup {"sent"}
    BY DEF SentKept
<1>2. PICK g \in Fetches : g = q[2] /\ q[3] \in {1, 2}
    BY DEF Requests
<1>3. /\ q[1] = s /\ q[3] <= ts[g].tries
      /\ q[3] = ts[g].tries => ts[g].pc \in Ended \cup {"sent"}
    BY <1>2 DEF SentKept
<1>4. ts[f].tries \in {1, 2} /\ t.tries \in {1, 2}
    BY TaskTyped DEF Tasks
<1>5. CASE g = f
    BY <1>1, <1>2, <1>3, <1>4, <1>5
<1>6. CASE g # f
    BY <1>1, <1>2, <1>3, <1>6
<1> QED
    BY <1>5, <1>6

LEMMA SendingSent ==
    ASSUME NEW ts \in [Fetches -> Tasks], NEW f \in Fetches, NEW t \in Tasks,
           NEW ts2, Moved(ts, ts2, f, t), t.pc = "sent", t.tries = ts[f].tries,
           NEW s \in Scans, NEW se \in SUBSET Requests, SentKept(s, ts, se)
    PROVE  /\ SentKept(s, ts2, se \cup {Slot(s, ts, f)})
           /\ se \cup {Slot(s, ts, f)} \in SUBSET Requests
<1>1. SentKept(s, ts2, se)
    BY MovingSent
<1>2. ts2[f] = t /\ ts[f].tries \in {1, 2}
    BY TaskTyped DEF Moved
<1>3. PICK q : q = Slot(s, ts, f)
    OBVIOUS
<1>4. q[1] = s /\ q[3] <= ts2[q[2]].tries /\ ts2[q[2]].pc = "sent" /\ q \in Requests
    BY <1>2, <1>3 DEF Requests, Slot
<1> QED
    BY <1>1, <1>3, <1>4 DEF SentKept

(* The slots of fetches that do not hold one, or keep the one they hold.   *)
LEMMA MovingUsed ==
    ASSUME NEW ts \in [Fetches -> Tasks], NEW f \in Fetches, NEW t \in Tasks,
           NEW ts2, Moved(ts, ts2, f, t), NEW s, NEW se,
           ts[f].pc \in Claiming <=> t.pc \in Claiming,
           ts[f].pc \in Claiming => t.tries = ts[f].tries
    PROVE  Used(s, ts2, se) = Used(s, ts, se)
<1>1. ts2[f] = t /\ \A g \in Fetches : g # f => ts2[g] = ts[g]
    BY DEF Moved
<1>2. Held(ts2) = Held(ts) /\ \A g \in Held(ts) : ts2[g].tries = ts[g].tries
    BY <1>1 DEF Held
<1> QED
    BY <1>2, SlotsAgree DEF Used

LEMMA TakingUsed ==
    ASSUME NEW ts \in [Fetches -> Tasks], NEW f \in Fetches, NEW t \in Tasks,
           NEW ts2, Moved(ts, ts2, f, t), NEW s, NEW se,
           ts[f].pc \notin Claiming, t.pc \in Claiming, t.tries = ts[f].tries
    PROVE  Used(s, ts2, se) = Used(s, ts, se) \cup {Slot(s, ts, f)}
<1>1. ts2[f] = t /\ \A g \in Fetches : g # f => ts2[g] = ts[g]
    BY DEF Moved
<1>2. Held(ts2) = Held(ts) \cup {f} /\ \A g \in Held(ts2) : ts2[g].tries = ts[g].tries
    BY <1>1 DEF Held
<1>3. SlotsOf(s, ts2, Held(ts2)) = SlotsOf(s, ts, Held(ts) \cup {f})
    BY <1>2, SlotsAgree
<1>4. SlotsOf(s, ts2, Held(ts2)) = SlotsOf(s, ts, Held(ts)) \cup {Slot(s, ts, f)}
    BY <1>3 DEF SlotsOf
<1>5. \A A, B, q : (A \cup {q}) \cup B = (A \cup B) \cup {q}
    OBVIOUS
<1> QED
    BY <1>4, <1>5, Zenon DEF Used

LEMMA AskingUsed ==
    ASSUME NEW ts \in [Fetches -> Tasks], NEW f \in Fetches, NEW t \in Tasks,
           NEW ts2, Moved(ts, ts2, f, t), NEW s, NEW se,
           ts[f].pc \notin Claiming, t.pc \notin Claiming
    PROVE  Used(s, ts2, se \cup {Slot(s, ts, f)}) = Used(s, ts, se) \cup {Slot(s, ts, f)}
<1>1. ts2[f] = t /\ \A g \in Fetches : g # f => ts2[g] = ts[g]
    BY DEF Moved
<1>2. Held(ts2) = Held(ts) /\ \A g \in Held(ts2) : ts2[g].tries = ts[g].tries
    BY <1>1 DEF Held
<1>3. SlotsOf(s, ts2, Held(ts2)) = SlotsOf(s, ts, Held(ts))
    BY <1>2, SlotsAgree
<1> QED
    BY <1>3 DEF Used

(* A fetch that holds no slot and was not sent has not taken one. *)
LEMMA SlotUntaken ==
    ASSUME NEW ts \in [Fetches -> Tasks], NEW f \in Fetches, NEW s, NEW se, SentKept(s, ts, se),
           ts[f].pc \notin Claiming, ts[f].pc \notin Ended \cup {"sent"}
    PROVE  Slot(s, ts, f) \notin Used(s, ts, se)
<1>1. Slot(s, ts, f) \notin se
    BY DEF SentKept, Slot
<1>2. f \notin Held(ts)
    BY DEF Held
<1>3. Slot(s, ts, f) \notin SlotsOf(s, ts, Held(ts))
    BY <1>2, OneSlot
<1> QED
    BY <1>1, <1>3 DEF Used

(* A slot that was held is the request's that is sent. *)
LEMMA SendingUsed ==
    ASSUME NEW ts \in [Fetches -> Tasks], NEW f \in Fetches, NEW t \in Tasks,
           NEW ts2, Moved(ts, ts2, f, t), NEW s, NEW se,
           ts[f].pc \in Claiming, t.pc \notin Claiming
    PROVE  Used(s, ts2, se \cup {Slot(s, ts, f)}) = Used(s, ts, se)
<1>1. ts2[f] = t /\ \A g \in Fetches : g # f => ts2[g] = ts[g]
    BY DEF Moved
<1>2. Held(ts2) = Held(ts) \ {f} /\ f \in Held(ts) /\ \A g \in Held(ts2) : ts2[g].tries = ts[g].tries
    BY <1>1 DEF Held
<1>3. SlotsOf(s, ts2, Held(ts2)) = SlotsOf(s, ts, Held(ts) \ {f})
    BY <1>2, SlotsAgree
<1>4. /\ SlotsOf(s, ts2, Held(ts2)) = SlotsOf(s, ts, Held(ts)) \ {Slot(s, ts, f)}
      /\ Slot(s, ts, f) \in SlotsOf(s, ts, Held(ts))
    <2>1. \A held : SlotsOf(s, ts, held \ {f}) = SlotsOf(s, ts, held) \ {Slot(s, ts, f)}
        BY DEF SlotsOf, Slot
    <2>2. Slot(s, ts, f) \in SlotsOf(s, ts, Held(ts))
        BY <1>2, OneSlot
    <2> QED
        BY <1>3, <2>1, <2>2, Zenon
<1> QED
    BY <1>4 DEF Used

(* A fetch enters its platform's line as the last of it. *)
LEMMA EnteringLine ==
    ASSUME NEW ts \in [Fetches -> Tasks], NEW f \in Paced, ts[f].pc \notin InLine,
           NEW ta \in [Origins -> Fetches \cup {None}], LineKept(ts, ta), WaitsKept(ts),
           \A g \in Line(ts) : UrlOf[g] # UrlOf[f],
           NEW t \in Tasks, t.pc \in InLine, t.on = ta[Origin(f)],
           NEW ts2, Moved(ts, ts2, f, t)
    PROVE  LineKept(ts2, [ta EXCEPT ![Origin(f)] = f])
<1>1. f \in Fetches /\ Origin(f) \in Origins /\ f # None /\ Paced \subseteq Fetches
    BY RequestAssumption, NamesOf DEF RequestAssumption
<1>2. ts2[f] = t /\ \A g \in Fetches : g # f => ts2[g] = ts[g]
    BY DEF Moved
<1>3. Line(ts2) = Line(ts) \cup {f} /\ f \notin Line(ts) /\ Line(ts) \subseteq Fetches
    BY <1>1, <1>2 DEF Line
<1>4. PICK rank \in [Fetches -> Nat] : InOrder(ts, ta, rank)
    BY DEF LineKept
<1>5. PICK last \in Fetches \cup {None} : last = ta[Origin(f)]
    BY <1>1
<1>6. PICK n \in Nat : n = IF last = None THEN 0 ELSE rank[last] + 1
    <2>1. CASE last = None
        BY <2>1
    <2>2. CASE last # None
        <3>1. rank[last] \in Nat
            BY <2>2
        <3>2. rank[last] + 1 \in Nat
            BY <3>1
        <3> QED
            BY <2>2, <3>2
    <2> QED
        BY <2>1, <2>2
<1>7. PICK later \in [Fetches -> Nat] : later = [rank EXCEPT ![f] = n]
    OBVIOUS
<1>8. later[f] = n /\ \A g \in Line(ts) : later[g] = rank[g] /\ rank[g] \in Nat /\ g # f
    BY <1>1, <1>3, <1>7
<1>9. last # None => last \in Line(ts) /\ Origin(last) = Origin(f)
    BY <1>1, <1>4, <1>5 DEF InOrder
<1>10. ASSUME NEW g \in Line(ts), Origin(g) = Origin(f)
       PROVE  last # None /\ rank[g] <= rank[last] /\ rank[g] < n
    <2>1. last # None
        BY <1>4, <1>5, <1>10 DEF InOrder
    <2>2. rank[g] <= rank[last]
        BY <1>1, <1>4, <1>5, <1>10, <2>1 DEF InOrder
    <2> QED
        BY <1>6, <1>8, <1>9, <2>1, <2>2
<1>11. ASSUME NEW g \in Line(ts)
       PROVE  ts[g].on # f /\ ts2[g] = ts[g] /\ g \in Fetches
    BY <1>1, <1>2, <1>3 DEF WaitsKept
<1>12. ASSUME NEW g \in Line(ts2), NEW h \in Line(ts2), Origin(g) = Origin(h)
       PROVE  /\ later[g] = later[h] \/ UrlOf[g] = UrlOf[h] => g = h
              /\ later[g] < later[h] => ts2[h].on # None /\ later[g] <= later[ts2[h].on]
              /\ ts2[h].on = g => later[g] < later[h]
    <2>1. CASE g \in Line(ts) /\ h \in Line(ts)
        <3>1. /\ rank[g] = rank[h] \/ UrlOf[g] = UrlOf[h] => g = h
              /\ rank[g] < rank[h] => ts[h].on # None /\ rank[g] <= rank[ts[h].on]
              /\ ts[h].on = g => rank[g] < rank[h]
            BY <1>4, <1>12, <2>1 DEF InOrder
        <3>2. ts[h].on # None => later[ts[h].on] = rank[ts[h].on]
            BY <1>7, <1>11, <2>1, TaskTyped
        <3> QED
            BY <1>8, <1>11, <2>1, <3>1, <3>2
    <2>2. CASE g \in Line(ts) /\ h = f
        <3>1. last # None /\ rank[g] <= rank[last] /\ rank[g] < n /\ last \in Line(ts)
            BY <1>9, <1>10, <1>12, <2>2
        <3>2. UrlOf[g] # UrlOf[h] /\ g # h
            BY <1>3, <2>2
        <3> QED
            BY <1>2, <1>5, <1>8, <2>2, <3>1, <3>2
    <2>3. CASE g = f /\ h \in Line(ts)
        <3>1. rank[h] < n
            BY <1>10, <1>12, <2>3
        <3>2. UrlOf[g] # UrlOf[h] /\ ts2[h].on # g
            BY <1>11, <2>3
        <3> QED
            BY <1>8, <2>3, <3>1, <3>2
    <2>4. CASE g = f /\ h = f
        <3>1. ~(later[g] < later[h])
            BY <1>8, <2>4
        <3>2. ts2[h].on # f
            BY <1>1, <1>2, <1>3, <1>5, <1>9, <2>4
        <3> QED
            BY <2>4, <3>1, <3>2
    <2> QED
        BY <1>3, <2>1, <2>2, <2>3, <2>4
<1>13. PICK ta2 : ta2 = [ta EXCEPT ![Origin(f)] = f]
    OBVIOUS
<1>14. ta2[Origin(f)] = f /\ \A o \in Origins : o # Origin(f) => ta2[o] = ta[o]
    BY <1>1, <1>13
<1>15. ASSUME NEW o \in Origins, ta2[o] # None
       PROVE  /\ ta2[o] \in Line(ts2) /\ Origin(ta2[o]) = o
              /\ \A g \in Line(ts2) : Origin(g) = o => later[g] <= later[ta2[o]]
    <2>1. CASE o = Origin(f)
        <3>1. \A g \in Line(ts2) : Origin(g) = o => later[g] <= later[f]
            BY <1>3, <1>8, <1>10, <2>1
        <3> QED
            BY <1>3, <1>14, <2>1, <3>1
    <2>2. CASE o # Origin(f)
        <3>1. /\ ta[o] \in Line(ts) /\ Origin(ta[o]) = o
              /\ \A g \in Line(ts) : Origin(g) = o => rank[g] <= rank[ta[o]]
            BY <1>4, <1>14, <1>15, <2>2 DEF InOrder
        <3>2. \A g \in Line(ts2) : Origin(g) = o => g \in Line(ts)
            BY <1>3, <2>2
        <3> QED
            BY <1>3, <1>8, <1>14, <2>2, <3>1, <3>2
    <2> QED
        BY <2>1, <2>2
<1>16. \A g \in Line(ts2) : ta2[Origin(g)] # None
    <2>1. \A g \in Line(ts) : ta[Origin(g)] # None /\ Origin(g) \in Origins
        BY <1>3, <1>4, NamesOf DEF InOrder
    <2> QED
        BY <1>1, <1>3, <1>14, <2>1
<1>17. InOrder(ts2, ta2, later)
    BY <1>12, <1>15, <1>16 DEF InOrder
<1> QED
    BY <1>13, <1>17 DEF LineKept

-----------------------------------------------------------------------------
(* What a step does to one scan *)

Becomes(s, sc, ts, ca, ta, se) ==
    /\ scan' = [scan EXCEPT ![s] = sc] /\ task' = [task EXCEPT ![s] = ts]
    /\ cache' = [cache EXCEPT ![s] = ca] /\ tail' = [tail EXCEPT ![s] = ta]
    /\ sent' = [sent EXCEPT ![s] = se]

LEMMA Values ==
    ASSUME RequestsKept, NEW s \in Scans
    PROVE  /\ ValuesOf(s, scan[s], task[s], cache[s], tail[s], sent[s])
           /\ ScanKept(s, scan[s], task[s], cache[s], tail[s], sent[s])
BY DEF RequestsKept, TypeOK, ValuesOf

LEMMA Same ==
    ASSUME NEW D, NEW h, NEW S, h \in [D -> S], NEW s \in D
    PROVE  h = [h EXCEPT ![s] = h[s]]
OBVIOUS

LEMMA StepOf ==
    ASSUME RequestsKept, NEW s \in Scans, NEW sc, NEW ts, NEW ca, NEW ta, NEW se,
           ValuesOf(s, sc, ts, ca, ta, se), ScanKept(s, sc, ts, ca, ta, se),
           Becomes(s, sc, ts, ca, ta, se), backoff' \subseteq Boards,
           log' \in [Learned -> SUBSET Requests], listed' \in [Learned -> SUBSET Requests], DayKept'
    PROVE  RequestsKept'
<1>1. TypeOK /\ \A u \in Scans : ScanKept(u, scan[u], task[u], cache[u], tail[u], sent[u])
    BY DEF RequestsKept
<1>2. TypeOK'
    BY <1>1 DEF TypeOK, ValuesOf, Becomes
<1>3. /\ scan'[s] = sc /\ task'[s] = ts /\ cache'[s] = ca /\ tail'[s] = ta /\ sent'[s] = se
      /\ \A u \in Scans : u # s =>
           /\ scan'[u] = scan[u] /\ task'[u] = task[u] /\ cache'[u] = cache[u]
           /\ tail'[u] = tail[u] /\ sent'[u] = sent[u]
    BY <1>1 DEF TypeOK, Becomes
<1>4. ASSUME NEW u \in Scans
      PROVE  ScanKept(u, scan'[u], task'[u], cache'[u], tail'[u], sent'[u])
    <2>1. CASE u = s
        BY <1>3, <2>1
    <2>2. CASE u # s
        <3>1. ScanKept(u, scan[u], task[u], cache[u], tail[u], sent[u])
            BY <1>1
        <3> QED
            BY <1>3, <2>2, <3>1
    <2> QED
        BY <2>1, <2>2
<1> QED
    BY <1>2, <1>4 DEF RequestsKept

LEMMA QuietStep ==
    ASSUME RequestsKept, NEW s \in Scans, NEW sc, NEW ts, NEW ca, NEW ta, NEW se,
           ValuesOf(s, sc, ts, ca, ta, se), ScanKept(s, sc, ts, ca, ta, se),
           Becomes(s, sc, ts, ca, ta, se), backoff' \subseteq Boards, UNCHANGED <<log, listed>>,
           \A f \in Fetches : ts[f].pc = "granted" =>
             task[s][f].pc = "granted" /\ ts[f].tries = task[s][f].tries
    PROVE  RequestsKept'
<1>1. TypeOK /\ DayKept
    BY DEF RequestsKept
<1>2. task'[s] = ts /\ \A u \in Scans : u # s => task'[u] = task[u]
    BY <1>1 DEF TypeOK, Becomes
<1>3. ASSUME NEW u \in Scans, NEW f \in Fetches, task'[u][f].pc = "granted"
      PROVE  ListsLearned(f) /\ Request(u, f)' \in log[Board(f)]
    <2>1. task[u][f].pc = "granted" /\ task'[u][f].tries = task[u][f].tries
        BY <1>2, <1>3
    <2> QED
        BY <1>1, <2>1 DEF DayKept, Request
<1>4. DayKept'
    BY <1>1, <1>3 DEF DayKept
<1> QED
    BY <1>1, <1>4, StepOf DEF TypeOK

LEMMA SettleIs ==
    ASSUME TypeOK, NEW s \in Scans, NEW f \in Fetches, NEW result \in Ended, Settle(s, f, result)
    PROVE  \E ts \in [Fetches -> Tasks] :
             /\ task' = [task EXCEPT ![s] = ts] /\ Settles(task[s], ts, f, result)
             /\ cache' = [cache EXCEPT ![s] = Uncached(cache[s], f, result)]
             /\ tail' = [tail EXCEPT ![s] = Untailed(tail[s], f)]
<1> DEFINE shares == {g \in Fetches : g = f \/ (task[s][g].pc = "joined" /\ task[s][g].on = f)}
           After(g) == IF g \in shares THEN [task[s][g] EXCEPT !.pc = result, !.on = None]
                       ELSE [task[s][g] EXCEPT !.on = IF task[s][g].on = f THEN None ELSE task[s][g].on]
<1>1. FreesLine(result)
    BY DEF FreesLine
<1>2. ASSUME NEW g \in Fetches
      PROVE  /\ After(g) \in Tasks /\ After(g).tries = task[s][g].tries
             /\ IF g \in shares THEN After(g).pc = result /\ After(g).on = None
                ELSE /\ After(g).pc = task[s][g].pc
                     /\ After(g).on = IF task[s][g].on = f THEN None ELSE task[s][g].on
    <2>1. task[s][g] \in Tasks
        BY DEF TypeOK
    <2> QED
        BY <2>1 DEF Tasks
<1>3. task' = [task EXCEPT ![s] = [g \in Fetches |-> After(g)]]
    BY <1>1 DEF Settle
<1>4. cache' = [cache EXCEPT ![s] = Uncached(cache[s], f, result)]
    BY DEF Settle, Uncached
<1>5. tail' = [tail EXCEPT ![s] = Untailed(tail[s], f)]
    BY <1>1 DEF Settle, Untailed
<1>6. \A g \in Fetches : g \in shares <=> g = f \/ (task[s][g].pc = "joined" /\ task[s][g].on = f)
    OBVIOUS
<1> HIDE DEF shares, After
<1>7. PICK ts \in [Fetches -> Tasks] : ts = [g \in Fetches |-> After(g)]
    BY <1>2
<1>8. Settles(task[s], ts, f, result)
    BY <1>2, <1>6, <1>7 DEF Settles
<1> QED
    BY <1>3, <1>4, <1>5, <1>7, <1>8

LEMMA Unwaiting ==
    ASSUME NEW ts \in [Fetches -> Tasks], WaitsKept(ts), NEW f \in Fetches,
           ts[f].pc \notin {"queued", "joined"}
    PROVE  ts[f].on = None
BY DEF WaitsKept

LEMMA SettlingKeeps ==
    ASSUME NEW s, NEW sc, NEW ts, NEW ca, NEW ta, NEW se,
           ValuesOf(s, sc, ts, ca, ta, se), ScanKept(s, sc, ts, ca, ta, se),
           NEW f \in Fetches, ts[f].on = None, NEW result \in Ended, NEW ts2 \in [Fetches -> Tasks],
           Settles(ts, ts2, f, result),
           NEW sc2 \in ScanRecords, sc2.pc = sc.pc, sc.pc \notin {"idle", "done"},
           BlocksKept(sc2, ts2), SlotsKept(s, sc2, ts2, se)
    PROVE  /\ ValuesOf(s, sc2, ts2, Uncached(ca, f, result), Untailed(ta, f), se)
           /\ ScanKept(s, sc2, ts2, Uncached(ca, f, result), Untailed(ta, f), se)
<1>1. /\ ts \in [Fetches -> Tasks] /\ ca \in [Urls -> Fetches \cup {None}]
      /\ ta \in [Origins -> Fetches \cup {None}] /\ se \in SUBSET Requests /\ s \in Scans
    BY DEF ValuesOf
<1>2. WaitsKept(ts) /\ LineKept(ts, ta) /\ CacheKept(ts, ca) /\ SentKept(s, ts, se)
    BY DEF ScanKept
<1>3. /\ Uncached(ca, f, result) \in [Urls -> Fetches \cup {None}]
      /\ Untailed(ta, f) \in [Origins -> Fetches \cup {None}]
    BY <1>1 DEF Uncached, Untailed
<1>4. WaitsKept(ts2)
    BY <1>1, <1>2, SettlingWaits
<1>5. LineKept(ts2, Untailed(ta, f))
    BY <1>1, <1>2, SettlingLine
<1>6. CacheKept(ts2, Uncached(ca, f, result))
    BY <1>1, <1>2, SettlingCache
<1>7. SentKept(s, ts2, se)
    BY <1>1, <1>2, SettlingSent
<1> QED
    BY <1>1, <1>3, <1>4, <1>5, <1>6, <1>7 DEF ValuesOf, ScanKept

LEMMA SettledKept ==
    ASSUME NEW s, NEW sc, NEW ts, NEW ca, NEW ta, NEW se,
           ValuesOf(s, sc, ts, ca, ta, se), ScanKept(s, sc, ts, ca, ta, se),
           NEW f \in Fetches, ts[f].on = None, NEW result \in Ended, NEW ts2 \in [Fetches -> Tasks],
           Settles(ts, ts2, f, result),
           sc.pc \notin {"idle", "done"}, ts[f].pc \notin Claiming,
           result = "restricted" /\ f \in Paced => Origin(f) \in sc.blocked
    PROVE  /\ ValuesOf(s, sc, ts2, Uncached(ca, f, result), Untailed(ta, f), se)
           /\ ScanKept(s, sc, ts2, Uncached(ca, f, result), Untailed(ta, f), se)
<1>1. /\ ts \in [Fetches -> Tasks] /\ se \in SUBSET Requests /\ sc \in ScanRecords
      /\ WaitsKept(ts) /\ BlocksKept(sc, ts) /\ SentKept(s, ts, se) /\ SlotsKept(s, sc, ts, se)
    BY DEF ValuesOf, ScanKept
<1>2. sc.blocked \subseteq sc.blocked /\ Spares(sc.blocked, ts, f)
    BY <1>1 DEF BlocksKept, Spares
<1>3. BlocksKept(sc, ts2)
    BY <1>1, <1>2, SettlingBlocks
<1>4. Used(s, ts2, se) = Used(s, ts, se)
    BY <1>1, SettlingUsed
<1>5. SlotsKept(s, sc, ts2, se)
    BY <1>1, <1>4, SlotsSame
<1> QED
    BY <1>1, <1>3, <1>5, SettlingKeeps

Returned(sc, f) ==
    [sc EXCEPT !.count = sc.count - 1, !.by = [sc.by EXCEPT ![SourceOf[f]] = sc.by[SourceOf[f]] - 1]]

LEMMA ReturnedKept ==
    ASSUME NEW s, NEW sc, NEW ts, NEW ca, NEW ta, NEW se,
           ValuesOf(s, sc, ts, ca, ta, se), ScanKept(s, sc, ts, ca, ta, se),
           NEW f \in Fetches, NEW ts2 \in [Fetches -> Tasks], Settles(ts, ts2, f, "failed"),
           sc.pc \notin {"idle", "done"}, ts[f].pc \in Claiming,
           NEW sc2, sc2 = Returned(sc, f)
    PROVE  /\ ValuesOf(s, sc2, ts2, Uncached(ca, f, "failed"), Untailed(ta, f), se)
           /\ ScanKept(s, sc2, ts2, Uncached(ca, f, "failed"), Untailed(ta, f), se)
<1>1. /\ ts \in [Fetches -> Tasks] /\ se \in SUBSET Requests /\ sc \in ScanRecords
      /\ WaitsKept(ts) /\ BlocksKept(sc, ts) /\ SentKept(s, ts, se) /\ SlotsKept(s, sc, ts, se)
    BY DEF ValuesOf, ScanKept
<1>2. PICK result \in Ended : result = "failed"
    BY DEF Ended
<1>3. ts[f].on = None
    BY <1>1, Unwaiting DEF Claiming
<1>4. OneLess(sc, sc2, f) /\ sc2.pc = sc.pc /\ sc2.blocked = sc.blocked
    BY <1>1 DEF ScanRecords, Returned, OneLess
<1>5. Settles(ts, ts2, f, result)
    BY <1>2
<1>6. /\ Slot(s, ts, f) \in Used(s, ts, se) /\ Used(s, ts2, se) = Used(s, ts, se) \ {Slot(s, ts, f)}
    BY <1>1, <1>5, ReturningUsed
<1>7. SlotsKept(s, sc2, ts2, se) /\ sc2.count \in Nat /\ sc2.by \in [Sources -> Nat]
    BY <1>1, <1>4, <1>6, SlotReturned
<1>8. sc2 \in ScanRecords
    BY <1>1, <1>7 DEF ScanRecords, Returned
<1>9. sc.blocked \subseteq sc2.blocked /\ Spares(sc2.blocked, ts, f)
    BY <1>1, <1>4 DEF BlocksKept, Spares
<1>10. BlocksKept(sc2, ts2)
    BY <1>1, <1>2, <1>4, <1>5, <1>9, SettlingBlocks
<1> QED
    BY <1>1, <1>2, <1>3, <1>4, <1>5, <1>7, <1>8, <1>10, SettlingKeeps

(* A fetch that holds no slot settles; a refusal that it shares is known.  *)
LEMMA SettleKeeps ==
    ASSUME RequestsKept, NEW s \in Scans, NEW f \in Fetches, NEW result \in Ended,
           Settle(s, f, result), UNCHANGED <<backoff, log, scan, sent, listed>>,
           task[s][f].on = None, task[s][f].pc \notin Claiming, scan[s].pc \notin {"idle", "done"},
           result = "restricted" /\ f \in Paced => Origin(f) \in scan[s].blocked
    PROVE  RequestsKept'
<1>1. TypeOK /\ ValuesOf(s, scan[s], task[s], cache[s], tail[s], sent[s])
      /\ ScanKept(s, scan[s], task[s], cache[s], tail[s], sent[s])
    BY Values DEF RequestsKept
<1>2. PICK ts \in [Fetches -> Tasks] :
        /\ task' = [task EXCEPT ![s] = ts] /\ Settles(task[s], ts, f, result)
        /\ cache' = [cache EXCEPT ![s] = Uncached(cache[s], f, result)]
        /\ tail' = [tail EXCEPT ![s] = Untailed(tail[s], f)]
    BY <1>1, SettleIs
<1>3. Becomes(s, scan[s], ts, Uncached(cache[s], f, result), Untailed(tail[s], f), sent[s])
    <2>1. scan' = [scan EXCEPT ![s] = scan[s]] /\ sent' = [sent EXCEPT ![s] = sent[s]]
        BY <1>1, Same DEF TypeOK
    <2> QED
        BY <1>2, <2>1 DEF Becomes
<1>4. /\ ValuesOf(s, scan[s], ts, Uncached(cache[s], f, result), Untailed(tail[s], f), sent[s])
      /\ ScanKept(s, scan[s], ts, Uncached(cache[s], f, result), Untailed(tail[s], f), sent[s])
    BY <1>1, <1>2, SettledKept
<1>5. \A g \in Fetches : ts[g].pc = "granted" =>
        task[s][g].pc = "granted" /\ ts[g].tries = task[s][g].tries
    BY <1>2 DEF Settles, Ended
<1> QED
    BY <1>1, <1>3, <1>4, <1>5, QuietStep DEF TypeOK

(* A fetch that holds a slot settles, and returns it. *)
LEMMA ReturnKeeps ==
    ASSUME RequestsKept, NEW s \in Scans, NEW f \in Fetches, ReturnSlot(s, f),
           Settle(s, f, "failed"), UNCHANGED <<backoff, log, sent, listed>>,
           task[s][f].pc \in Claiming, scan[s].pc \notin {"idle", "done"}
    PROVE  RequestsKept'
<1>1. TypeOK /\ ValuesOf(s, scan[s], task[s], cache[s], tail[s], sent[s])
      /\ ScanKept(s, scan[s], task[s], cache[s], tail[s], sent[s])
    BY Values DEF RequestsKept
<1>2. PICK ts \in [Fetches -> Tasks] :
        /\ task' = [task EXCEPT ![s] = ts] /\ Settles(task[s], ts, f, "failed")
        /\ cache' = [cache EXCEPT ![s] = Uncached(cache[s], f, "failed")]
        /\ tail' = [tail EXCEPT ![s] = Untailed(tail[s], f)]
    BY <1>1, SettleIs DEF Ended
<1>3. PICK sc : sc = Returned(scan[s], f)
    OBVIOUS
<1>4. scan' = [scan EXCEPT ![s] = sc]
    BY <1>3 DEF ReturnSlot, Returned
<1>5. Becomes(s, sc, ts, Uncached(cache[s], f, "failed"), Untailed(tail[s], f), sent[s])
    <2>1. sent' = [sent EXCEPT ![s] = sent[s]]
        BY <1>1, Same DEF TypeOK
    <2> QED
        BY <1>2, <1>4, <2>1 DEF Becomes
<1>6. /\ ValuesOf(s, sc, ts, Uncached(cache[s], f, "failed"), Untailed(tail[s], f), sent[s])
      /\ ScanKept(s, sc, ts, Uncached(cache[s], f, "failed"), Untailed(tail[s], f), sent[s])
    BY <1>1, <1>2, <1>3, ReturnedKept
<1>7. \A g \in Fetches : ts[g].pc = "granted" =>
        task[s][g].pc = "granted" /\ ts[g].tries = task[s][g].tries
    BY <1>2 DEF Settles
<1> QED
    BY <1>1, <1>5, <1>6, <1>7, QuietStep DEF TypeOK

-----------------------------------------------------------------------------
(* A call of cachedFetch *)

(* The task of a fetch after a step that changes its phase alone. *)
Phase(ts, f, t, pc) == t.pc = pc /\ t.on = ts[f].on /\ t.tries = ts[f].tries

LEMMA MovesIs ==
    ASSUME TypeOK, NEW s \in Scans, NEW f \in Fetches, NEW pc \in Running \cup Ended, Moves(s, f, pc)
    PROVE  \E ts \in [Fetches -> Tasks], t \in Tasks :
             /\ task' = [task EXCEPT ![s] = ts] /\ Moved(task[s], ts, f, t)
             /\ Phase(task[s], f, t, pc)
<1>1. task[s] \in [Fetches -> Tasks] /\ task[s][f] \in Tasks
    BY DEF TypeOK
<1>2. PICK t : t = [task[s][f] EXCEPT !.pc = pc]
    OBVIOUS
<1>3. t \in Tasks /\ Phase(task[s], f, t, pc)
    BY <1>1, <1>2 DEF Tasks, Phase
<1>4. PICK ts : ts = [task[s] EXCEPT ![f] = t]
    OBVIOUS
<1>5. ts \in [Fetches -> Tasks] /\ Moved(task[s], ts, f, t)
    BY <1>1, <1>3, <1>4, OneMoves
<1>6. task' = [task EXCEPT ![s] = ts]
    BY <1>2, <1>4 DEF Moves
<1> QED
    BY <1>3, <1>5, <1>6

LEMMA JoinsIs ==
    ASSUME TypeOK, NEW s \in Scans, NEW f \in Fetches, NEW g \in Fetches, Joins(s, f, g)
    PROVE  \E ts \in [Fetches -> Tasks], t \in Tasks :
             /\ task' = [task EXCEPT ![s] = ts] /\ Moved(task[s], ts, f, t)
             /\ t.pc = "joined" /\ t.on = g /\ t.tries = task[s][f].tries
<1>1. task[s] \in [Fetches -> Tasks] /\ task[s][f] \in Tasks
    BY DEF TypeOK
<1>2. PICK t : t = [task[s][f] EXCEPT !.pc = "joined", !.on = g]
    OBVIOUS
<1>3. t \in Tasks /\ t.pc = "joined" /\ t.on = g /\ t.tries = task[s][f].tries
    BY <1>1, <1>2 DEF Tasks, Running, Waiting
<1>4. PICK ts : ts = [task[s] EXCEPT ![f] = t]
    OBVIOUS
<1>5. ts \in [Fetches -> Tasks] /\ Moved(task[s], ts, f, t)
    BY <1>1, <1>3, <1>4, OneMoves
<1>6. task' = [task EXCEPT ![s] = ts]
    BY <1>1, <1>2, <1>4 DEF Joins, TypeOK
<1> QED
    BY <1>3, <1>5, <1>6

(* A new call may share what is under way for its URL. *)
LEMMA JoinedKept ==
    ASSUME NEW s, NEW sc, NEW ts, NEW ca, NEW ta, NEW se,
           ValuesOf(s, sc, ts, ca, ta, se), ScanKept(s, sc, ts, ca, ta, se),
           NEW f \in Fetches, ts[f].pc = "new", sc.pc \notin {"idle", "done"},
           NEW g \in Fetches, UrlOf[g] = UrlOf[f], ts[g].pc \in InLine,
           NEW t \in Tasks, NEW ts2 \in [Fetches -> Tasks], Moved(ts, ts2, f, t),
           t.pc = "joined", t.on = g, t.tries = ts[f].tries
    PROVE  ValuesOf(s, sc, ts2, ca, ta, se) /\ ScanKept(s, sc, ts2, ca, ta, se)
<1>1. /\ ts \in [Fetches -> Tasks] /\ se \in SUBSET Requests /\ sc \in ScanRecords
      /\ ca \in [Urls -> Fetches \cup {None}]
      /\ WaitsKept(ts) /\ LineKept(ts, ta) /\ CacheKept(ts, ca) /\ BlocksKept(sc, ts)
      /\ SentKept(s, ts, se) /\ SlotsKept(s, sc, ts, se)
    BY DEF ValuesOf, ScanKept
<1>2. g # f /\ ts[f].pc \notin InLine /\ t.pc \notin InLine /\ f \notin Line(ts)
    BY DEF InLine, Running, Waiting, Claiming, Line
<1>3. WaitsKept(ts2)
    BY <1>1, <1>2, MovingWaits
<1>4. LineKept(ts2, ta)
    BY <1>1, <1>2, MovingLine
<1>5. CacheKept(ts2, ca)
    BY <1>1, MovingCache
<1>6. BlocksKept(sc, ts2)
    BY <1>1, MovingBlocks
<1>7. SentKept(s, ts2, se)
    <2>1. ts[f].pc \notin Ended \cup {"sent"}
        BY DEF Ended
    <2> QED
        BY <1>1, <2>1, MovingSent
<1>8. SlotsKept(s, sc, ts2, se)
    <2>1. ts[f].pc \notin Claiming /\ t.pc \notin Claiming
        BY DEF Claiming
    <2>2. Used(s, ts2, se) = Used(s, ts, se)
        BY <1>1, <2>1, MovingUsed
    <2> QED
        BY <1>1, <2>2, SlotsSame
<1> QED
    BY <1>3, <1>4, <1>5, <1>6, <1>7, <1>8 DEF ValuesOf, ScanKept

(* A call claims a slot before it does anything else; it waits for its     *)
(* day or its ledger, or leaves at once.                                   *)
Claims(sc, sc2, f) ==
    /\ sc2 \in ScanRecords /\ OneMore(sc, sc2, f)
    /\ sc2.pc = sc.pc /\ sc2.blocked = sc.blocked

CallsFirst(sc, ts, ca, f) ==
    /\ sc.pc \notin {"idle", "done"} /\ ca[UrlOf[f]] = None
    /\ sc.count < MaxRequests /\ sc.by[SourceOf[f]] < MaxRequestsPerSource
    /\ (ts[f].pc = "new" /\ f \notin Paced) \/ ts[f].pc = "pacing"

LEMMA ClaimedKept ==
    ASSUME NEW s, NEW sc, NEW ts, NEW ca, NEW ta, NEW se,
           ValuesOf(s, sc, ts, ca, ta, se), ScanKept(s, sc, ts, ca, ta, se),
           NEW f \in Fetches, CallsFirst(sc, ts, ca, f), NEW sc2, Claims(sc, sc2, f),
           NEW pc \in Claiming \cup {"sent"}, NEW t \in Tasks, Phase(ts, f, t, pc),
           NEW ts2 \in [Fetches -> Tasks], Moved(ts, ts2, f, t),
           pc \in {"reserving", "granted"} => ListsLearned(f), pc = "ledger" => f \in Keyed
    PROVE  /\ WaitsKept(ts2) /\ LineKept(ts2, ta) /\ BlocksKept(sc2, ts2)
           /\ pc # "sent" => SentKept(s, ts2, se) /\ SlotsKept(s, sc2, ts2, se)
           /\ pc = "sent" =>
                /\ SentKept(s, ts2, se \cup {Slot(s, ts, f)})
                /\ SlotsKept(s, sc2, ts2, se \cup {Slot(s, ts, f)})
           /\ f \in Paced => f \in Line(ts)
<1>1. /\ ts \in [Fetches -> Tasks] /\ se \in SUBSET Requests /\ sc \in ScanRecords
      /\ ca \in [Urls -> Fetches \cup {None}] /\ s \in Scans
      /\ WaitsKept(ts) /\ LineKept(ts, ta) /\ CacheKept(ts, ca) /\ BlocksKept(sc, ts)
      /\ SentKept(s, ts, se) /\ SlotsKept(s, sc, ts, se)
    BY DEF ValuesOf, ScanKept
<1>2. /\ (ts[f].pc = "new" /\ f \notin Paced) \/ ts[f].pc = "pacing"
      /\ t.pc = pc /\ t.on = ts[f].on /\ t.tries = ts[f].tries
      /\ sc2.blocked = sc.blocked
    BY DEF CallsFirst, Phase, Claims
<1>3. ts[f].on = None /\ t.on = None
    BY <1>1, <1>2, Unwaiting
<1>4. /\ t.pc \in InLine /\ t.pc \notin {"queued", "pacing", "restricted"}
      /\ ts[f].pc \notin Claiming /\ ts[f].pc \notin Ended \cup {"sent"}
    BY <1>2 DEF InLine, Running, Waiting, Claiming, Ended
<1>5. f \in Paced => f \in Line(ts)
    BY <1>2 DEF Line, InLine, Running, Waiting
<1>6. WaitsKept(ts2)
    BY <1>1, <1>2, <1>3, <1>4, MovingWaits
<1>7. LineKept(ts2, ta)
    BY <1>1, <1>2, <1>4, <1>5, MovingLine
<1>8. BlocksKept(sc2, ts2)
    <2>1. f \in Paced => Origin(f) \notin sc.blocked
        BY <1>1, <1>2 DEF BlocksKept
    <2> QED
        BY <1>1, <1>2, <1>4, <2>1, MovingBlocks
<1>9. Slot(s, ts, f) \notin Used(s, ts, se)
    BY <1>1, <1>4, SlotUntaken
<1>10. OneMore(sc, sc2, f) /\ sc.count < MaxRequests /\ sc.by[SourceOf[f]] < MaxRequestsPerSource
    BY DEF Claims, CallsFirst
<1>11. ASSUME pc # "sent"
       PROVE  SentKept(s, ts2, se) /\ SlotsKept(s, sc2, ts2, se)
    <2>1. SentKept(s, ts2, se)
        BY <1>1, <1>2, <1>4, MovingSent
    <2>2. Used(s, ts2, se) = Used(s, ts, se) \cup {Slot(s, ts, f)}
        BY <1>1, <1>2, <1>4, <1>11, TakingUsed
    <2>3. SlotsKept(s, sc2, ts2, se)
        BY <1>1, <1>9, <1>10, <2>2, SlotTaken
    <2> QED
        BY <2>1, <2>3
<1>12. ASSUME pc = "sent"
       PROVE  /\ SentKept(s, ts2, se \cup {Slot(s, ts, f)})
              /\ SlotsKept(s, sc2, ts2, se \cup {Slot(s, ts, f)})
    <2>1. SentKept(s, ts2, se \cup {Slot(s, ts, f)})
        BY <1>1, <1>2, <1>12, SendingSent
    <2>2. t.pc \notin Claiming
        BY <1>2, <1>12 DEF Claiming
    <2>3. Used(s, ts2, se \cup {Slot(s, ts, f)}) = Used(s, ts, se) \cup {Slot(s, ts, f)}
        BY <1>1, <1>4, <2>2, AskingUsed
    <2>4. SlotsKept(s, sc2, ts2, se \cup {Slot(s, ts, f)})
        BY <1>1, <1>9, <1>10, <2>3, SlotTaken
    <2> QED
        BY <2>1, <2>4
<1> QED
    BY <1>5, <1>6, <1>7, <1>8, <1>11, <1>12

(* Whoever calls cachedFetch: a new call, or a paced one that has waited. *)
MayFetch(s, f) ==
    /\ scan[s].pc \notin {"idle", "done"}
    /\ \/ task[s][f].pc = "new" /\ (f \notin Paced \/ cache[s][UrlOf[f]] # None)
       \/ task[s][f].pc = "pacing"

LEMMA ClaimKeeps ==
    ASSUME RequestsKept, NEW s \in Scans, NEW f \in Fetches, MayFetch(s, f),
           UNCHANGED <<backoff, log, listed>>, cache[s][UrlOf[f]] = None, ~Exhausted(s, f),
           ClaimSlot(s, f), UNCHANGED tail,
           \/ ListsLearned(f) /\ Moves(s, f, "reserving") /\ UNCHANGED <<cache, sent>>
           \/ /\ f \in Keyed
              /\ Moves(s, f, "ledger")
              /\ cache' = [cache EXCEPT ![s][UrlOf[f]] = f]
              /\ UNCHANGED sent
           \/ ~ListsLearned(f) /\ f \notin Keyed /\ Sends(s, f)
    PROVE  RequestsKept'
<1>1. /\ TypeOK /\ ValuesOf(s, scan[s], task[s], cache[s], tail[s], sent[s])
      /\ ScanKept(s, scan[s], task[s], cache[s], tail[s], sent[s])
    BY Values DEF RequestsKept
<1>2. /\ scan[s] \in ScanRecords /\ task[s] \in [Fetches -> Tasks]
      /\ cache[s] \in [Urls -> Fetches \cup {None}] /\ sent[s] \in SUBSET Requests
      /\ tail[s] \in [Origins -> Fetches \cup {None}]
      /\ LineKept(task[s], tail[s]) /\ CacheKept(task[s], cache[s])
    BY <1>1 DEF ValuesOf, ScanKept
<1>3. CallsFirst(scan[s], task[s], cache[s], f)
    <2>1. scan[s].count \in Nat /\ scan[s].by \in [Sources -> Nat] /\ SourceOf[f] \in Sources
        BY <1>2, NamesOf DEF ScanRecords
    <2>2. scan[s].count < MaxRequests /\ scan[s].by[SourceOf[f]] < MaxRequestsPerSource
        BY <2>1, BoundsTyped DEF Exhausted
    <2> QED
        BY <2>2 DEF CallsFirst, MayFetch
<1>4. PICK sc : sc = [scan[s] EXCEPT !.count = scan[s].count + 1,
                        !.by = [scan[s].by EXCEPT ![SourceOf[f]] = scan[s].by[SourceOf[f]] + 1]]
    OBVIOUS
<1>5. scan' = [scan EXCEPT ![s] = sc]
    BY <1>1, <1>2, <1>4 DEF ClaimSlot, TypeOK, ScanRecords
<1>6. Claims(scan[s], sc, f)
    <2>1. /\ sc.count = scan[s].count + 1 /\ sc.pc = scan[s].pc /\ sc.blocked = scan[s].blocked
          /\ sc.by = [scan[s].by EXCEPT ![SourceOf[f]] = scan[s].by[SourceOf[f]] + 1]
        BY <1>2, <1>4 DEF ScanRecords
    <2>2. sc \in ScanRecords
        <3>1. scan[s].by \in [Sources -> Nat] /\ scan[s].count \in Nat /\ SourceOf[f] \in Sources
            BY <1>2, NamesOf DEF ScanRecords
        <3>2. \A h \in [Sources -> Nat], i \in Sources : [h EXCEPT ![i] = h[i] + 1] \in [Sources -> Nat]
            OBVIOUS
        <3>3. [scan[s].by EXCEPT ![SourceOf[f]] = scan[s].by[SourceOf[f]] + 1] \in [Sources -> Nat]
            BY <3>1, <3>2
        <3>4. scan[s].count + 1 \in Nat
            BY <3>1
        <3> QED
            BY <1>2, <1>4, <3>3, <3>4 DEF ScanRecords
    <2> QED
        BY <2>1, <2>2 DEF Claims, OneMore
<1>7. PICK pc \in {"reserving", "ledger", "sent"} :
        /\ Moves(s, f, pc) /\ (pc = "reserving" => ListsLearned(f)) /\ (pc = "ledger" => f \in Keyed)
        /\ cache' = IF pc = "reserving" THEN cache ELSE [cache EXCEPT ![s][UrlOf[f]] = f]
        /\ sent' = IF pc = "sent" THEN [sent EXCEPT ![s] = sent[s] \cup {Slot(s, task[s], f)}] ELSE sent
    BY DEF Sends, Request, Slot
<1>8. pc \in Claiming \cup {"sent"} /\ pc \in Running \cup Ended
    BY DEF Claiming, Running, Ended
<1>9. PICK ts \in [Fetches -> Tasks], t \in Tasks :
        /\ task' = [task EXCEPT ![s] = ts] /\ Moved(task[s], ts, f, t)
        /\ Phase(task[s], f, t, pc)
    BY <1>1, <1>7, <1>8, MovesIs
<1>10. PICK ca : ca = IF pc = "reserving" THEN cache[s] ELSE [cache[s] EXCEPT ![UrlOf[f]] = f]
    OBVIOUS
<1>11. PICK se : se = IF pc = "sent" THEN sent[s] \cup {Slot(s, task[s], f)} ELSE sent[s]
    OBVIOUS
<1>12. /\ WaitsKept(ts) /\ LineKept(ts, tail[s]) /\ BlocksKept(sc, ts)
       /\ SentKept(s, ts, se) /\ SlotsKept(s, sc, ts, se)
       /\ f \in Paced => f \in Line(task[s])
    <2>1. pc \in {"reserving", "granted"} => ListsLearned(f)
        BY <1>7
    <2>2. /\ WaitsKept(ts) /\ LineKept(ts, tail[s]) /\ BlocksKept(sc, ts)
          /\ pc # "sent" => SentKept(s, ts, sent[s]) /\ SlotsKept(s, sc, ts, sent[s])
          /\ pc = "sent" =>
               /\ SentKept(s, ts, sent[s] \cup {Slot(s, task[s], f)})
               /\ SlotsKept(s, sc, ts, sent[s] \cup {Slot(s, task[s], f)})
          /\ f \in Paced => f \in Line(task[s])
        BY <1>1, <1>3, <1>6, <1>7, <1>8, <1>9, <2>1, ClaimedKept
    <2> QED
        BY <1>11, <2>2
<1>13. CacheKept(ts, ca)
    <2>1. t.pc = pc
        BY <1>9 DEF Phase
    <2>2. CASE pc = "reserving"
        <3>1. task[s][f].pc \notin {"ledger", "sent", "ok", "restricted"}
            BY DEF MayFetch
        <3> QED
            BY <1>2, <1>9, <1>10, <2>1, <2>2, <3>1, MovingCache
    <2>3. CASE pc # "reserving"
        BY <1>2, <1>7, <1>9, <1>10, <1>12, <2>1, <2>3, AskingCache
    <2> QED
        BY <2>2, <2>3
<1>14. ca \in [Urls -> Fetches \cup {None}] /\ se \in SUBSET Requests
    <2>1. Slot(s, task[s], f) \in Requests
        BY <1>2, TaskTyped DEF Slot, Requests
    <2> QED
        BY <1>2, <1>10, <1>11, <2>1, NamesOf
<1>15. Becomes(s, sc, ts, ca, tail[s], se)
    <2>1. /\ cache' = [cache EXCEPT ![s] = ca] /\ sent' = [sent EXCEPT ![s] = se]
          /\ tail' = [tail EXCEPT ![s] = tail[s]]
        BY <1>1, <1>7, <1>10, <1>11, Same DEF TypeOK
    <2> QED
        BY <1>5, <1>9, <2>1 DEF Becomes
<1>16. ValuesOf(s, sc, ts, ca, tail[s], se) /\ ScanKept(s, sc, ts, ca, tail[s], se)
    <2>1. sc.pc \notin {"idle", "done"} /\ sc \in ScanRecords
        BY <1>6 DEF Claims, MayFetch
    <2> QED
        BY <1>2, <1>12, <1>13, <1>14, <2>1 DEF ValuesOf, ScanKept
<1>17. \A g \in Fetches : ts[g].pc = "granted" =>
         task[s][g].pc = "granted" /\ ts[g].tries = task[s][g].tries
    BY <1>7, <1>9 DEF Moved, Phase
<1> QED
    BY <1>1, <1>15, <1>16, <1>17, QuietStep DEF TypeOK

LEMMA CachedFetchKeeps ==
    ASSUME RequestsKept, NEW s \in Scans, NEW f \in Fetches, MayFetch(s, f), CachedFetch(s, f),
           UNCHANGED <<backoff, log, listed>>
    PROVE  RequestsKept'
<1>1. /\ TypeOK /\ ValuesOf(s, scan[s], task[s], cache[s], tail[s], sent[s])
      /\ ScanKept(s, scan[s], task[s], cache[s], tail[s], sent[s])
    BY Values DEF RequestsKept
<1>2. /\ task[s] \in [Fetches -> Tasks] /\ cache[s] \in [Urls -> Fetches \cup {None}]
      /\ CacheKept(task[s], cache[s]) /\ WaitsKept(task[s]) /\ BlocksKept(scan[s], task[s])
    BY <1>1 DEF ValuesOf, ScanKept
<1>3. /\ task[s][f].on = None /\ task[s][f].pc \notin Claiming
      /\ scan[s].pc \notin {"idle", "done"}
    BY <1>2, Unwaiting DEF MayFetch, Claiming
<1>4. PICK g \in Fetches \cup {None} : g = cache[s][UrlOf[f]]
    BY <1>2, NamesOf
<1>5. ASSUME g # None
      PROVE  /\ g \in Fetches /\ UrlOf[g] = UrlOf[f] /\ task[s][f].pc = "new"
             /\ task[s][g].pc \in {"ledger", "sent", "ok", "restricted"}
    <2>1. UrlOf[g] = UrlOf[f] /\ task[s][g].pc \in {"ledger", "sent", "ok", "restricted"}
        BY <1>2, <1>4, <1>5, NamesOf DEF CacheKept
    <2>2. task[s][f].pc # "pacing"
        BY <1>2, <1>4, <1>5 DEF CacheKept, WaitsKept
    <2> QED
        BY <1>4, <1>5, <2>1, <2>2 DEF MayFetch
<1>6. CASE /\ g # None /\ task[s][g].pc \in Ended
           /\ Settle(s, f, task[s][g].pc)
           /\ UNCHANGED <<scan, sent>>
    <2>1. PICK result \in Ended : result = task[s][g].pc
        BY <1>6
    <2>2. result = "restricted" /\ f \in Paced => Origin(f) \in scan[s].blocked
        BY <1>2, <1>5, <1>6, <2>1, Platforms DEF BlocksKept
    <2>3. Settle(s, f, result)
        BY <1>6, <2>1
    <2> QED
        BY <1>3, <1>6, <2>2, <2>3, SettleKeeps
<1>7. CASE /\ g # None /\ task[s][g].pc \notin Ended
           /\ Joins(s, f, g)
           /\ UNCHANGED <<scan, cache, tail, sent>>
    <2>1. PICK ts \in [Fetches -> Tasks], t \in Tasks :
            /\ task' = [task EXCEPT ![s] = ts] /\ Moved(task[s], ts, f, t)
            /\ t.pc = "joined" /\ t.on = g /\ t.tries = task[s][f].tries
        BY <1>1, <1>5, <1>7, JoinsIs
    <2>2. task[s][g].pc \in InLine
        BY <1>5, <1>7 DEF Ended, InLine, Running, Waiting, Claiming
    <2>3. /\ ValuesOf(s, scan[s], ts, cache[s], tail[s], sent[s])
          /\ ScanKept(s, scan[s], ts, cache[s], tail[s], sent[s])
        BY <1>1, <1>3, <1>5, <1>7, <2>1, <2>2, JoinedKept
    <2>4. Becomes(s, scan[s], ts, cache[s], tail[s], sent[s])
        BY <1>1, <1>7, <2>1, Same DEF Becomes, TypeOK
    <2>5. \A h \in Fetches : ts[h].pc = "granted" =>
            task[s][h].pc = "granted" /\ ts[h].tries = task[s][h].tries
        BY <2>1 DEF Moved
    <2> QED
        BY <1>1, <2>3, <2>4, <2>5, QuietStep DEF TypeOK
<1>8. CASE g = None /\ Exhausted(s, f) /\ Settle(s, f, "failed") /\ UNCHANGED <<scan, sent>>
    <2>1. PICK result \in Ended : result = "failed"
        BY DEF Ended
    <2> QED
        BY <1>3, <1>8, <2>1, SettleKeeps
<1>9. CASE /\ g = None /\ ~Exhausted(s, f)
           /\ ClaimSlot(s, f)
           /\ UNCHANGED tail
           /\ \/ ListsLearned(f) /\ Moves(s, f, "reserving") /\ UNCHANGED <<cache, sent>>
              \/ /\ f \in Keyed
                 /\ Moves(s, f, "ledger")
                 /\ cache' = [cache EXCEPT ![s][UrlOf[f]] = f]
                 /\ UNCHANGED sent
              \/ ~ListsLearned(f) /\ f \notin Keyed /\ Sends(s, f)
    BY <1>4, <1>9, ClaimKeeps
<1> QED
    BY <1>4, <1>6, <1>7, <1>8, <1>9 DEF CachedFetch

-----------------------------------------------------------------------------
(* Calls and turns *)

(* What is under way is of a scan that is. *)
LEMMA UnderWay ==
    ASSUME RequestsKept, NEW s \in Scans, NEW f \in Fetches, task[s][f].pc # "new"
    PROVE  scan[s].pc \notin {"idle", "done"}
<1>1. ScanKept(s, scan[s], task[s], cache[s], tail[s], sent[s])
    BY Values
<1> QED
    BY <1>1 DEF ScanKept, AtRest, NewTask

LEMMA CallDirectlyKeeps ==
    ASSUME RequestsKept, NEW s \in Scans, NEW f \in Fetches, CallDirectly(s, f)
    PROVE  RequestsKept'
<1>1. MayFetch(s, f)
    BY DEF CallDirectly, MayCall, MayFetch
<1> QED
    BY <1>1, CachedFetchKeeps DEF CallDirectly

LEMMA PaceKeeps ==
    ASSUME RequestsKept, NEW s \in Scans, NEW f \in Fetches, Pace(s, f)
    PROVE  RequestsKept'
<1>1. scan[s].pc \notin {"idle", "done"}
    BY UnderWay DEF Pace
<1>2. MayFetch(s, f)
    BY <1>1 DEF Pace, MayFetch
<1> QED
    BY <1>2, CachedFetchKeeps DEF Pace

LEMMA QueuedKept ==
    ASSUME NEW s, NEW sc, NEW ts, NEW ca, NEW ta, NEW se,
           ValuesOf(s, sc, ts, ca, ta, se), ScanKept(s, sc, ts, ca, ta, se),
           NEW f \in Paced, ts[f].pc = "new", sc.pc \notin {"idle", "done"},
           ca[UrlOf[f]] = None, \A g \in Line(ts) : UrlOf[g] # UrlOf[f],
           NEW t \in Tasks, NEW ts2 \in [Fetches -> Tasks], Moved(ts, ts2, f, t),
           t.pc = "queued", t.on = ta[Origin(f)], t.tries = ts[f].tries
    PROVE  /\ ValuesOf(s, sc, ts2, ca, [ta EXCEPT ![Origin(f)] = f], se)
           /\ ScanKept(s, sc, ts2, ca, [ta EXCEPT ![Origin(f)] = f], se)
<1>1. /\ ts \in [Fetches -> Tasks] /\ se \in SUBSET Requests /\ sc \in ScanRecords
      /\ ca \in [Urls -> Fetches \cup {None}] /\ ta \in [Origins -> Fetches \cup {None}]
      /\ WaitsKept(ts) /\ LineKept(ts, ta) /\ CacheKept(ts, ca) /\ BlocksKept(sc, ts)
      /\ SentKept(s, ts, se) /\ SlotsKept(s, sc, ts, se)
    BY DEF ValuesOf, ScanKept
<1>2. f \in Fetches /\ Origin(f) \in Origins
    BY RequestAssumption, NamesOf DEF RequestAssumption
<1>3. ts[f].pc \notin InLine /\ t.pc \in InLine
    BY DEF InLine, Running, Waiting, Claiming
<1>4. PICK g \in Fetches \cup {None} : g = ta[Origin(f)]
    BY <1>1, <1>2
<1>5. g # None => g \in Line(ts) /\ Origin(g) = Origin(f)
    BY <1>1, <1>2, <1>4 DEF LineKept, InOrder
<1>6. WaitsKept(ts2)
    <2>1. t.on # None => ts[t.on].pc \in InLine /\ t.on # f /\ t.on \in Paced /\ Origin(t.on) = Origin(f)
        BY <1>3, <1>4, <1>5 DEF Line
    <2> QED
        BY <1>1, <1>2, <1>3, <2>1, MovingWaits
<1>7. LineKept(ts2, [ta EXCEPT ![Origin(f)] = f])
    BY <1>1, <1>3, EnteringLine
<1>8. CacheKept(ts2, ca)
    BY <1>1, <1>2, MovingCache
<1>9. BlocksKept(sc, ts2)
    BY <1>1, <1>2, MovingBlocks
<1>10. SentKept(s, ts2, se)
    <2>1. ts[f].pc \notin Ended \cup {"sent"}
        BY DEF Ended
    <2> QED
        BY <1>1, <1>2, <2>1, MovingSent
<1>11. SlotsKept(s, sc, ts2, se)
    <2>1. ts[f].pc \notin Claiming /\ t.pc \notin Claiming
        BY DEF Claiming
    <2>2. Used(s, ts2, se) = Used(s, ts, se)
        BY <1>1, <1>2, <2>1, MovingUsed
    <2> QED
        BY <1>1, <2>2, SlotsSame
<1>12. [ta EXCEPT ![Origin(f)] = f] \in [Origins -> Fetches \cup {None}]
    BY <1>1, <1>2
<1> QED
    BY <1>6, <1>7, <1>8, <1>9, <1>10, <1>11, <1>12 DEF ValuesOf, ScanKept

LEMMA CallPacedKeeps ==
    ASSUME RequestsKept, NEW s \in Scans, NEW f \in Fetches, CallPaced(s, f)
    PROVE  RequestsKept'
<1> DEFINE pending == {g \in Paced : UrlOf[g] = UrlOf[f] /\ task[s][g].pc \in Running \ {"joined"}}
<1>1. /\ TypeOK /\ ValuesOf(s, scan[s], task[s], cache[s], tail[s], sent[s])
      /\ ScanKept(s, scan[s], task[s], cache[s], tail[s], sent[s])
    BY Values DEF RequestsKept
<1>2. /\ f \in Paced /\ task[s][f].pc = "new" /\ scan[s].pc \notin {"idle", "done"}
      /\ cache[s][UrlOf[f]] = None /\ Paced \subseteq Fetches
      /\ UNCHANGED <<backoff, log, scan, cache, sent, listed>>
    BY RequestAssumption DEF CallPaced, MayCall, RequestAssumption
<1>3. /\ scan' = [scan EXCEPT ![s] = scan[s]] /\ cache' = [cache EXCEPT ![s] = cache[s]]
      /\ sent' = [sent EXCEPT ![s] = sent[s]]
    BY <1>1, <1>2, Same DEF TypeOK
<1>4. CASE pending # {} /\ (\E g \in pending : Joins(s, f, g)) /\ UNCHANGED tail
    <2>1. PICK g \in Fetches : UrlOf[g] = UrlOf[f] /\ task[s][g].pc \in InLine /\ Joins(s, f, g)
        BY <1>2, <1>4 DEF InLine
    <2>2. PICK ts \in [Fetches -> Tasks], t \in Tasks :
            /\ task' = [task EXCEPT ![s] = ts] /\ Moved(task[s], ts, f, t)
            /\ t.pc = "joined" /\ t.on = g /\ t.tries = task[s][f].tries
        BY <1>1, <2>1, JoinsIs
    <2>3. /\ ValuesOf(s, scan[s], ts, cache[s], tail[s], sent[s])
          /\ ScanKept(s, scan[s], ts, cache[s], tail[s], sent[s])
        BY <1>1, <1>2, <2>1, <2>2, JoinedKept
    <2>4. tail' = [tail EXCEPT ![s] = tail[s]]
        BY <1>1, <1>4, Same DEF TypeOK
    <2>5. Becomes(s, scan[s], ts, cache[s], tail[s], sent[s])
        BY <1>3, <2>2, <2>4 DEF Becomes
    <2>6. \A h \in Fetches : ts[h].pc = "granted" =>
            task[s][h].pc = "granted" /\ ts[h].tries = task[s][h].tries
        BY <2>2 DEF Moved
    <2> QED
        BY <1>1, <1>2, <2>3, <2>5, <2>6, QuietStep DEF TypeOK
<1>5. CASE /\ pending = {}
           /\ task' = [task EXCEPT ![s][f].pc = "queued", ![s][f].on = tail[s][Origin(f)]]
           /\ tail' = [tail EXCEPT ![s][Origin(f)] = f]
    <2>1. PICK t : t = [task[s][f] EXCEPT !.pc = "queued", !.on = tail[s][Origin(f)]]
        OBVIOUS
    <2>2. /\ task[s] \in [Fetches -> Tasks] /\ task[s][f] \in Tasks
          /\ tail[s][Origin(f)] \in Fetches \cup {None}
        BY <1>1, <1>2, NamesOf DEF TypeOK
    <2>3. t \in Tasks /\ t.pc = "queued" /\ t.on = tail[s][Origin(f)] /\ t.tries = task[s][f].tries
        BY <2>1, <2>2 DEF Tasks, Running, Waiting
    <2>4. PICK ts : ts = [task[s] EXCEPT ![f] = t]
        OBVIOUS
    <2>5. ts \in [Fetches -> Tasks] /\ Moved(task[s], ts, f, t)
        BY <1>2, <2>2, <2>3, <2>4, OneMoves
    <2>6. task' = [task EXCEPT ![s] = ts]
        BY <1>1, <1>2, <1>5, <2>1, <2>4 DEF TypeOK
    <2>7. \A g \in Line(task[s]) : UrlOf[g] # UrlOf[f]
        BY <1>5 DEF Line, InLine
    <2>8. PICK ta : ta = [tail[s] EXCEPT ![Origin(f)] = f]
        OBVIOUS
    <2>9. /\ ValuesOf(s, scan[s], ts, cache[s], ta, sent[s])
          /\ ScanKept(s, scan[s], ts, cache[s], ta, sent[s])
        BY <1>1, <1>2, <2>3, <2>5, <2>7, <2>8, QueuedKept
    <2>10. Becomes(s, scan[s], ts, cache[s], ta, sent[s])
        BY <1>3, <1>5, <2>6, <2>8 DEF Becomes
    <2>11. \A h \in Fetches : ts[h].pc = "granted" =>
             task[s][h].pc = "granted" /\ ts[h].tries = task[s][h].tries
        BY <2>3, <2>5 DEF Moved
    <2> QED
        BY <1>1, <1>2, <2>9, <2>10, <2>11, QuietStep DEF TypeOK
<1> QED
    BY <1>4, <1>5 DEF CallPaced

(* A fetch whose turn comes paces itself; one whose list is recorded may   *)
(* be sent.                                                                *)
LEMMA PhaseKept ==
    ASSUME NEW s, NEW sc, NEW ts, NEW ca, NEW ta, NEW se,
           ValuesOf(s, sc, ts, ca, ta, se), ScanKept(s, sc, ts, ca, ta, se),
           sc.pc \notin {"idle", "done"}, NEW f \in Fetches, NEW pc, NEW t \in Tasks,
           Phase(ts, f, t, pc), NEW ts2 \in [Fetches -> Tasks], Moved(ts, ts2, f, t),
           \/ ts[f].pc = "queued" /\ ts[f].on = None /\ Origin(f) \notin sc.blocked /\ pc = "pacing"
           \/ ts[f].pc = "reserving" /\ pc = "granted"
    PROVE  ValuesOf(s, sc, ts2, ca, ta, se) /\ ScanKept(s, sc, ts2, ca, ta, se)
<1>1. /\ ts \in [Fetches -> Tasks] /\ se \in SUBSET Requests /\ sc \in ScanRecords
      /\ ca \in [Urls -> Fetches \cup {None}]
      /\ WaitsKept(ts) /\ LineKept(ts, ta) /\ CacheKept(ts, ca) /\ BlocksKept(sc, ts)
      /\ SentKept(s, ts, se) /\ SlotsKept(s, sc, ts, se)
    BY DEF ValuesOf, ScanKept
<1>2. t.pc = pc /\ t.on = ts[f].on /\ t.tries = ts[f].tries
    BY DEF Phase
<1>3. /\ ts[f].on = None
      /\ t.pc = "pacing" => f \in Paced
      /\ t.pc = "granted" => ListsLearned(f)
    BY <1>1, <1>2, Unwaiting DEF WaitsKept
<1>4. ts[f].pc \in InLine /\ t.pc \in InLine
    BY <1>2 DEF InLine, Running, Waiting, Claiming
<1>5. WaitsKept(ts2)
    BY <1>1, <1>2, <1>3, <1>4, MovingWaits
<1>6. LineKept(ts2, ta)
    <2>1. f \in Paced => f \in Line(ts)
        BY <1>4 DEF Line
    <2> QED
        BY <1>1, <1>2, <1>4, <2>1, MovingLine
<1>7. CacheKept(ts2, ca)
    <2>1. f \in Paced => ca[UrlOf[f]] = None
        BY <1>1 DEF CacheKept
    <2> QED
        BY <1>1, <1>2, <2>1, MovingCache
<1>8. BlocksKept(sc, ts2)
    <2>1. f \in Paced => Origin(f) \notin sc.blocked
        BY <1>1 DEF BlocksKept
    <2> QED
        BY <1>1, <1>2, <2>1, MovingBlocks
<1>9. SentKept(s, ts2, se)
    <2>1. ts[f].pc \notin Ended \cup {"sent"}
        BY DEF Ended
    <2> QED
        BY <1>1, <1>2, <2>1, MovingSent
<1>10. SlotsKept(s, sc, ts2, se)
    <2>1. ts[f].pc \in Claiming <=> t.pc \in Claiming
        BY <1>2 DEF Claiming
    <2>2. Used(s, ts2, se) = Used(s, ts, se)
        BY <1>1, <1>2, <2>1, MovingUsed
    <2> QED
        BY <1>1, <2>2, SlotsSame
<1> QED
    BY <1>5, <1>6, <1>7, <1>8, <1>9, <1>10 DEF ValuesOf, ScanKept

LEMMA SentOff ==
    ASSUME NEW s, NEW sc, NEW ts, NEW ca, NEW ta, NEW se,
           ValuesOf(s, sc, ts, ca, ta, se), ScanKept(s, sc, ts, ca, ta, se),
           sc.pc \notin {"idle", "done"}, NEW f \in Fetches, NEW t \in Tasks,
           Phase(ts, f, t, "sent"), NEW ts2 \in [Fetches -> Tasks], Moved(ts, ts2, f, t),
           ts[f].pc \in {"granted", "ledger"}
    PROVE  /\ ValuesOf(s, sc, ts2, [ca EXCEPT ![UrlOf[f]] = f], ta, se \cup {Slot(s, ts, f)})
           /\ ScanKept(s, sc, ts2, [ca EXCEPT ![UrlOf[f]] = f], ta, se \cup {Slot(s, ts, f)})
<1>1. /\ ts \in [Fetches -> Tasks] /\ se \in SUBSET Requests /\ sc \in ScanRecords
      /\ ca \in [Urls -> Fetches \cup {None}] /\ s \in Scans
      /\ WaitsKept(ts) /\ LineKept(ts, ta) /\ CacheKept(ts, ca) /\ BlocksKept(sc, ts)
      /\ SentKept(s, ts, se) /\ SlotsKept(s, sc, ts, se)
    BY DEF ValuesOf, ScanKept
<1>2. t.pc = "sent" /\ t.on = ts[f].on /\ t.tries = ts[f].tries /\ ts[f].on = None
    BY <1>1, Unwaiting DEF Phase
<1>3. ts[f].pc \in InLine /\ t.pc \in InLine
    BY <1>2 DEF InLine, Running, Waiting, Claiming
<1>4. f \in Paced => f \in Line(ts)
    BY <1>3 DEF Line
<1>5. WaitsKept(ts2)
    BY <1>1, <1>2, <1>3, MovingWaits
<1>6. LineKept(ts2, ta)
    BY <1>1, <1>2, <1>3, <1>4, MovingLine
<1>7. CacheKept(ts2, [ca EXCEPT ![UrlOf[f]] = f])
    BY <1>1, <1>2, <1>4, AskingCache
<1>8. BlocksKept(sc, ts2)
    BY <1>1, <1>2, MovingBlocks
<1>9. SentKept(s, ts2, se \cup {Slot(s, ts, f)}) /\ se \cup {Slot(s, ts, f)} \in SUBSET Requests
    BY <1>1, <1>2, SendingSent
<1>10. SlotsKept(s, sc, ts2, se \cup {Slot(s, ts, f)})
    <2>1. ts[f].pc \in Claiming /\ t.pc \notin Claiming
        BY <1>2 DEF Claiming
    <2>2. Used(s, ts2, se \cup {Slot(s, ts, f)}) = Used(s, ts, se)
        BY <1>1, <2>1, SendingUsed
    <2> QED
        BY <1>1, <2>2, SlotsSame
<1>11. [ca EXCEPT ![UrlOf[f]] = f] \in [Urls -> Fetches \cup {None}]
    BY <1>1, NamesOf
<1> QED
    BY <1>5, <1>6, <1>7, <1>8, <1>9, <1>10, <1>11 DEF ValuesOf, ScanKept

LEMMA TurnKeeps ==
    ASSUME RequestsKept, NEW s \in Scans, NEW f \in Fetches, Turn(s, f)
    PROVE  RequestsKept'
<1>1. /\ TypeOK /\ ValuesOf(s, scan[s], task[s], cache[s], tail[s], sent[s])
      /\ ScanKept(s, scan[s], task[s], cache[s], tail[s], sent[s])
    BY Values DEF RequestsKept
<1>2. scan[s].pc \notin {"idle", "done"} /\ task[s][f].pc \notin Claiming
    BY UnderWay DEF Turn, Claiming
<1>3. CASE Blocked(s, f)
    <2>1. PICK result \in Ended : result = "failed"
        BY DEF Ended
    <2> QED
        BY <1>2, <1>3, <2>1, SettleKeeps DEF Turn
<1>4. CASE ~Blocked(s, f)
    <2>1. Moves(s, f, "pacing") /\ UNCHANGED <<backoff, log, scan, cache, tail, sent, listed>>
        BY <1>4 DEF Turn
    <2>2. "pacing" \in Running \cup Ended
        BY DEF Running, Waiting
    <2>3. PICK ts \in [Fetches -> Tasks], t \in Tasks :
            /\ task' = [task EXCEPT ![s] = ts] /\ Moved(task[s], ts, f, t)
            /\ Phase(task[s], f, t, "pacing")
        BY <1>1, <2>1, <2>2, MovesIs
    <2>4. task[s][f].pc = "queued" /\ task[s][f].on = None /\ Origin(f) \notin scan[s].blocked
        BY <1>4 DEF Turn, Blocked
    <2>5. /\ ValuesOf(s, scan[s], ts, cache[s], tail[s], sent[s])
          /\ ScanKept(s, scan[s], ts, cache[s], tail[s], sent[s])
        BY <1>1, <1>2, <2>3, <2>4, PhaseKept
    <2>6. Becomes(s, scan[s], ts, cache[s], tail[s], sent[s])
        BY <1>1, <2>1, <2>3, Same DEF Becomes, TypeOK
    <2>7. \A h \in Fetches : ts[h].pc = "granted" =>
            task[s][h].pc = "granted" /\ ts[h].tries = task[s][h].tries
        BY <2>3 DEF Moved, Phase
    <2> QED
        BY <1>1, <2>1, <2>5, <2>6, <2>7, QuietStep DEF TypeOK
<1> QED
    BY <1>3, <1>4

-----------------------------------------------------------------------------
(* A fetch is recorded, sent and answered *)

LEMMA RequestTyped ==
    ASSUME TypeOK, NEW s \in Scans, NEW f \in Fetches
    PROVE  Request(s, f) \in Requests
<1>1. task[s] \in [Fetches -> Tasks]
    BY DEF TypeOK
<1> QED
    BY <1>1, TaskTyped DEF Request, Requests

LEMMA ReserveKeeps ==
    ASSUME RequestsKept, NEW s \in Scans, NEW f \in Fetches, Reserve(s, f)
    PROVE  RequestsKept'
<1>1. /\ TypeOK /\ ValuesOf(s, scan[s], task[s], cache[s], tail[s], sent[s])
      /\ ScanKept(s, scan[s], task[s], cache[s], tail[s], sent[s]) /\ DayKept
    BY Values DEF RequestsKept
<1>2. /\ scan[s].pc \notin {"idle", "done"} /\ task[s][f].pc = "reserving"
      /\ UNCHANGED <<backoff, sent, listed>>
    BY UnderWay DEF Reserve
<1>3. CASE ReturnSlot(s, f) /\ Settle(s, f, "failed") /\ UNCHANGED log
    BY <1>2, <1>3, ReturnKeeps DEF Claiming
<1>4. CASE /\ ~DayUsed(f)
           /\ log' = [log EXCEPT ![Board(f)] = @ \cup {Request(s, f)}]
           /\ Moves(s, f, "granted")
           /\ UNCHANGED <<scan, cache, tail>>
    <2>1. "granted" \in Running \cup Ended
        BY DEF Running, Claiming
    <2>2. PICK ts \in [Fetches -> Tasks], t \in Tasks :
            /\ task' = [task EXCEPT ![s] = ts] /\ Moved(task[s], ts, f, t)
            /\ Phase(task[s], f, t, "granted")
        BY <1>1, <1>4, <2>1, MovesIs
    <2>3. /\ ValuesOf(s, scan[s], ts, cache[s], tail[s], sent[s])
          /\ ScanKept(s, scan[s], ts, cache[s], tail[s], sent[s])
        BY <1>1, <1>2, <2>2, PhaseKept
    <2>4. Becomes(s, scan[s], ts, cache[s], tail[s], sent[s])
        BY <1>1, <1>2, <1>4, <2>2, Same DEF Becomes, TypeOK
    <2>5. ListsLearned(f) /\ Board(f) \in Learned
        BY <1>1, <1>2 DEF ScanKept, WaitsKept, ListsLearned
    <2>6. /\ log'[Board(f)] = log[Board(f)] \cup {Request(s, f)}
          /\ \A b \in Learned : b # Board(f) => log'[b] = log[b]
          /\ \A b \in Learned : log[b] \subseteq log'[b]
          /\ log' \in [Learned -> SUBSET Requests]
        BY <1>1, <1>4, <2>5, RequestTyped DEF TypeOK
    <2>7. \A b \in Learned :
            IsFiniteSet(log'[b]) /\ Cardinality(log'[b]) <= DailyLists /\ listed'[b] \subseteq log'[b]
        <3>1. IsFiniteSet(log[Board(f)]) /\ Cardinality(log[Board(f)]) \in Nat
            BY <1>1, <2>5, FS_CardinalityType DEF DayKept
        <3>2. Cardinality(log[Board(f)]) < DailyLists
            BY <1>4, <3>1, BoundsTyped DEF DayUsed
        <3>3. /\ IsFiniteSet(log'[Board(f)])
              /\ Cardinality(log'[Board(f)]) <= DailyLists
            <4>1. PICK day : day = log[Board(f)]
                OBVIOUS
            <4>2. IsFiniteSet(day) /\ Cardinality(day) \in Nat /\ Cardinality(day) < DailyLists
                BY <3>1, <3>2, <4>1
            <4>3. /\ IsFiniteSet(day \cup {Request(s, f)})
                  /\ \/ Cardinality(day \cup {Request(s, f)}) = Cardinality(day)
                     \/ Cardinality(day \cup {Request(s, f)}) = Cardinality(day) + 1
                BY <4>2, FS_AddElement
            <4>4. Cardinality(day \cup {Request(s, f)}) <= DailyLists
                BY <4>2, <4>3, BoundsTyped
            <4> QED
                BY <2>6, <4>1, <4>3, <4>4
        <3> QED
            BY <1>1, <1>2, <2>6, <3>3 DEF DayKept
    <2>8. /\ task'[s] = ts /\ \A u \in Scans : u # s => task'[u] = task[u]
          /\ ts[f].tries = task[s][f].tries /\ \A g \in Fetches : g # f => ts[g] = task[s][g]
        BY <1>1, <2>2 DEF TypeOK, Moved, Phase
    <2>9. ASSUME NEW u \in Scans, NEW g \in Fetches, task'[u][g].pc = "granted"
          PROVE  ListsLearned(g) /\ Request(u, g)' \in log'[Board(g)]
        <3>1. CASE u = s /\ g = f
            BY <2>5, <2>6, <2>8, <3>1 DEF Request
        <3>2. CASE ~(u = s /\ g = f)
            <4>1. task'[u][g] = task[u][g]
                BY <2>8, <3>2
            <4>2. ListsLearned(g) /\ Request(u, g) \in log[Board(g)] /\ Board(g) \in Learned
                BY <1>1, <2>9, <4>1 DEF DayKept, ListsLearned
            <4> QED
                BY <2>6, <4>1, <4>2 DEF Request
        <3> QED
            BY <3>1, <3>2
    <2>10. DayKept'
        BY <2>7, <2>9 DEF DayKept
    <2> QED
        BY <1>1, <1>2, <2>3, <2>4, <2>6, <2>10, StepOf DEF TypeOK
<1> QED
    BY <1>3, <1>4 DEF Reserve

LEMMA SendsIs ==
    ASSUME RequestsKept, NEW s \in Scans, NEW f \in Fetches, Sends(s, f),
           task[s][f].pc \in {"granted", "ledger"}, UNCHANGED <<scan, tail>>
    PROVE  \E ts, ca, se :
             /\ ts \in [Fetches -> Tasks]
             /\ ValuesOf(s, scan[s], ts, ca, tail[s], se)
             /\ ScanKept(s, scan[s], ts, ca, tail[s], se)
             /\ Becomes(s, scan[s], ts, ca, tail[s], se)
             /\ \A g \in Fetches : ts[g].pc = "granted" => ts[g] = task[s][g]
<1>1. /\ TypeOK /\ ValuesOf(s, scan[s], task[s], cache[s], tail[s], sent[s])
      /\ ScanKept(s, scan[s], task[s], cache[s], tail[s], sent[s])
    BY Values DEF RequestsKept
<1>2. scan[s].pc \notin {"idle", "done"}
    BY UnderWay
<1>3. "sent" \in Running \cup Ended
    BY DEF Running
<1>4. PICK ts \in [Fetches -> Tasks], t \in Tasks :
        /\ task' = [task EXCEPT ![s] = ts] /\ Moved(task[s], ts, f, t)
        /\ Phase(task[s], f, t, "sent")
    BY <1>1, <1>3, MovesIs DEF Sends
<1>5. PICK ca : ca = [cache[s] EXCEPT ![UrlOf[f]] = f]
    OBVIOUS
<1>6. PICK se : se = sent[s] \cup {Slot(s, task[s], f)}
    OBVIOUS
<1>7. ValuesOf(s, scan[s], ts, ca, tail[s], se) /\ ScanKept(s, scan[s], ts, ca, tail[s], se)
    BY <1>1, <1>2, <1>4, <1>5, <1>6, SentOff
<1>8. cache' = [cache EXCEPT ![s] = ca]
    BY <1>5 DEF Sends
<1>9. sent' = [sent EXCEPT ![s] = se]
    BY <1>6 DEF Sends, Request, Slot
<1>10. Becomes(s, scan[s], ts, ca, tail[s], se)
    BY <1>1, <1>4, <1>8, <1>9, Same DEF Becomes, TypeOK
<1>11. \A g \in Fetches : ts[g].pc = "granted" => ts[g] = task[s][g]
    BY <1>4 DEF Moved, Phase
<1> QED
    BY <1>7, <1>10, <1>11

LEMMA AskLedgerKeeps ==
    ASSUME RequestsKept, NEW s \in Scans, NEW f \in Fetches, AskLedger(s, f)
    PROVE  RequestsKept'
<1>1. scan[s].pc \notin {"idle", "done"} /\ task[s][f].pc = "ledger" /\ TypeOK
    BY UnderWay DEF AskLedger, RequestsKept
<1>2. CASE Sends(s, f) /\ UNCHANGED <<scan, tail>>
    <2>1. PICK ts, ca, se :
            /\ ts \in [Fetches -> Tasks]
            /\ ValuesOf(s, scan[s], ts, ca, tail[s], se)
            /\ ScanKept(s, scan[s], ts, ca, tail[s], se)
            /\ Becomes(s, scan[s], ts, ca, tail[s], se)
            /\ \A g \in Fetches : ts[g].pc = "granted" => ts[g] = task[s][g]
        BY <1>1, <1>2, SendsIs
    <2>2. \A g \in Fetches : ts[g].pc = "granted" =>
            task[s][g].pc = "granted" /\ ts[g].tries = task[s][g].tries
        BY <2>1
    <2>3. backoff' \subseteq Boards /\ UNCHANGED <<log, listed>>
        BY <1>1 DEF AskLedger, TypeOK
    <2> QED
        BY <1>1, <2>1, <2>2, <2>3, QuietStep
<1>3. CASE ReturnRefused(s, f) /\ Settle(s, f, "failed") /\ UNCHANGED sent
    BY <1>1, <1>3, ReturnKeeps DEF AskLedger, ReturnRefused, Claiming
<1> QED
    BY <1>2, <1>3 DEF AskLedger

LEMMA SendKeeps ==
    ASSUME RequestsKept, NEW s \in Scans, NEW f \in Fetches, Send(s, f)
    PROVE  RequestsKept'
<1>1. /\ TypeOK /\ DayKept /\ task[s][f].pc = "granted" /\ Sends(s, f)
      /\ UNCHANGED <<backoff, log, scan, tail>>
    BY DEF Send, RequestsKept
<1>2. PICK ts, ca, se :
        /\ ts \in [Fetches -> Tasks]
        /\ ValuesOf(s, scan[s], ts, ca, tail[s], se)
        /\ ScanKept(s, scan[s], ts, ca, tail[s], se)
        /\ Becomes(s, scan[s], ts, ca, tail[s], se)
        /\ \A g \in Fetches : ts[g].pc = "granted" => ts[g] = task[s][g]
    BY <1>1, SendsIs
<1>3. Request(s, f) \in log[Board(f)] /\ Board(f) \in Learned
    BY <1>1 DEF DayKept, ListsLearned
<1>4. /\ listed' \in [Learned -> SUBSET Requests]
      /\ \A b \in Learned : listed'[b] \subseteq log'[b]
    BY <1>1, <1>3, RequestTyped DEF Send, TypeOK, DayKept
<1>5. task'[s] = ts /\ \A u \in Scans : u # s => task'[u] = task[u]
    BY <1>1, <1>2 DEF Becomes, TypeOK
<1>6. ASSUME NEW u \in Scans, NEW g \in Fetches, task'[u][g].pc = "granted"
      PROVE  ListsLearned(g) /\ Request(u, g)' \in log'[Board(g)]
    <2>1. task'[u][g] = task[u][g]
        BY <1>2, <1>5, <1>6
    <2> QED
        BY <1>1, <1>6, <2>1 DEF DayKept, Request
<1>7. DayKept'
    BY <1>1, <1>4, <1>6 DEF DayKept
<1> QED
    BY <1>1, <1>2, <1>4, <1>7, StepOf DEF TypeOK

(* An answer lets the next in line go.  A refusal is remembered before     *)
(* anybody else of the platform has had a turn, as only the head of its    *)
(* line has been sent.                                                     *)
LEMMA AnsweredKept ==
    ASSUME NEW s, NEW sc, NEW ts, NEW ca, NEW ta, NEW se,
           ValuesOf(s, sc, ts, ca, ta, se), ScanKept(s, sc, ts, ca, ta, se),
           sc.pc \notin {"idle", "done"}, NEW f \in Fetches, ts[f].pc = "sent",
           NEW result \in Ended, NEW ts2 \in [Fetches -> Tasks], Settles(ts, ts2, f, result),
           NEW sc2 \in ScanRecords, sc2.pc = sc.pc, sc2.count = sc.count, sc2.by = sc.by,
           NEW more, sc2.blocked = sc.blocked \cup more,
           result = "restricted" /\ f \in Paced => Origin(f) \in more,
           \A o \in more : f \in Paced /\ o = Origin(f)
    PROVE  /\ ValuesOf(s, sc2, ts2, Uncached(ca, f, result), Untailed(ta, f), se)
           /\ ScanKept(s, sc2, ts2, Uncached(ca, f, result), Untailed(ta, f), se)
<1>1. /\ ts \in [Fetches -> Tasks] /\ se \in SUBSET Requests /\ sc \in ScanRecords
      /\ WaitsKept(ts) /\ BlocksKept(sc, ts) /\ LineKept(ts, ta) /\ SlotsKept(s, sc, ts, se)
    BY DEF ValuesOf, ScanKept
<1>2. ts[f].on = None /\ ts[f].pc \notin Claiming
    BY <1>1, Unwaiting DEF Claiming
<1>3. ASSUME NEW g \in Paced \ {f}, ts[g].pc \in {"pacing", "reserving", "granted"}
      PROVE  Origin(g) \notin sc2.blocked
    <2>1. g \in Fetches /\ Origin(g) \notin sc.blocked
        BY <1>1, <1>3, RequestAssumption DEF BlocksKept, RequestAssumption
    <2>2. ASSUME f \in Paced, Origin(g) = Origin(f)
          PROVE  FALSE
        <3>1. f \in Line(ts) /\ g \in Line(ts)
            BY <1>3, <2>2 DEF Line, InLine, Running, Waiting, Claiming
        <3>2. ts[g].on = None
            BY <1>1, <1>3, <2>1, Unwaiting
        <3>3. f = g
            BY <1>1, <1>2, <2>2, <3>1, <3>2, OneAhead
        <3> QED
            BY <1>3, <3>3
    <2> QED
        BY <2>1, <2>2
<1>4. sc.blocked \subseteq sc2.blocked /\ Spares(sc2.blocked, ts, f)
    BY <1>3 DEF Spares
<1>5. BlocksKept(sc2, ts2)
    <2>1. result = "restricted" /\ f \in Paced => Origin(f) \in sc2.blocked
        OBVIOUS
    <2> QED
        BY <1>1, <1>4, <2>1, SettlingBlocks
<1>6. Used(s, ts2, se) = Used(s, ts, se)
    BY <1>1, <1>2, SettlingUsed
<1>7. SlotsKept(s, sc2, ts2, se)
    BY <1>1, <1>6, SlotsSame
<1> QED
    BY <1>1, <1>2, <1>5, <1>7, SettlingKeeps

LEMMA AnswerKeeps ==
    ASSUME RequestsKept, NEW s \in Scans, NEW f \in Fetches, Answer(s, f)
    PROVE  RequestsKept'
<1>1. /\ TypeOK /\ ValuesOf(s, scan[s], task[s], cache[s], tail[s], sent[s])
      /\ ScanKept(s, scan[s], task[s], cache[s], tail[s], sent[s])
    BY Values DEF RequestsKept
<1>2. /\ scan[s].pc \notin {"idle", "done"} /\ task[s][f].pc = "sent"
      /\ UNCHANGED <<backoff, log, sent, listed>> /\ scan[s] \in ScanRecords
    BY <1>1, UnderWay DEF Answer, TypeOK
<1>3. PICK result \in Ended :
        /\ Settle(s, f, result)
        /\ scan' = IF result # "restricted" THEN scan ELSE
             [scan EXCEPT ![s].blocked = IF f \in Paced THEN @ \cup {Origin(f)} ELSE @,
                          ![s].todo = IF Board(f) # None THEN @ \cup {Board(f)} ELSE @]
    BY DEF Answer
<1>4. PICK ts \in [Fetches -> Tasks] :
        /\ task' = [task EXCEPT ![s] = ts] /\ Settles(task[s], ts, f, result)
        /\ cache' = [cache EXCEPT ![s] = Uncached(cache[s], f, result)]
        /\ tail' = [tail EXCEPT ![s] = Untailed(tail[s], f)]
    BY <1>1, <1>3, SettleIs
<1>5. PICK more : more = IF result = "restricted" /\ f \in Paced THEN {Origin(f)} ELSE {}
    OBVIOUS
<1>6. PICK todo \in SUBSET Boards :
        todo = IF result = "restricted" /\ Board(f) # None THEN scan[s].todo \cup {Board(f)} ELSE scan[s].todo
    <2>1. Board(f) # None => Board(f) \in Boards
        BY NamesOf DEF Boards, Board
    <2> QED
        BY <1>2, <2>1 DEF ScanRecords
<1>7. PICK sc : sc = [scan[s] EXCEPT !.blocked = scan[s].blocked \cup more, !.todo = todo]
    OBVIOUS
<1>8. /\ sc \in ScanRecords /\ sc.pc = scan[s].pc /\ sc.count = scan[s].count /\ sc.by = scan[s].by
      /\ sc.blocked = scan[s].blocked \cup more
    <2>1. more \in SUBSET Origins
        BY <1>5, NamesOf
    <2> QED
        BY <1>2, <1>6, <1>7, <2>1 DEF ScanRecords
<1>9. scan' = [scan EXCEPT ![s] = sc]
    <2>1. CASE result # "restricted"
        <3>1. sc = scan[s]
            BY <1>2, <1>5, <1>6, <1>7, <2>1 DEF ScanRecords
        <3> QED
            BY <1>1, <1>3, <2>1, <3>1, Same DEF TypeOK
    <2>2. CASE result = "restricted"
        <3>1. scan[s].blocked \cup more = IF f \in Paced THEN scan[s].blocked \cup {Origin(f)} ELSE scan[s].blocked
            BY <1>5, <2>2
        <3>2. todo = IF Board(f) # None THEN scan[s].todo \cup {Board(f)} ELSE scan[s].todo
            BY <1>6, <2>2
        <3> QED
            BY <1>1, <1>2, <1>3, <1>7, <2>2, <3>1, <3>2 DEF TypeOK, ScanRecords
    <2> QED
        BY <2>1, <2>2
<1>10. /\ ValuesOf(s, sc, ts, Uncached(cache[s], f, result), Untailed(tail[s], f), sent[s])
       /\ ScanKept(s, sc, ts, Uncached(cache[s], f, result), Untailed(tail[s], f), sent[s])
    <2>1. /\ result = "restricted" /\ f \in Paced => Origin(f) \in more
          /\ \A o \in more : f \in Paced /\ o = Origin(f)
        BY <1>5
    <2> QED
        BY <1>1, <1>2, <1>4, <1>8, <2>1, AnsweredKept
<1>11. Becomes(s, sc, ts, Uncached(cache[s], f, result), Untailed(tail[s], f), sent[s])
    BY <1>1, <1>2, <1>4, <1>9, Same DEF Becomes, TypeOK
<1>12. \A g \in Fetches : ts[g].pc = "granted" =>
         task[s][g].pc = "granted" /\ ts[g].tries = task[s][g].tries
    BY <1>4 DEF Settles, Ended
<1>13. backoff' \subseteq Boards
    BY <1>1, <1>2 DEF TypeOK
<1> QED
    BY <1>2, <1>10, <1>11, <1>12, <1>13, QuietStep

LEMMA RetriedKept ==
    ASSUME NEW s, NEW sc, NEW ts, NEW ca, NEW ta, NEW se,
           ValuesOf(s, sc, ts, ca, ta, se), ScanKept(s, sc, ts, ca, ta, se),
           sc.pc \notin {"idle", "done"}, NEW f \in Fetches, ts[f].pc = "failed", ts[f].tries = 1,
           NEW t \in Tasks, NEW ts2 \in [Fetches -> Tasks], Moved(ts, ts2, f, t),
           t.pc = "new", t.on = None, t.tries = 2
    PROVE  ValuesOf(s, sc, ts2, ca, ta, se) /\ ScanKept(s, sc, ts2, ca, ta, se)
<1>1. /\ ts \in [Fetches -> Tasks] /\ se \in SUBSET Requests /\ sc \in ScanRecords
      /\ ca \in [Urls -> Fetches \cup {None}]
      /\ WaitsKept(ts) /\ LineKept(ts, ta) /\ CacheKept(ts, ca) /\ BlocksKept(sc, ts)
      /\ SentKept(s, ts, se) /\ SlotsKept(s, sc, ts, se)
    BY DEF ValuesOf, ScanKept
<1>2. /\ ts[f].pc \notin InLine /\ t.pc \notin InLine /\ f \notin Line(ts)
      /\ ts[f].pc \notin Claiming /\ t.pc \notin Claiming
    BY DEF InLine, Running, Waiting, Claiming, Line
<1>3. WaitsKept(ts2)
    BY <1>1, <1>2, MovingWaits
<1>4. LineKept(ts2, ta)
    BY <1>1, <1>2, MovingLine
<1>5. CacheKept(ts2, ca)
    BY <1>1, MovingCache
<1>6. BlocksKept(sc, ts2)
    BY <1>1, MovingBlocks
<1>7. SentKept(s, ts2, se)
    BY <1>1, MovingSent
<1>8. Used(s, ts2, se) = Used(s, ts, se)
    BY <1>1, <1>2, MovingUsed
<1>9. SlotsKept(s, sc, ts2, se)
    BY <1>1, <1>8, SlotsSame
<1> QED
    BY <1>3, <1>4, <1>5, <1>6, <1>7, <1>9 DEF ValuesOf, ScanKept

LEMMA TryAgainKeeps ==
    ASSUME RequestsKept, NEW s \in Scans, NEW f \in Fetches, TryAgain(s, f)
    PROVE  RequestsKept'
<1>1. /\ TypeOK /\ ValuesOf(s, scan[s], task[s], cache[s], tail[s], sent[s])
      /\ ScanKept(s, scan[s], task[s], cache[s], tail[s], sent[s])
    BY Values DEF RequestsKept
<1>2. /\ scan[s].pc \notin {"idle", "done"} /\ task[s][f].pc = "failed" /\ task[s][f].tries = 1
      /\ UNCHANGED <<backoff, log, scan, cache, tail, sent, listed>>
    BY DEF TryAgain
<1>3. PICK t : t = [NewTask EXCEPT !.tries = 2]
    OBVIOUS
<1>4. t \in Tasks /\ t.pc = "new" /\ t.on = None /\ t.tries = 2
    BY <1>3 DEF NewTask, Tasks
<1>5. PICK ts : ts = [task[s] EXCEPT ![f] = t]
    OBVIOUS
<1>6. ts \in [Fetches -> Tasks] /\ Moved(task[s], ts, f, t)
    BY <1>1, <1>4, <1>5, OneMoves DEF TypeOK
<1>7. task' = [task EXCEPT ![s] = ts]
    BY <1>3, <1>5 DEF TryAgain
<1>8. /\ ValuesOf(s, scan[s], ts, cache[s], tail[s], sent[s])
      /\ ScanKept(s, scan[s], ts, cache[s], tail[s], sent[s])
    BY <1>1, <1>2, <1>4, <1>6, RetriedKept
<1>9. Becomes(s, scan[s], ts, cache[s], tail[s], sent[s])
    BY <1>1, <1>2, <1>7, Same DEF Becomes, TypeOK
<1>10. \A g \in Fetches : ts[g].pc = "granted" =>
         task[s][g].pc = "granted" /\ ts[g].tries = task[s][g].tries
    BY <1>4, <1>6 DEF Moved
<1> QED
    BY <1>1, <1>2, <1>8, <1>9, <1>10, QuietStep DEF TypeOK

-----------------------------------------------------------------------------
(* A scan and its phases *)

LEMMA PhasesKeep ==
    ASSUME RequestsKept, NEW s \in Scans, NEW sc \in ScanRecords, sc.pc \notin {"idle", "done"},
           sc.count = scan[s].count, sc.by = scan[s].by, sc.blocked = scan[s].blocked,
           scan' = [scan EXCEPT ![s] = sc], backoff' \subseteq Boards,
           UNCHANGED <<log, task, cache, tail, sent, listed>>
    PROVE  RequestsKept'
<1>1. /\ TypeOK /\ ValuesOf(s, scan[s], task[s], cache[s], tail[s], sent[s])
      /\ ScanKept(s, scan[s], task[s], cache[s], tail[s], sent[s])
    BY Values DEF RequestsKept
<1>2. SlotsKept(s, sc, task[s], sent[s])
    BY <1>1, SlotsSame DEF ScanKept
<1>3. BlocksKept(sc, task[s])
    BY <1>1 DEF ScanKept, BlocksKept
<1>4. /\ ValuesOf(s, sc, task[s], cache[s], tail[s], sent[s])
      /\ ScanKept(s, sc, task[s], cache[s], tail[s], sent[s])
    BY <1>1, <1>2, <1>3 DEF ValuesOf, ScanKept
<1>5. Becomes(s, sc, task[s], cache[s], tail[s], sent[s])
    BY <1>1, Same DEF Becomes, TypeOK
<1> QED
    BY <1>4, <1>5, QuietStep

LEMMA ScanBeginsKeeps ==
    ASSUME RequestsKept, NEW s \in Scans, ScanBegins(s)
    PROVE  RequestsKept'
<1>1. TypeOK /\ scan[s].count = 0 /\ scan[s].by = [i \in Sources |-> 0] /\ scan[s].blocked = {}
    BY Values DEF RequestsKept, ScanBegins, ScanKept, AtRest
<1>2. Planned(s) \in SUBSET Fetches
    BY RequestAssumption DEF Planned, RequestAssumption
<1>3. PICK sc : sc = [NewScan EXCEPT !.pc = "fetching", !.plan = Planned(s)]
    OBVIOUS
<1>4. /\ sc \in ScanRecords /\ sc.pc = "fetching"
      /\ sc.count = 0 /\ sc.by = [i \in Sources |-> 0] /\ sc.blocked = {}
    BY <1>2, <1>3 DEF NewScan, ScanRecords
<1> QED
    BY <1>1, <1>3, <1>4, PhasesKeep DEF ScanBegins, TypeOK

LEMMA AdaptersReturnKeeps ==
    ASSUME RequestsKept, NEW s \in Scans, AdaptersReturn(s)
    PROVE  RequestsKept'
<1>1. TypeOK /\ scan[s] \in ScanRecords
    BY DEF RequestsKept, TypeOK
<1>2. PICK sc : sc = [scan[s] EXCEPT !.pc = "recording"]
    OBVIOUS
<1>3. /\ sc \in ScanRecords /\ sc.pc = "recording"
      /\ sc.count = scan[s].count /\ sc.by = scan[s].by /\ sc.blocked = scan[s].blocked
    BY <1>1, <1>2 DEF ScanRecords
<1>4. scan' = [scan EXCEPT ![s] = sc]
    BY <1>2 DEF AdaptersReturn
<1> QED
    BY <1>1, <1>3, <1>4, PhasesKeep DEF AdaptersReturn, TypeOK

LEMMA VerificationBeginsKeeps ==
    ASSUME RequestsKept, NEW s \in Scans, VerificationBegins(s)
    PROVE  RequestsKept'
<1>1. TypeOK /\ scan[s] \in ScanRecords
    BY DEF RequestsKept, TypeOK
<1>2. PICK sc : sc = [scan[s] EXCEPT !.pc = "verifying"]
    OBVIOUS
<1>3. /\ sc \in ScanRecords /\ sc.pc = "verifying"
      /\ sc.count = scan[s].count /\ sc.by = scan[s].by /\ sc.blocked = scan[s].blocked
    BY <1>1, <1>2 DEF ScanRecords
<1>4. scan' = [scan EXCEPT ![s] = sc]
    BY <1>2 DEF VerificationBegins
<1> QED
    BY <1>1, <1>3, <1>4, PhasesKeep DEF VerificationBegins, TypeOK

LEMMA RecordBackoffKeeps ==
    ASSUME RequestsKept, NEW s \in Scans, RecordBackoff(s)
    PROVE  RequestsKept'
<1>1. TypeOK /\ scan[s] \in ScanRecords
    BY DEF RequestsKept, TypeOK
<1>2. PICK b \in scan[s].todo :
        /\ backoff' = backoff \cup {b}
        /\ scan' = [scan EXCEPT
             ![s].todo = @ \ {b},
             ![s].plan = IF scan[s].pc = "recording" THEN @
                         ELSE @ \ {f \in Verifying : Board(f) = b}]
    BY DEF RecordBackoff
<1>3. PICK plan \in SUBSET Fetches :
        plan = IF scan[s].pc = "recording" THEN scan[s].plan
               ELSE scan[s].plan \ {f \in Verifying : Board(f) = b}
    BY <1>1 DEF ScanRecords
<1>4. PICK sc : sc = [scan[s] EXCEPT !.todo = scan[s].todo \ {b}, !.plan = plan]
    OBVIOUS
<1>5. /\ sc \in ScanRecords /\ sc.pc \in {"recording", "verifying"}
      /\ sc.count = scan[s].count /\ sc.by = scan[s].by /\ sc.blocked = scan[s].blocked
    BY <1>1, <1>4 DEF ScanRecords, RecordBackoff
<1>6. scan' = [scan EXCEPT ![s] = sc]
    BY <1>1, <1>2, <1>3, <1>4 DEF TypeOK, ScanRecords
<1>7. backoff' \subseteq Boards
    BY <1>1, <1>2 DEF TypeOK, ScanRecords
<1> QED
    BY <1>5, <1>6, <1>7, PhasesKeep DEF RecordBackoff

(* Before it begins, and after its end, all of it holds of nothing. *)
LEMMA RestKept ==
    ASSUME NEW s \in Scans, NEW sc \in ScanRecords, NEW ts, NEW ca, NEW ta, NEW se,
           AtRest(sc, ts, ca, ta, se)
    PROVE  ValuesOf(s, sc, ts, ca, ta, se) /\ ScanKept(s, sc, ts, ca, ta, se)
<1>1. /\ ts = [f \in Fetches |-> NewTask] /\ ca = [u \in Urls |-> None]
      /\ ta = [o \in Origins |-> None] /\ se = {} /\ sc.count = 0
      /\ sc.by = [i \in Sources |-> 0] /\ sc.blocked = {}
    BY DEF AtRest
<1>2. ValuesOf(s, sc, ts, ca, ta, se)
    <2>1. NewTask \in Tasks
        BY DEF NewTask, Tasks
    <2> QED
        BY <1>1, <2>1 DEF ValuesOf
<1>3. \A f \in Fetches : ts[f].pc = "new" /\ ts[f].on = None
    BY <1>1 DEF NewTask
<1>4. \A f \in Paced : f \in Fetches /\ ts[f].pc = "new"
    BY <1>3, RequestAssumption DEF RequestAssumption
<1>5. WaitsKept(ts)
    BY <1>3 DEF WaitsKept
<1>6. LineKept(ts, ta)
    <2>1. Line(ts) = {}
        BY <1>4 DEF Line, InLine, Running, Waiting, Claiming
    <2>2. PICK rank \in [Fetches -> Nat] : rank = [f \in Fetches |-> 0]
        OBVIOUS
    <2>3. \A o \in Origins : ta[o] = None
        BY <1>1
    <2>4. InOrder(ts, ta, rank)
        BY <2>1, <2>3 DEF InOrder
    <2> QED
        BY <2>4 DEF LineKept
<1>7. CacheKept(ts, ca)
    <2>1. \A u \in Urls : ca[u] = None
        BY <1>1
    <2> QED
        BY <1>4, <2>1 DEF CacheKept
<1>8. BlocksKept(sc, ts)
    BY <1>4 DEF BlocksKept
<1>9. SentKept(s, ts, se)
    BY <1>1 DEF SentKept
<1>10. SlotsKept(s, sc, ts, se)
    <2>1. Held(ts) = {}
        BY <1>3 DEF Held, Claiming
    <2>2. Used(s, ts, se) = {}
        BY <1>1, <2>1 DEF Used, SlotsOf
    <2>3. \A i : UsedBy(i, s, ts, se) = {}
        BY <2>2 DEF UsedBy
    <2>4. \A i \in Sources : sc.by[i] = 0
        BY <1>1
    <2> QED
        BY <1>1, <2>2, <2>3, <2>4, FS_EmptySet, BoundsTyped DEF SlotsKept
<1> QED
    BY <1>2, <1>5, <1>6, <1>7, <1>8, <1>9, <1>10 DEF ScanKept

LEMMA NewScanTyped ==
    ASSUME NEW pc \in {"idle", "done"}, NEW sc, sc = [NewScan EXCEPT !.pc = pc]
    PROVE  /\ sc \in ScanRecords /\ sc.pc = pc /\ sc.count = 0
           /\ sc.by = [i \in Sources |-> 0] /\ sc.blocked = {}
BY DEF NewScan, ScanRecords

LEMMA ScanEndsKeeps ==
    ASSUME RequestsKept, NEW s \in Scans, ScanEnds(s)
    PROVE  RequestsKept'
<1>1. TypeOK
    BY DEF RequestsKept
<1>2. PICK sc : sc = [NewScan EXCEPT !.pc = "done"]
    OBVIOUS
<1>3. PICK ts : ts = [f \in Fetches |-> NewTask]
    OBVIOUS
<1>4. PICK ca : ca = [u \in Urls |-> None]
    OBVIOUS
<1>5. PICK ta : ta = [o \in Origins |-> None]
    OBVIOUS
<1>6. PICK se : se = {}
    OBVIOUS
<1>7. /\ sc \in ScanRecords /\ sc.pc = "done" /\ sc.count = 0
      /\ sc.by = [i \in Sources |-> 0] /\ sc.blocked = {}
    BY <1>2, NewScanTyped
<1>8. AtRest(sc, ts, ca, ta, se)
    BY <1>3, <1>4, <1>5, <1>6, <1>7 DEF AtRest
<1>9. ValuesOf(s, sc, ts, ca, ta, se) /\ ScanKept(s, sc, ts, ca, ta, se)
    BY <1>7, <1>8, RestKept
<1>10. Becomes(s, sc, ts, ca, ta, se) /\ UNCHANGED <<backoff, log, listed>>
    BY <1>2, <1>3, <1>4, <1>5, <1>6 DEF ScanEnds, Becomes
<1>11. \A f \in Fetches : ts[f].pc # "granted"
    BY <1>3 DEF NewTask
<1>12. backoff' \subseteq Boards
    BY <1>1, <1>10 DEF TypeOK
<1> QED
    BY <1>9, <1>10, <1>11, <1>12, QuietStep

LEMMA Begins == Init => RequestsKept
<1> SUFFICES ASSUME Init
             PROVE  RequestsKept
    OBVIOUS
<1>1. ASSUME NEW s \in Scans
      PROVE  /\ ValuesOf(s, scan[s], task[s], cache[s], tail[s], sent[s])
             /\ ScanKept(s, scan[s], task[s], cache[s], tail[s], sent[s])
    <2>1. /\ scan[s] \in ScanRecords /\ scan[s].pc = "idle" /\ scan[s].count = 0
          /\ scan[s].by = [i \in Sources |-> 0] /\ scan[s].blocked = {}
        BY DEF Init, NewScan, ScanRecords
    <2>2. AtRest(scan[s], task[s], cache[s], tail[s], sent[s])
        BY <2>1 DEF Init, AtRest
    <2> QED
        BY <2>1, <2>2, RestKept
<1>2. /\ \A s \in Scans : scan[s] \in ScanRecords /\ task[s] \in [Fetches -> Tasks]
      /\ \A s \in Scans : cache[s] \in [Urls -> Fetches \cup {None}]
      /\ \A s \in Scans : tail[s] \in [Origins -> Fetches \cup {None}]
    BY <1>1 DEF ValuesOf
<1>3. TypeOK
    <2>1. scan \in [Scans -> ScanRecords]
        BY <1>2 DEF Init
    <2>2. task \in [Scans -> [Fetches -> Tasks]]
        BY <1>2 DEF Init
    <2>3. cache \in [Scans -> [Urls -> Fetches \cup {None}]] /\ tail \in [Scans -> [Origins -> Fetches \cup {None}]]
        BY <1>2 DEF Init
    <2>4. /\ backoff \subseteq Boards /\ log \in [Learned -> SUBSET Requests]
          /\ sent \in [Scans -> SUBSET Requests] /\ listed \in [Learned -> SUBSET Requests]
        BY DEF Init
    <2> QED
        BY <2>1, <2>2, <2>3, <2>4 DEF TypeOK
<1>4. DayKept
    <2>1. \A s \in Scans, f \in Fetches : task[s][f].pc # "granted"
        BY DEF Init, NewTask
    <2>2. \A b \in Learned : log[b] = {} /\ listed[b] = {}
        BY DEF Init
    <2> QED
        BY <2>1, <2>2, FS_EmptySet, BoundsTyped DEF DayKept
<1> QED
    BY <1>1, <1>3, <1>4 DEF RequestsKept

LEMMA TimePassesKeeps ==
    ASSUME RequestsKept, TimePasses
    PROVE  RequestsKept'
<1>1. TypeOK /\ DayKept /\ UNCHANGED <<scan, task, cache, tail, sent>>
    BY DEF TimePasses, RequestsKept
<1>2. \A s \in Scans : ScanKept(s, scan'[s], task'[s], cache'[s], tail'[s], sent'[s])
    BY <1>1 DEF RequestsKept
<1>3. \A s \in Scans, f \in Fetches : Request(s, f)' = Request(s, f)
    BY <1>1 DEF Request
<1>4. ASSUME NEW b \in Learned, NEW e \in log[b],
             \A s \in Scans, f \in Fetches : task[s][f].pc = "granted" => Request(s, f) # e,
             log' = [log EXCEPT ![b] = @ \ {e}], listed' = [listed EXCEPT ![b] = @ \ {e}],
             UNCHANGED backoff
      PROVE  TypeOK' /\ DayKept'
    <2>1. /\ log' \in [Learned -> SUBSET Requests] /\ listed' \in [Learned -> SUBSET Requests]
          /\ log'[b] = log[b] \ {e} /\ listed'[b] = listed[b] \ {e}
          /\ \A c \in Learned : c # b => log'[c] = log[c] /\ listed'[c] = listed[c]
        BY <1>1, <1>4 DEF TypeOK
    <2>2. \A c \in Learned : log'[c] \subseteq log[c] /\ listed'[c] \subseteq log'[c]
        BY <1>1, <2>1 DEF DayKept
    <2>3. ASSUME NEW c \in Learned
          PROVE  IsFiniteSet(log'[c]) /\ Cardinality(log'[c]) <= DailyLists
        <3>1. IsFiniteSet(log[c]) /\ Cardinality(log[c]) <= DailyLists
            BY <1>1 DEF DayKept
        <3>2. IsFiniteSet(log'[c]) /\ Cardinality(log'[c]) <= Cardinality(log[c])
            BY <2>2, <3>1, FS_Subset
        <3>3. Cardinality(log[c]) \in Nat /\ Cardinality(log'[c]) \in Nat
            BY <3>1, <3>2, FS_CardinalityType
        <3> QED
            BY <3>1, <3>2, <3>3, BoundsTyped
    <2>4. ASSUME NEW s \in Scans, NEW f \in Fetches, task'[s][f].pc = "granted"
          PROVE  ListsLearned(f) /\ Request(s, f)' \in log'[Board(f)]
        <3>1. ListsLearned(f) /\ Request(s, f) \in log[Board(f)] /\ Board(f) \in Learned
            BY <1>1, <2>4 DEF DayKept, ListsLearned
        <3>2. Request(s, f) # e
            BY <1>1, <1>4, <2>4
        <3> QED
            BY <1>3, <2>1, <3>1, <3>2
    <2> QED
        BY <1>1, <1>4, <2>1, <2>2, <2>3, <2>4 DEF TypeOK, DayKept
<1>5. ASSUME NEW b \in backoff, backoff' = backoff \ {b}, UNCHANGED <<log, listed>>
      PROVE  TypeOK' /\ DayKept'
    BY <1>1, <1>3, <1>5 DEF TypeOK, DayKept
<1>6. TypeOK' /\ DayKept'
    BY <1>4, <1>5 DEF TimePasses
<1> QED
    BY <1>2, <1>6 DEF RequestsKept

LEMMA Keeps == RequestsKept /\ [Next]_vars => RequestsKept'
<1> SUFFICES ASSUME RequestsKept, [Next]_vars
             PROVE  RequestsKept'
    OBVIOUS
<1>1. ASSUME NEW s \in Scans, NEW f \in Fetches, FetchSteps(s, f)
      PROVE  RequestsKept'
    BY <1>1, TurnKeeps, PaceKeeps, ReserveKeeps, SendKeeps, AskLedgerKeeps, AnswerKeeps DEF FetchSteps
<1>2. ASSUME NEW s \in Scans, NEW f \in Fetches,
             CallDirectly(s, f) \/ CallPaced(s, f) \/ TryAgain(s, f)
      PROVE  RequestsKept'
    BY <1>2, CallDirectlyKeeps, CallPacedKeeps, TryAgainKeeps
<1>3. ASSUME NEW s \in Scans,
             ScanBegins(s) \/ AdaptersReturn(s) \/ RecordBackoff(s) \/ VerificationBegins(s) \/ ScanEnds(s)
      PROVE  RequestsKept'
    BY <1>3, ScanBeginsKeeps, AdaptersReturnKeeps, RecordBackoffKeeps, VerificationBeginsKeeps, ScanEndsKeeps
<1>4. CASE UNCHANGED vars
    BY <1>4 DEF vars, RequestsKept, TypeOK, DayKept, Request
<1> QED
    BY <1>1, <1>2, <1>3, <1>4, TimePassesKeeps DEF Next

(* The inductive invariant holds always. *)
THEOREM RequestsAreKept == Spec => []RequestsKept
<1>1. Spec => Init /\ [][Next]_vars
    BY PTL DEF Spec
<1> QED
    BY <1>1, Begins, Keeps, PTL

(* Each of the variables has its type: the scan's line and cache name      *)
(* fetches, its budgets are numbers and its history is of its requests.    *)
THEOREM TypesAreKept == Spec => []TypeOK
<1>1. RequestsKept => TypeOK
    BY DEF RequestsKept
<1> QED
    BY <1>1, RequestsAreKept, PTL

-----------------------------------------------------------------------------
(* What it is for *)

(* Each slot is of one fetch. *)
LEMMA SlotsOfCounted ==
    ASSUME NEW s, NEW ts, NEW held, IsFiniteSet(held)
    PROVE  /\ IsFiniteSet(SlotsOf(s, ts, held))
           /\ Cardinality(SlotsOf(s, ts, held)) = Cardinality(held)
<1> DEFINE slots == SlotsOf(s, ts, held)
           slotOf == [f \in held |-> Slot(s, ts, f)]
<1>1. slotOf \in Bijection(held, slots)
    <2>1. slotOf \in [held -> slots]
        BY DEF SlotsOf
    <2>2. \A f, g \in held : slotOf[f] = slotOf[g] => f = g
        BY DEF Slot
    <2>3. \A q \in slots : \E f \in held : slotOf[f] = q
        BY DEF SlotsOf
    <2> QED
        BY <2>1, <2>2, <2>3 DEF Bijection, Injection, Surjection, IsInjective
<1> HIDE DEF slots, slotOf
<1>2. IsFiniteSet(slots) /\ Cardinality(slots) = Cardinality(held)
    <2>1. ExistsBijection(held, slots)
        BY <1>1 DEF ExistsBijection
    <2> QED
        BY <2>1, FS_Bijection
<1> QED
    BY <1>2 DEF slots

LEMMA Together ==
    ASSUME NEW A, NEW B, IsFiniteSet(A), IsFiniteSet(B), \A q \in A : q \notin B
    PROVE  Cardinality(A \cup B) = Cardinality(A) + Cardinality(B)
<1>1. A \cap B = {}
    OBVIOUS
<1>2. Cardinality(A \cup B) = Cardinality(A) + Cardinality(B) - Cardinality(A \cap B)
    BY FS_Union
<1>3. Cardinality(A) \in Nat /\ Cardinality(B) \in Nat
    BY FS_CardinalityType
<1>4. Cardinality(A \cap B) = 0
    BY <1>1, FS_EmptySet
<1> QED
    BY <1>2, <1>3, <1>4

(* The count a scan is held to is of what it sent and of what holds a slot *)
(* while it waits to be sent, over all and for each source, and is never   *)
(* more than it may be.  (cachedFetch, keyedFetch)                         *)
THEOREM BudgetsAreKept == Spec => []RequestsAreCounted
<1>1. ASSUME RequestsKept, NEW s \in Scans
      PROVE  LET held == {f \in Fetches : task[s][f].pc \in Claiming}
                 Of(i) == Cardinality({f \in held : SourceOf[f] = i})
                          + Cardinality({q \in sent[s] : SourceOf[q[2]] = i})
             IN  /\ scan[s].count = Cardinality(sent[s]) + Cardinality(held)
                 /\ scan[s].count <= MaxRequests
                 /\ \A i \in Sources : scan[s].by[i] = Of(i) /\ Of(i) <= MaxRequestsPerSource
    <2> DEFINE held == {f \in Fetches : task[s][f].pc \in Claiming}
               HeldBy(i) == {f \in held : SourceOf[f] = i}
               SentBy(i) == {q \in sent[s] : SourceOf[q[2]] = i}
    <2>1. /\ ValuesOf(s, scan[s], task[s], cache[s], tail[s], sent[s])
          /\ ScanKept(s, scan[s], task[s], cache[s], tail[s], sent[s])
        BY <1>1, Values
    <2>2. SentKept(s, task[s], sent[s]) /\ SlotsKept(s, scan[s], task[s], sent[s])
        BY <2>1 DEF ScanKept
    <2>3. IsFiniteSet(Used(s, task[s], sent[s]))
        BY <2>1, <2>2, UsedFinite
    <2>4. held = Held(task[s]) /\ IsFiniteSet(held) /\ \A i : IsFiniteSet(HeldBy(i))
        <3>1. held \subseteq Fetches /\ \A i : HeldBy(i) \subseteq Fetches
            OBVIOUS
        <3> QED
            BY <3>1, RequestAssumption, FS_Subset DEF Held, RequestAssumption
    <2>5. sent[s] \subseteq Used(s, task[s], sent[s]) /\ \A i : SentBy(i) \subseteq Used(s, task[s], sent[s])
        BY DEF Used
    <2>6. IsFiniteSet(sent[s]) /\ \A i : IsFiniteSet(SentBy(i))
        BY <2>3, <2>5, FS_Subset
    <2>7. \A q \in SlotsOf(s, task[s], held) : q \notin sent[s]
        <3>1. ASSUME NEW f \in held
              PROVE  Slot(s, task[s], f) \notin sent[s]
            BY <2>2 DEF SentKept, Slot, Claiming, Ended
        <3> QED
            BY <3>1 DEF SlotsOf
    <2>8. scan[s].count = Cardinality(sent[s]) + Cardinality(held)
        <3>1. Used(s, task[s], sent[s]) = SlotsOf(s, task[s], held) \cup sent[s]
            BY <2>4 DEF Used
        <3>2. /\ IsFiniteSet(SlotsOf(s, task[s], held))
              /\ Cardinality(SlotsOf(s, task[s], held)) = Cardinality(held)
            BY <2>4, SlotsOfCounted
        <3>3. Cardinality(Used(s, task[s], sent[s])) = Cardinality(SlotsOf(s, task[s], held)) + Cardinality(sent[s])
            BY <2>6, <2>7, <3>1, <3>2, Together
        <3>4. Cardinality(sent[s]) \in Nat /\ Cardinality(held) \in Nat
            BY <2>4, <2>6, FS_CardinalityType
        <3> QED
            BY <2>2, <3>2, <3>3, <3>4 DEF SlotsKept
    <2>9. ASSUME NEW i \in Sources
          PROVE  /\ scan[s].by[i] = Cardinality(HeldBy(i)) + Cardinality(SentBy(i))
                 /\ Cardinality(HeldBy(i)) + Cardinality(SentBy(i)) <= MaxRequestsPerSource
        <3>1. UsedBy(i, s, task[s], sent[s]) = SlotsOf(s, task[s], HeldBy(i)) \cup SentBy(i)
            <4>1. \A q : q \in UsedBy(i, s, task[s], sent[s]) <=>
                    (q \in SlotsOf(s, task[s], held) \/ q \in sent[s]) /\ SourceOf[q[2]] = i
                BY <2>4 DEF UsedBy, Used
            <4>2. \A q : q \in SlotsOf(s, task[s], held) /\ SourceOf[q[2]] = i <=>
                    q \in SlotsOf(s, task[s], HeldBy(i))
                BY DEF SlotsOf, Slot
            <4>3. \A q : q \in SentBy(i) <=> q \in sent[s] /\ SourceOf[q[2]] = i
                OBVIOUS
            <4> HIDE DEF HeldBy, SentBy
            <4> QED
                BY <4>1, <4>2, <4>3
        <3>2. /\ IsFiniteSet(SlotsOf(s, task[s], HeldBy(i)))
              /\ Cardinality(SlotsOf(s, task[s], HeldBy(i))) = Cardinality(HeldBy(i))
            <4>1. IsFiniteSet(HeldBy(i))
                BY <2>4
            <4> HIDE DEF HeldBy
            <4> QED
                BY <4>1, SlotsOfCounted
        <3>3. \A q \in SlotsOf(s, task[s], HeldBy(i)) : q \notin SentBy(i)
            BY <2>7 DEF SlotsOf
        <3>4. Cardinality(UsedBy(i, s, task[s], sent[s])) =
                Cardinality(SlotsOf(s, task[s], HeldBy(i))) + Cardinality(SentBy(i))
            <4>1. IsFiniteSet(SentBy(i))
                BY <2>6
            <4> HIDE DEF HeldBy, SentBy
            <4> QED
                BY <3>1, <3>2, <3>3, <4>1, Together
        <3> QED
            BY <2>2, <3>2, <3>4 DEF SlotsKept
    <2> QED
        BY <2>2, <2>8, <2>9 DEF SlotsKept
<1>2. RequestsKept => RequestsAreCounted
    BY <1>1 DEF RequestsAreCounted
<1> QED
    BY <1>2, RequestsAreKept, PTL

(* A learned board gets no more list requests in a day than it may, over   *)
(* all scans, and each was recorded before it left.                        *)
(* (#reserveLearnedBoardRequest, docs/discovery.md:186)                    *)
THEOREM LearnedBoardsAreSpared == Spec => []LearnedBoardDaily
<1>1. ASSUME RequestsKept, NEW b \in Learned
      PROVE  listed[b] \subseteq log[b] /\ Cardinality(listed[b]) <= DailyLists
    <2>1. IsFiniteSet(log[b]) /\ Cardinality(log[b]) <= DailyLists /\ listed[b] \subseteq log[b]
        BY <1>1 DEF RequestsKept, DayKept
    <2>2. IsFiniteSet(listed[b]) /\ Cardinality(listed[b]) <= Cardinality(log[b])
        BY <2>1, FS_Subset
    <2>3. Cardinality(listed[b]) \in Nat /\ Cardinality(log[b]) \in Nat
        BY <2>1, <2>2, FS_CardinalityType
    <2> QED
        BY <2>1, <2>2, <2>3, BoundsTyped
<1>2. RequestsKept => LearnedBoardDaily
    BY <1>1 DEF LearnedBoardDaily
<1> QED
    BY <1>2, RequestsAreKept, PTL

(* Who is sent in a step: the one that moves on to it. *)
NewlySent(s, f) == task[s][f].pc # "sent" /\ task'[s][f].pc = "sent"

LEMMA SettlingSendsNone ==
    ASSUME TypeOK, NEW u \in Scans, NEW h \in Fetches, NEW result \in Ended, Settle(u, h, result),
           NEW s \in Scans, NEW f \in Fetches
    PROVE  ~NewlySent(s, f)
<1>1. PICK ts \in [Fetches -> Tasks] :
        task' = [task EXCEPT ![u] = ts] /\ Settles(task[u], ts, h, result)
    BY SettleIs
<1>2. CASE s = u
    <2>1. task'[s] = ts
        BY <1>1, <1>2 DEF TypeOK
    <2>2. ts[f].pc = result \/ ts[f].pc = task[s][f].pc
        BY <1>1, <1>2 DEF Settles
    <2> QED
        BY <2>1, <2>2 DEF NewlySent, Ended
<1>3. CASE s # u
    BY <1>1, <1>3 DEF TypeOK, NewlySent
<1> QED
    BY <1>2, <1>3

LEMMA MovingSends ==
    ASSUME TypeOK, NEW u \in Scans, NEW h \in Fetches, NEW t, task' = [task EXCEPT ![u][h] = t],
           NEW s \in Scans, NEW f \in Fetches, NewlySent(s, f)
    PROVE  u = s /\ h = f /\ t.pc = "sent"
BY DEF TypeOK, NewlySent

LEMMA PhaseSends ==
    ASSUME TypeOK, NEW u \in Scans, NEW h \in Fetches, NEW pc \in Running, Moves(u, h, pc),
           NEW s \in Scans, NEW f \in Fetches, NewlySent(s, f)
    PROVE  u = s /\ h = f /\ pc = "sent"
<1>1. PICK ts \in [Fetches -> Tasks], t \in Tasks :
        /\ task' = [task EXCEPT ![u] = ts] /\ Moved(task[u], ts, h, t) /\ Phase(task[u], h, t, pc)
    BY MovesIs
<1>2. /\ task'[u] = ts /\ ts[h].pc = pc /\ \A v \in Scans : v # u => task'[v] = task[v]
      /\ \A g \in Fetches : g # h => ts[g] = task[u][g]
    BY <1>1 DEF TypeOK, Moved, Phase
<1> QED
    BY <1>2 DEF NewlySent

LEMMA JoiningSendsNone ==
    ASSUME TypeOK, NEW u \in Scans, NEW h \in Fetches, NEW g \in Fetches, Joins(u, h, g),
           NEW s \in Scans, NEW f \in Fetches
    PROVE  ~NewlySent(s, f)
<1>1. PICK ts \in [Fetches -> Tasks], t \in Tasks :
        task' = [task EXCEPT ![u] = ts] /\ Moved(task[u], ts, h, t) /\ t.pc = "joined"
    BY JoinsIs
<1>2. /\ task'[u] = ts /\ ts[h].pc = "joined" /\ \A v \in Scans : v # u => task'[v] = task[v]
      /\ \A k \in Fetches : k # h => ts[k] = task[u][k]
    BY <1>1 DEF TypeOK, Moved
<1> QED
    BY <1>2 DEF NewlySent

LEMMA FetchingSends ==
    ASSUME RequestsKept, NEW u \in Scans, NEW h \in Fetches, MayFetch(u, h), CachedFetch(u, h),
           NEW s \in Scans, NEW f \in Paced, NewlySent(s, f)
    PROVE  task[s][f].pc = "pacing"
<1>1. TypeOK /\ f \in Fetches /\ {"reserving", "ledger", "sent"} \subseteq Running
    BY RequestAssumption DEF RequestsKept, RequestAssumption, Running, Claiming
<1>2. PICK g \in Fetches \cup {None} : g = cache[u][UrlOf[h]]
    BY <1>1, NamesOf DEF TypeOK
<1>3. ~ \E result \in Ended : Settle(u, h, result)
    BY <1>1, SettlingSendsNone
<1>4. ~(g # None /\ Joins(u, h, g))
    BY <1>1, JoiningSendsNone
<1>5. "failed" \in Ended
    BY DEF Ended
<1>6. g = None /\ \E pc \in {"reserving", "ledger", "sent"} : Moves(u, h, pc)
    BY <1>2, <1>3, <1>4, <1>5 DEF CachedFetch, Sends
<1>7. u = s /\ h = f
    BY <1>1, <1>6, PhaseSends
<1> QED
    BY <1>2, <1>6, <1>7 DEF MayFetch

(* What leaves for a platform has had its turn. *)
LEMMA SentInTurn ==
    ASSUME RequestsKept, Next, NEW s \in Scans, NEW f \in Paced, NewlySent(s, f)
    PROVE  task[s][f].pc \in {"pacing", "granted"}
<1>1. /\ TypeOK /\ f \in Fetches /\ "failed" \in Ended
      /\ {"pacing", "granted", "sent"} \subseteq Running
    BY RequestAssumption DEF RequestsKept, RequestAssumption, Running, Waiting, Claiming, Ended
<1>2. ~ \E u \in Scans, h \in Fetches, result \in Ended : Settle(u, h, result)
    BY <1>1, SettlingSendsNone
<1>3. ~ \E u \in Scans, h, g \in Fetches : Joins(u, h, g)
    BY <1>1, JoiningSendsNone
<1>4. ASSUME NEW u \in Scans, NEW h \in Fetches, CallDirectly(u, h)
      PROVE  task[s][f].pc \in {"pacing", "granted"}
    <2>1. MayFetch(u, h) /\ CachedFetch(u, h)
        BY <1>4 DEF CallDirectly, MayCall, MayFetch
    <2> QED
        BY <2>1, FetchingSends
<1>5. ASSUME NEW u \in Scans, NEW h \in Fetches, Pace(u, h)
      PROVE  task[s][f].pc \in {"pacing", "granted"}
    <2>1. MayFetch(u, h) /\ CachedFetch(u, h)
        BY <1>5, UnderWay DEF Pace, MayFetch
    <2> QED
        BY <2>1, FetchingSends
<1>6. ASSUME NEW u \in Scans, NEW h \in Fetches, CallPaced(u, h)
      PROVE  FALSE
    <2>1. PICK t : t = [task[u][h] EXCEPT !.pc = "queued", !.on = tail[u][Origin(h)]]
        OBVIOUS
    <2>2. task' = [task EXCEPT ![u][h] = t] /\ t.pc = "queued"
        <3>1. ~ \E g \in Paced : Joins(u, h, g)
            BY <1>3, RequestAssumption DEF RequestAssumption
        <3>2. task' = [task EXCEPT ![u][h].pc = "queued", ![u][h].on = tail[u][Origin(h)]]
            BY <1>6, <3>1 DEF CallPaced
        <3>3. task[u] \in [Fetches -> Tasks] /\ task[u][h] \in Tasks
            BY <1>1 DEF TypeOK
        <3> QED
            BY <1>1, <2>1, <3>2, <3>3 DEF TypeOK, Tasks
    <2> QED
        BY <1>1, <2>2, MovingSends
<1>7. ASSUME NEW u \in Scans, NEW h \in Fetches, TryAgain(u, h)
      PROVE  FALSE
    <2>1. PICK t : t = [NewTask EXCEPT !.tries = 2]
        OBVIOUS
    <2>2. t.pc = "new" /\ task' = [task EXCEPT ![u][h] = t]
        BY <1>7, <2>1 DEF TryAgain, NewTask
    <2> QED
        BY <1>1, <2>2, MovingSends
<1>8. ASSUME NEW u \in Scans, NEW h \in Fetches,
             Turn(u, h) \/ Reserve(u, h) \/ Send(u, h) \/ AskLedger(u, h) \/ Answer(u, h)
      PROVE  task[s][f].pc \in {"pacing", "granted"}
    <2>1. CASE Turn(u, h)
        <3>1. Moves(u, h, "pacing")
            BY <1>1, <1>2, <2>1 DEF Turn
        <3> QED
            BY <1>1, <3>1, PhaseSends
    <2>2. CASE Reserve(u, h)
        <3>1. Moves(u, h, "granted")
            BY <1>1, <1>2, <2>2 DEF Reserve
        <3> QED
            BY <1>1, <3>1, PhaseSends
    <2>3. CASE Send(u, h)
        <3>1. u = s /\ h = f
            BY <1>1, <2>3, PhaseSends DEF Send, Sends
        <3> QED
            BY <2>3, <3>1 DEF Send
    <2>4. CASE AskLedger(u, h)
        <3>1. Moves(u, h, "sent") /\ task[u][h].pc = "ledger"
            BY <1>1, <1>2, <2>4 DEF AskLedger, Sends
        <3>2. u = s /\ h = f
            BY <1>1, <3>1, PhaseSends
        <3>3. f \in Keyed
            <4>1. WaitsKept(task[s])
                BY Values DEF ScanKept
            <4> QED
                BY <1>1, <3>1, <3>2, <4>1 DEF WaitsKept
        <3> QED
            BY <3>3, RequestAssumption DEF RequestAssumption
    <2>5. CASE Answer(u, h)
        BY <1>2, <2>5 DEF Answer
    <2> QED
        BY <1>8, <2>1, <2>2, <2>3, <2>4, <2>5
<1>9. ASSUME NEW u \in Scans, ScanEnds(u)
      PROVE  FALSE
    <2>1. \A v \in Scans : task'[v] = task[v] \/ task'[v] = [k \in Fetches |-> NewTask]
        BY <1>1, <1>9 DEF ScanEnds, TypeOK
    <2> QED
        BY <1>1, <2>1 DEF NewlySent, NewTask
<1>10. ASSUME UNCHANGED task
       PROVE  FALSE
    BY <1>10 DEF NewlySent
<1> QED
    BY <1>4, <1>5, <1>6, <1>7, <1>8, <1>9, <1>10
    DEF Next, FetchSteps, ScanBegins, AdaptersReturn, RecordBackoff, VerificationBegins, TimePasses

(* Once a platform has refused one of a scan's queued requests, no other   *)
(* leaves for it.  (pacedOfficialFetch, docs/discovery.md:186)             *)
THEOREM RefusedPlatformsAreLeftAlone == Spec => BlockedOriginStops
<1>1. ASSUME RequestsKept, [Next]_vars, NEW s \in Scans, NEW f \in Paced, NEW g \in Paced,
             task[s][g].pc = "restricted", Origin(g) = Origin(f), task[s][f].pc # "sent"
      PROVE  task'[s][f].pc # "sent"
    <2>1. SUFFICES ASSUME NewlySent(s, f)
                   PROVE  FALSE
        BY <1>1 DEF NewlySent
    <2>2. Next
        BY <1>1, <2>1 DEF vars, NewlySent
    <2>3. task[s][f].pc \in {"pacing", "granted"}
        BY <1>1, <2>1, <2>2, SentInTurn
    <2>4. BlocksKept(scan[s], task[s])
        BY <1>1, Values DEF ScanKept
    <2> QED
        BY <1>1, <2>3, <2>4 DEF BlocksKept
<1>2. RequestsKept /\ [Next]_vars =>
        [\A s \in Scans : \A f, g \in Paced :
            task[s][g].pc = "restricted" /\ Origin(g) = Origin(f) /\ task[s][f].pc # "sent"
                => task'[s][f].pc # "sent"]_vars
    BY <1>1
<1>3. Spec => [][Next]_vars
    BY PTL DEF Spec
<1> QED
    BY <1>2, <1>3, RequestsAreKept, PTL DEF BlockedOriginStops
=============================================================================
