--------------------------- MODULE CommerceProofs ----------------------------
(***************************************************************************)
(* What holds of Inventory and of Commerce for every value of their        *)
(* constants, by one inductive invariant for both: types, reservations     *)
(* backed by stock, the ledger, its chains and the projections agreeing    *)
(* with the lots, and what the offered receipts list.                      *)
(***************************************************************************)
EXTENDS Commerce, FiniteSetTheorems, TLAPS

-----------------------------------------------------------------------------
(* Tables *)

\* Put keeps a table a table.
LEMMA PutType ==
    ASSUME NEW Keys, NEW Rows, NEW table, IsTable(table, Keys, Rows),
           NEW key \in Keys, NEW row \in Rows
    PROVE  IsTable(Put(table, key, row), Keys, Rows)
BY DEF IsTable, Put

\* Without keeps a table a table.
LEMMA WithoutType ==
    ASSUME NEW Keys, NEW Rows, NEW table, IsTable(table, Keys, Rows), NEW keys
    PROVE  IsTable(Without(table, keys), Keys, Rows)
BY DEF IsTable, Without

\* A table may be empty.
LEMMA EmptyType ==
    ASSUME NEW Keys, NEW Rows
    PROVE  IsTable(EmptyTable, Keys, Rows) /\ DOMAIN EmptyTable = {}
BY DEF IsTable, EmptyTable

-----------------------------------------------------------------------------
(* Sums *)

\* What n adds to a sum of positive values.
Pos(n) == IF n > 0 THEN n ELSE 0

\* What f has at x, if it is there, in Total(f).
Part(f, x) == IF x \in DOMAIN f THEN Pos(f[x]) ELSE 0

\* Joining the units of one value to a set of other units adds that many.
LEMMA AddUnits ==
    ASSUME NEW U, IsFiniteSet(U), NEW a, NEW q \in Int,
           U \cap ({a} \X (1..q)) = {}
    PROVE  /\ IsFiniteSet(U \cup ({a} \X (1..q)))
           /\ Cardinality(U \cup ({a} \X (1..q))) = Cardinality(U) + Pos(q)
<1> DEFINE X == {a} \X (1..q)
<1>1. IsFiniteSet({a}) /\ Cardinality({a}) = 1
  BY FS_Singleton
<1>2. IsFiniteSet(1..q) /\ Cardinality(1..q) = Pos(q)
  <2>1. IsFiniteSet(1..q) /\ Cardinality(1..q) = IF 1 > q THEN 0 ELSE q - 1 + 1
    BY FS_Interval
  <2> QED BY <2>1 DEF Pos
<1>3. IsFiniteSet(X) /\ Cardinality(X) = Pos(q)
  <2> DEFINE A == {a}
             B == 1..q
  <2>1. IsFiniteSet(A) /\ Cardinality(A) = 1 /\ IsFiniteSet(B) /\ Cardinality(B) = Pos(q)
    BY <1>1, <1>2
  <2> HIDE DEF A, B
  <2>2. IsFiniteSet(A \X B) /\ Cardinality(A \X B) = Cardinality(A) * Cardinality(B)
    BY <2>1, FS_Product
  <2>3. Cardinality(A \X B) = Pos(q)
    BY <2>1, <2>2 DEF Pos
  <2> QED BY <2>2, <2>3 DEF A, B
<1>4. /\ IsFiniteSet(U \cup X)
      /\ Cardinality(U \cup X) = Cardinality(U) + Cardinality(X) - Cardinality(U \cap X)
  <2> HIDE DEF X
  <2> QED BY <1>3, FS_Union
<1>5. Cardinality(U \cap X) = 0 /\ Cardinality(U) \in Nat
  <2>1. U \cap X = {}
    OBVIOUS
  <2> HIDE DEF X
  <2> QED BY <2>1, FS_EmptySet, FS_CardinalityType
<1> HIDE DEF X
<1>6. Cardinality(U \cup X) = Cardinality(U) + Pos(q)
  BY <1>3, <1>4, <1>5 DEF Pos
<1> QED
  BY <1>4, <1>6 DEF X

\* Finitely many integers add up to a natural number.
LEMMA TotalType ==
    ASSUME NEW D, IsFiniteSet(D), NEW f \in [D -> Int]
    PROVE  IsFiniteSet(Units(f)) /\ Total(f) \in Nat
<1> DEFINE g == [x \in D |-> {x} \X (1..f[x])]
           T == {{x} \X (1..f[x]) : x \in D}
<1>1. g \in Surjection(D, T)
  BY DEF Surjection
<1>2. IsFiniteSet(T)
  <2> HIDE DEF g, T
  <2> QED BY <1>1, FS_Surjection
<1>3. ASSUME NEW x \in D PROVE IsFiniteSet({x} \X (1..f[x]))
  <2> DEFINE A == {x}
             B == 1..f[x]
  <2>1. IsFiniteSet(A)
    BY FS_Singleton
  <2>2. IsFiniteSet(B)
    <3>1. f[x] \in Int
      OBVIOUS
    <3> HIDE DEF A
    <3> QED BY <3>1, FS_Interval
  <2> HIDE DEF A, B
  <2>3. IsFiniteSet(A \X B)
    BY <2>1, <2>2, FS_Product
  <2> QED BY <2>3 DEF A, B
<1>4. \A S \in T : IsFiniteSet(S)
  BY <1>3
<1>5. Units(f) = UNION T
  BY DEF Units
<1>6. IsFiniteSet(Units(f))
  <2> HIDE DEF T
  <2> QED BY <1>2, <1>4, <1>5, FS_UNION
<1> QED
  BY <1>6, FS_CardinalityType DEF Total

\* An empty sum.
LEMMA TotalEmpty ==
    ASSUME NEW f, DOMAIN f = {}
    PROVE  Total(f) = 0
<1>1. Units(f) = {}
  BY DEF Units
<1> QED
  BY <1>1, FS_EmptySet DEF Total

\* Two sums that agree but at x differ by what each has there.
LEMMA TotalStep ==
    ASSUME NEW D, IsFiniteSet(D), NEW E, NEW f \in [D -> Int], NEW g \in [E -> Int],
           NEW x, D \ {x} = E \ {x}, \A y \in D \ {x} : g[y] = f[y]
    PROVE  /\ Total(f) \in Nat /\ Total(g) \in Nat
           /\ Part(f, x) \in Nat /\ Part(g, x) \in Nat
           /\ Total(g) - Part(g, x) = Total(f) - Part(f, x)
<1> DEFINE Rest == UNION {{y} \X (1..f[y]) : y \in D \ {x}}
<1>1. ASSUME NEW F, NEW h \in [F -> Int], F \ {x} = D \ {x}, \A y \in D \ {x} : h[y] = f[y],
             IsFiniteSet(F)
      PROVE  /\ Total(h) \in Nat /\ Part(h, x) \in Nat
             /\ IsFiniteSet(Rest) /\ Total(h) = Cardinality(Rest) + Part(h, x)
  <2>1. IsFiniteSet(Units(h)) /\ Total(h) \in Nat
    BY <1>1, TotalType
  <2>2. Rest = UNION {{y} \X (1..h[y]) : y \in F \ {x}}
    BY <1>1
  <2>3. Rest \subseteq Units(h)
    BY <2>2 DEF Units
  <2>4. IsFiniteSet(Rest) /\ Cardinality(Rest) \in Nat
    <3> HIDE DEF Rest
    <3> QED BY <2>1, <2>3, FS_Subset, FS_CardinalityType
  <2>5. CASE x \in F
    <3>1. Units(h) = Rest \cup ({x} \X (1..h[x]))
      BY <2>2, <2>5 DEF Units
    <3>2. Rest \cap ({x} \X (1..h[x])) = {}
      OBVIOUS
    <3>3. h[x] \in Int
      BY <1>1, <2>5
    <3> HIDE DEF Rest
    <3>4. Cardinality(Units(h)) = Cardinality(Rest) + Pos(h[x])
      <4> DEFINE q == h[x]
      <4>1. q \in Int /\ IsFiniteSet(Rest) /\ Rest \cap ({x} \X (1..q)) = {}
        BY <2>4, <3>2, <3>3
      <4>2. Units(h) = Rest \cup ({x} \X (1..q))
        BY <3>1
      <4> HIDE DEF q
      <4>3. Cardinality(Rest \cup ({x} \X (1..q))) = Cardinality(Rest) + Pos(q)
        BY <4>1, AddUnits
      <4> QED BY <4>2, <4>3 DEF q
    <3>5. Part(h, x) = Pos(h[x]) /\ Pos(h[x]) \in Nat
      BY <1>1, <2>5, <3>3 DEF Part, Pos
    <3> QED BY <2>1, <2>4, <3>4, <3>5 DEF Total
  <2>6. CASE x \notin F
    <3>1. Units(h) = Rest
      BY <2>2, <2>6 DEF Units
    <3>2. Part(h, x) = 0
      BY <1>1, <2>6 DEF Part
    <3> HIDE DEF Rest
    <3> QED BY <2>1, <2>4, <3>1, <3>2 DEF Total
  <2> QED BY <2>5, <2>6
<1>2. IsFiniteSet(E)
  <2>1. E \subseteq D \cup {x}
    OBVIOUS
  <2>2. IsFiniteSet(D \cup {x})
    BY FS_AddElement
  <2> QED BY <2>1, <2>2, FS_Subset
<1> HIDE DEF Rest
<1>3. /\ Total(f) \in Nat /\ Part(f, x) \in Nat
      /\ IsFiniteSet(Rest) /\ Total(f) = Cardinality(Rest) + Part(f, x)
  BY <1>1
<1>4. /\ Total(g) \in Nat /\ Part(g, x) \in Nat
      /\ Total(g) = Cardinality(Rest) + Part(g, x)
  <2>1. E \ {x} = D \ {x}
    OBVIOUS
  <2> QED BY <1>1, <1>2, <2>1
<1>5. Cardinality(Rest) \in Nat
  BY <1>3, FS_CardinalityType
<1> QED
  BY <1>3, <1>4, <1>5

\* A part of a sum is no more than the sum.
LEMMA TotalPart ==
    ASSUME NEW D, IsFiniteSet(D), NEW E, E \subseteq D, NEW f \in [D -> Int],
           NEW g \in [E -> Int], \A y \in E : g[y] = f[y]
    PROVE  Total(g) <= Total(f)
<1>1. IsFiniteSet(Units(f))
  BY TotalType
<1>2. Units(g) \subseteq Units(f)
  BY DEF Units
<1> QED
  BY <1>1, <1>2, FS_Subset DEF Total

\* What f has at x, if it is there, in Net(f).
Value(f, x) == IF x \in DOMAIN f THEN f[x] ELSE 0

\* The values of f with the opposite sign.
Opposite(f) == [x \in DOMAIN f |-> -f[x]]

\* Finitely many integers add up to an integer.
LEMMA NetType ==
    ASSUME NEW D, IsFiniteSet(D), NEW f \in [D -> Int]
    PROVE  Net(f) \in Int
<1>1. Opposite(f) \in [D -> Int]
  BY DEF Opposite
<1>2. Total(f) \in Nat /\ Total(Opposite(f)) \in Nat
  BY <1>1, TotalType
<1> QED
  BY <1>2 DEF Net, Opposite

\* An empty sum.
LEMMA NetEmpty ==
    ASSUME NEW f, DOMAIN f = {}
    PROVE  Net(f) = 0
<1>1. DOMAIN Opposite(f) = {}
  BY DEF Opposite
<1>2. Total(f) = 0 /\ Total(Opposite(f)) = 0
  BY <1>1, TotalEmpty
<1> QED
  BY <1>2 DEF Net, Opposite

\* Two sums that agree but at x differ by what each has there.
LEMMA NetStep ==
    ASSUME NEW D, IsFiniteSet(D), NEW E, NEW f \in [D -> Int], NEW g \in [E -> Int],
           NEW x, D \ {x} = E \ {x}, \A y \in D \ {x} : g[y] = f[y]
    PROVE  /\ Net(f) \in Int /\ Net(g) \in Int
           /\ Value(f, x) \in Int /\ Value(g, x) \in Int
           /\ Net(g) - Value(g, x) = Net(f) - Value(f, x)
<1> DEFINE p == Opposite(f)
           q == Opposite(g)
<1>0. D \ {x} = E \ {x} /\ \A y \in D \ {x} : g[y] = f[y]
  OBVIOUS
<1>1. /\ p \in [D -> Int] /\ q \in [E -> Int] /\ \A y \in D \ {x} : q[y] = p[y]
      /\ (x \in D => p[x] = -f[x]) /\ (x \in E => q[x] = -g[x])
  BY DEF Opposite
<1>2. Net(f) = Total(f) - Total(p) /\ Net(g) = Total(g) - Total(q)
  BY DEF Net, Opposite
<1> HIDE DEF p, q
<1>3. /\ Total(f) \in Nat /\ Total(g) \in Nat /\ Part(f, x) \in Nat /\ Part(g, x) \in Nat
      /\ Total(g) - Part(g, x) = Total(f) - Part(f, x)
  BY <1>0, TotalStep
<1>4. /\ Total(p) \in Nat /\ Total(q) \in Nat /\ Part(p, x) \in Nat /\ Part(q, x) \in Nat
      /\ Total(q) - Part(q, x) = Total(p) - Part(p, x)
  <2>1. ASSUME NEW u \in [D -> Int], NEW v \in [E -> Int], \A y \in D \ {x} : v[y] = u[y]
        PROVE  /\ Total(u) \in Nat /\ Total(v) \in Nat /\ Part(u, x) \in Nat /\ Part(v, x) \in Nat
               /\ Total(v) - Part(v, x) = Total(u) - Part(u, x)
    BY <1>0, <2>1, TotalStep
  <2> QED BY <1>1, <2>1, Zenon
<1>5. Value(f, x) \in Int /\ Value(f, x) = Part(f, x) - Part(p, x)
  BY <1>1 DEF Value, Part, Pos
<1>6. Value(g, x) \in Int /\ Value(g, x) = Part(g, x) - Part(q, x)
  BY <1>1 DEF Value, Part, Pos
<1> QED
  BY <1>2, <1>3, <1>4, <1>5, <1>6

\* What one more value, or none, adds to a sum.
LEMMA NetMore ==
    ASSUME NEW D, IsFiniteSet(D), NEW h, h \notin D, NEW more \in BOOLEAN, NEW E,
           E = D \cup (IF more THEN {h} ELSE {}),
           NEW f \in [D -> Int], NEW g \in [E -> Int], \A y \in D : g[y] = f[y]
    PROVE  /\ Net(f) \in Int
           /\ Net(g) = Net(f) + (IF more THEN g[h] ELSE 0)
<1>1. D \ {h} = E \ {h} /\ \A y \in D \ {h} : g[y] = f[y]
  OBVIOUS
<1>2. /\ Net(f) \in Int /\ Net(g) \in Int
      /\ Value(f, h) \in Int /\ Value(g, h) \in Int
      /\ Net(g) - Value(g, h) = Net(f) - Value(f, h)
  BY <1>1, NetStep
<1>3. Value(f, h) = 0 /\ Value(g, h) = IF more THEN g[h] ELSE 0
  BY DEF Value
<1> QED
  BY <1>2, <1>3

\* Where no value is negative, the sum is the number of units.
LEMMA NetNat ==
    ASSUME NEW D, IsFiniteSet(D), NEW f \in [D -> Int], \A x \in D : f[x] >= 0
    PROVE  Net(f) = Total(f) /\ Total(f) \in Nat
<1> DEFINE p == Opposite(f)
<1>1. p \in [D -> Int] /\ \A x \in D : p[x] = -f[x]
  BY DEF Opposite
<1>2. Net(f) = Total(f) - Total(p)
  BY DEF Net, Opposite
<1> HIDE DEF p
<1>3. Units(p) = {}
  <2>1. ASSUME NEW x \in D PROVE 1..p[x] = {}
    BY <1>1, <2>1
  <2> QED BY <1>1, <2>1 DEF Units
<1>4. Total(p) = 0
  BY <1>3, FS_EmptySet DEF Total
<1> QED
  BY <1>2, <1>4, TotalType

\* A part of a sum of values that are not negative is no more than the sum.
LEMMA NetPart ==
    ASSUME NEW D, IsFiniteSet(D), NEW E, E \subseteq D, NEW f \in [D -> Int],
           NEW g \in [E -> Int], \A y \in E : g[y] = f[y], \A y \in D : f[y] >= 0
    PROVE  /\ Net(f) \in Nat /\ Net(g) \in Nat
           /\ Net(g) <= Net(f)
<1>1. IsFiniteSet(E) /\ \A y \in E : g[y] >= 0
  BY FS_Subset
<1>2. Net(g) = Total(g) /\ Net(f) = Total(f) /\ Total(f) \in Nat /\ Total(g) \in Nat
  BY <1>1, NetNat
<1> QED
  BY <1>2, TotalPart

\* A sum over two sets apart is the sum of both.
LEMMA NetSplit ==
    ASSUME NEW D, IsFiniteSet(D), NEW E, IsFiniteSet(E), D \cap E = {},
           NEW f \in [D -> Int], NEW g \in [E -> Int], NEW h \in [D \cup E -> Int],
           \A y \in D : h[y] = f[y], \A y \in E : h[y] = g[y]
    PROVE  /\ Net(f) \in Int /\ Net(g) \in Int
           /\ Net(h) = Net(f) + Net(g)
<1> DEFINE part(k, A) == [y \in A |-> k[y]]
           w == Opposite(h)
<1>1. ASSUME NEW k \in [D \cup E -> Int]
      PROVE  Total(k) = Total(part(k, D)) + Total(part(k, E))
  <2> DEFINE a == part(k, D)
             b == part(k, E)
  <2>1. /\ a \in [D -> Int] /\ b \in [E -> Int] /\ (\A y \in D : k[y] = a[y])
        /\ (\A y \in E : k[y] = b[y])
    OBVIOUS
  <2>2. IsFiniteSet(Units(a)) /\ IsFiniteSet(Units(b)) /\ Total(a) \in Nat /\ Total(b) \in Nat
    <3> HIDE DEF a, b
    <3> QED BY <2>1, TotalType
  <2>3. Units(k) = Units(a) \cup Units(b) /\ Units(a) \cap Units(b) = {}
    BY DEF Units
  <2> HIDE DEF a, b
  <2>4. Cardinality(Units(a) \cup Units(b))
          = Cardinality(Units(a)) + Cardinality(Units(b)) - Cardinality(Units(a) \cap Units(b))
    BY <2>2, FS_Union
  <2>5. Cardinality(Units(a) \cap Units(b)) = 0
    BY <2>3, FS_EmptySet
  <2>6. Total(k) = Total(a) + Total(b)
    BY <2>2, <2>3, <2>4, <2>5 DEF Total
  <2> QED BY <2>6 DEF a, b
<1>2. f = part(h, D) /\ g = part(h, E)
  OBVIOUS
<1>3. /\ w \in [D \cup E -> Int]
      /\ Opposite(f) = part(w, D) /\ Opposite(g) = part(w, E)
  BY DEF Opposite
<1>4. /\ Net(f) = Total(f) - Total(Opposite(f)) /\ Net(g) = Total(g) - Total(Opposite(g))
      /\ Net(h) = Total(h) - Total(w)
  BY DEF Net, Opposite
<1> HIDE DEF part, w
<1>5. Total(h) = Total(f) + Total(g) /\ Total(w) = Total(Opposite(f)) + Total(Opposite(g))
  BY <1>1, <1>2, <1>3
<1>6. /\ Total(f) \in Nat /\ Total(Opposite(f)) \in Nat
      /\ Total(g) \in Nat /\ Total(Opposite(g)) \in Nat
  <2>1. Opposite(f) \in [D -> Int] /\ Opposite(g) \in [E -> Int]
    BY DEF Opposite
  <2> QED BY <2>1, TotalType
<1> QED
  BY <1>4, <1>5, <1>6

-----------------------------------------------------------------------------
(* The inductive invariant of the inventory.  It holds of Inventory's own    *)
(* specification and of Commerce's, whose steps are steps of the inventory.  *)

\* What a handler still has to do: lines to reserve; allocations of its tenant
\* to fulfil that are reserved.  Allocations and events are of lots that exist.
Work ==
    /\ job.op = "reserve" => job.todo # <<>>
    /\ job.op = "fulfil" =>
          /\ job.todo # {}
          /\ \A a \in job.todo : /\ a \in DOMAIN allocs /\ allocs[a].status = "reserved"
                                /\ allocs[a].tenant = job.tenant
    /\ \A a \in DOMAIN allocs : /\ allocs[a].lot \in DOMAIN lots
                                /\ allocs[a].status = "reserved" => allocs[a].receipt = {}
    /\ \A i \in DOMAIN events : events[i].lot \in DOMAIN lots

AllocsOf(l) == {a \in DOMAIN allocs : allocs[a].lot = l}

Fulfilled(l) == {a \in AllocsOf(l) : allocs[a].status = "fulfilled"}

\* Whatever fails, a lot promises no more than it has, unless less than nothing
\* was received into it; and what the allocations of it that were fulfilled sold
\* has left it, unless a negative quantity was reserved on it.
Stocked ==
    \A l \in DOMAIN lots :
        /\ lots[l].initial >= 0 => Available(l) >= 0
        /\ Unsigned(l) => Net([a \in Fulfilled(l) |-> allocs[a].qty])
                              <= lots[l].initial - lots[l].onHand

\* The first half of ReservationsBacked; with Stocked it implies the other.
Backed ==
    faults = 0 => \A l \in DOMAIN lots :
        lots[l].reserved = Net([a \in Held(l) |-> allocs[a].qty])

\* Sequence numbers count the stream's events without a gap or a double, and
\* every event links to the one that has the number before its own.
WellChained(log, own) ==
    /\ own # {} => \E m \in own : \A j \in own : log[j].seq <= log[m].seq
    /\ \A i \in own :
          /\ log[i].seq = Cardinality({j \in own : log[j].seq <= log[i].seq})
          /\ \A j \in own : /\ log[j].seq = log[i].seq => j = i
                            /\ log[j].seq = log[i].seq - 1 => log[i].prev = j

Chained(s) == WellChained(events, StreamEvents(s))

\* Every lot's stream has a projection.
Mirrored ==
    faults = 0 /\ ~ForeignPreference => \A l \in DOMAIN lots : StreamOf(l) \in DOMAIN proj

\* Units are reserved on lots of the tenant, and lines wait to be reserved from
\* lots of their own stream.
OwnLots ==
    faults = 0 /\ ~ForeignPreference =>
        /\ \A a \in DOMAIN allocs : lots[allocs[a].lot].tenant = allocs[a].tenant
        /\ job.op = "reserve" => \A i \in DOMAIN job.todo : \A l \in job.todo[i].prefer :
               l \in DOMAIN lots /\ StreamOf(l) = <<job.tenant, job.todo[i].sku>>

\* Every lot has the event of its receipt.
Sourced ==
    faults = 0 => \A l \in DOMAIN lots :
        \E j \in DOMAIN events : events[j].type = "RECEIVE" /\ events[j].lot = l

IInv ==
    /\ TypeOK /\ Work /\ Stocked /\ Backed
    /\ \A s \in Streams : Chained(s)
    /\ LedgerExplainsLots /\ Mirrored /\ OwnLots /\ ProjectionMatchesLots
    /\ Sourced /\ ReceiptTraceable

-----------------------------------------------------------------------------
(* Facts about the event log and the rows of the tables *)

\* A new event of a stream is an event, whatever the log holds.
LEMMA NewEventType ==
    ASSUME events \in Seq(Event), NEW type \in {"RECEIVE", "RESERVE", "SELL"},
           NEW s \in Streams, NEW l \in LotIds, NEW q \in Int,
           NEW keys \in SUBSET OptionalKeys, NEW receipt \in SUBSET Receipts
    PROVE  /\ NewEvent(type, s, l, q, keys, receipt) \in Event
           /\ Append(events, NewEvent(type, s, l, q, keys, receipt)) \in Seq(Event)
<1>1. LastEvent(s) \subseteq DOMAIN events /\ DOMAIN events \subseteq Nat
  BY DEF LastEvent, StreamEvents
<1>2. LastHash(s) \in Nat
  BY <1>1 DEF LastHash, NoHash
<1>3. LastEvent(s) # {} => LastHash(s) \in DOMAIN events
  BY <1>1 DEF LastHash
<1>4. LastSeq(s) + 1 \in Nat
  <2>1. LastEvent(s) # {} => events[LastHash(s)] \in Event
    BY <1>3
  <2>2. LastEvent(s) # {} => events[LastHash(s)].seq \in Nat
    BY <2>1 DEF Event
  <2> QED BY <2>2 DEF LastSeq
<1>5. keys \cup (IF LastHash(s) = NoHash THEN {} ELSE {"prevEventHash"})
         \in SUBSET OptionalKeys
  BY DEF OptionalKeys
<1>6. NewEvent(type, s, l, q, keys, receipt) \in Event
  BY <1>2, <1>4, <1>5 DEF NewEvent, Event
<1> QED
  BY <1>6

\* Setting a field of a row to a value of its type gives a row.
LEMMA RowUpdates ==
    /\ \A row \in Level, x \in Int, n \in Nat :
          /\ [row EXCEPT !.onHand = x] \in Level
          /\ [row EXCEPT !.reserved = x] \in Level
          /\ [row EXCEPT !.available = x] \in Level
          /\ [row EXCEPT !.total = x] \in Level
          /\ [row EXCEPT !.last = n] \in Level
    /\ \A row \in Lot, x \in Int, st \in {"active", "depleted"} :
          /\ [row EXCEPT !.onHand = x] \in Lot
          /\ [row EXCEPT !.reserved = x] \in Lot
          /\ [row EXCEPT !.status = st] \in Lot
    /\ \A row \in Lot : [row EXCEPT !.grn = TRUE] \in Lot
    /\ \A row \in Alloc, r \in SUBSET Receipts :
          /\ [row EXCEPT !.status = "fulfilled"] \in Alloc
          /\ [row EXCEPT !.receipt = r] \in Alloc
    /\ \A row \in Event : [row EXCEPT !.vc = TRUE] \in Event
<1>1. ASSUME NEW row \in Level, NEW x \in Int, NEW n \in Nat
      PROVE  /\ [row EXCEPT !.onHand = x] \in Level
             /\ [row EXCEPT !.reserved = x] \in Level
             /\ [row EXCEPT !.available = x] \in Level
             /\ [row EXCEPT !.total = x] \in Level
             /\ [row EXCEPT !.last = n] \in Level
  BY DEF Level
<1>2. ASSUME NEW row \in Lot, NEW x \in Int, NEW st \in {"active", "depleted"}
      PROVE  /\ [row EXCEPT !.onHand = x] \in Lot
             /\ [row EXCEPT !.reserved = x] \in Lot
             /\ [row EXCEPT !.status = st] \in Lot
  BY DEF Lot
<1>3. ASSUME NEW row \in Alloc, NEW r \in SUBSET Receipts
      PROVE  /\ [row EXCEPT !.status = "fulfilled"] \in Alloc
             /\ [row EXCEPT !.receipt = r] \in Alloc
  BY DEF Alloc
<1>4. ASSUME NEW row \in Event PROVE [row EXCEPT !.vc = TRUE] \in Event
  BY DEF Event
<1>5. ASSUME NEW row \in Lot PROVE [row EXCEPT !.grn = TRUE] \in Lot
  BY DEF Lot
<1> QED
  BY <1>1, <1>2, <1>3, <1>4, <1>5

\* The projection stays a table of levels under each of its updates.
LEMMA ProjectType ==
    ASSUME IsTable(proj, Streams, Level), NEW s \in Streams,
           NEW q \in Int, NEW cost \in Int, NEW hash \in Nat
    PROVE  /\ IsTable(ProjectReceive(s, q, cost, hash), Streams, Level)
           /\ IsTable(ProjectReserve(s, q, hash), Streams, Level)
           /\ IsTable(ProjectSell(s, q, cost, hash), Streams, Level)
<1> DEFINE value == q * cost
<1>1. value \in Int
  OBVIOUS
<1>2. s \in DOMAIN proj => proj[s] \in Level
  BY DEF IsTable
<1>3. IsTable(ProjectReceive(s, q, cost, hash), Streams, Level)
  <2>1. CASE s \in DOMAIN proj
    <3> DEFINE row == [onHand |-> proj[s].onHand + q, reserved |-> proj[s].reserved,
                       available |-> proj[s].onHand - proj[s].reserved,
                       total |-> proj[s].total + value,
                       avg |-> IF proj[s].onHand + q > 0
                               THEN <<proj[s].total + value, proj[s].onHand + q>> ELSE <<0, 1>>,
                       last |-> hash]
    <3>1. row \in Level
      <4> HIDE DEF value
      <4> QED BY <1>1, <1>2, <2>1 DEF Level
    <3>2. ProjectReceive(s, q, cost, hash) = Put(proj, s, row)
      BY <2>1 DEF ProjectReceive
    <3> QED BY <3>1, <3>2, PutType
  <2>2. CASE s \notin DOMAIN proj
    <3> DEFINE row == [onHand |-> q, reserved |-> 0, available |-> q, total |-> value,
                       avg |-> <<cost, 1>>, last |-> hash]
    <3>1. row \in Level
      <4> HIDE DEF value
      <4> QED BY <1>1 DEF Level
    <3>2. ProjectReceive(s, q, cost, hash) = Put(proj, s, row)
      BY <2>2 DEF ProjectReceive
    <3> QED BY <3>1, <3>2, PutType
  <2> QED BY <2>1, <2>2
<1>4. IsTable(ProjectReserve(s, q, hash), Streams, Level)
  <2>1. CASE s \in DOMAIN proj
    <3> DEFINE old == proj[s]
               row == [old EXCEPT !.reserved = @ + q,
                          !.available = old.onHand - (old.reserved + q), !.last = hash]
    <3>1. /\ old.reserved + q \in Int
          /\ old.onHand - (old.reserved + q) \in Int
      BY <1>2, <2>1 DEF Level
    <3>2. row = [[[old EXCEPT !.reserved = old.reserved + q]
                       EXCEPT !.available = old.onHand - (old.reserved + q)]
                       EXCEPT !.last = hash]
      BY Zenon
    <3>3. row \in Level
      <4> HIDE DEF row
      <4> QED BY <1>2, <2>1, <3>1, <3>2, RowUpdates
    <3> QED BY <2>1, <3>3, PutType DEF ProjectReserve
  <2>2. CASE s \notin DOMAIN proj
    BY <2>2 DEF ProjectReserve
  <2> QED BY <2>1, <2>2
<1>5. IsTable(ProjectSell(s, q, cost, hash), Streams, Level)
  <2>1. CASE s \in DOMAIN proj
    <3> DEFINE old == proj[s]
               row == [old EXCEPT !.onHand = @ - q, !.reserved = @ - q,
                          !.available = (old.onHand - q) - (old.reserved - q),
                          !.total = @ - value, !.last = hash]
    <3>1. /\ old.onHand - q \in Int /\ old.reserved - q \in Int
          /\ (old.onHand - q) - (old.reserved - q) \in Int
          /\ old.total - value \in Int
      <4> HIDE DEF value
      <4> QED BY <1>1, <1>2, <2>1 DEF Level
    <3>2. row = [[[[[old EXCEPT !.onHand = old.onHand - q]
                         EXCEPT !.reserved = old.reserved - q]
                         EXCEPT !.available = (old.onHand - q) - (old.reserved - q)]
                         EXCEPT !.total = old.total - value]
                         EXCEPT !.last = hash]
      BY Zenon
    <3>3. row \in Level
      <4> HIDE DEF row, value
      <4> QED BY <1>2, <2>1, <3>1, <3>2, RowUpdates
    <3>4. ProjectSell(s, q, cost, hash) = Put(proj, s, row)
      BY <2>1 DEF ProjectSell
    <3> QED BY <3>3, <3>4, PutType
  <2>2. CASE s \notin DOMAIN proj
    BY <2>2 DEF ProjectSell
  <2> QED BY <2>1, <2>2
<1> QED
  BY <1>3, <1>4, <1>5

-----------------------------------------------------------------------------
(* The type invariant *)

\* The jobs by the handler they belong to.
LEMMA JobKinds ==
    ASSUME job \in {Idle} \cup ReserveJob \cup FulfilJob
    PROVE  /\ job.op = "reserve" => job \in ReserveJob
           /\ job.op = "fulfil" => job \in FulfilJob
           /\ job.op \in {"idle", "reserve", "fulfil"}
           /\ job.op = "idle" <=> job = Idle
BY DEF Idle, ReserveJob, FulfilJob

LEMMA ReceiveType ==
    ASSUME TypeOK, NEW t \in Tenants, NEW k \in Skus, NEW l \in LotIds,
           NEW q \in Int, NEW cost \in Costs, NEW given \in ReceiveOptions,
           NEW at \in 0..MaxTime, NEW vc \in VCChoices, NEW n \in 0..3,
           ReceiveGoods(t, k, l, q, cost, given, at, vc, n)
    PROVE  TypeOK'
<1> DEFINE s == <<t, k>>
           c == IF "unitCost" \in given THEN cost ELSE 0
           e == NewEvent("RECEIVE", s, l, q, given \cup {"currency"}, {})
           row == [tenant |-> t, sku |-> k, initial |-> q, onHand |-> q, reserved |-> 0,
                   cost |-> c, at |-> at, status |-> "active", grn |-> FALSE]
<1>1. s \in Streams /\ q \in Int /\ c \in Int /\ at \in Nat
  BY InventoryAssumption DEF Streams
<1>2. row \in Lot
  <2> HIDE DEF c
  <2> QED BY <1>1 DEF Lot
<1>3. Append(events, e) \in Seq(Event)
  <2>1. given \cup {"currency"} \in SUBSET OptionalKeys
    BY InventoryAssumption DEF OptionalKeys
  <2> QED BY <1>1, <2>1, NewEventType DEF TypeOK
<1>4. Hash(e) \in Nat
  BY DEF Hash, TypeOK
<1>5. IsTable(ProjectReceive(s, q, c, Hash(e)), Streams, Level)
  <2> HIDE DEF s, c, e
  <2> QED BY <1>1, <1>4, ProjectType DEF TypeOK
<1>6. IsTable(Put(lots, l, row), LotIds, Lot)
  <2> HIDE DEF row
  <2> QED BY <1>2, PutType DEF TypeOK
<1>7. /\ lots' = IF n >= 1 THEN Put(lots, l, row) ELSE lots
      /\ events' = IF n >= 2 THEN Append(events, e) ELSE events
      /\ proj' = IF n >= 3 THEN ProjectReceive(s, q, c, Hash(e)) ELSE proj
      /\ offers' = IF n = 3 /\ vc THEN offers \cup {{Hash(e)}} ELSE offers
      /\ Outcome(n, 3)
      /\ UNCHANGED <<allocs, job>>
  BY DEF ReceiveGoods
<1> HIDE DEF s, c, e, row
<1>8. faults' \in 0..MaxFaults
  BY <1>7, InventoryAssumption DEF Outcome, TypeOK
<1> QED
  BY <1>3, <1>4, <1>5, <1>6, <1>7, <1>8 DEF TypeOK

LEMMA ReserveLineType ==
    ASSUME TypeOK, NEW l \in LotIds, NEW a \in AllocIds, NEW n \in 0..4,
           job.op = "reserve" => job.todo # <<>>,
           ReserveLine(l, a, n)
    PROVE  TypeOK'
<1> DEFINE line == Head(job.todo)
           s == <<job.tenant, line.sku>>
           e == NewEvent("RESERVE", s, l, -line.qty, {}, {})
           row == [tenant |-> job.tenant, lot |-> l, cart |-> job.cart, qty |-> line.qty,
                   status |-> "reserved", receipt |-> {}]
           held == [lots[l] EXCEPT !.reserved = @ + line.qty]
<1>1. job \in ReserveJob /\ job.todo # <<>>
  BY JobKinds DEF ReserveLine, TypeOK
<1>2. line \in Line /\ Tail(job.todo) \in Seq(Line)
  BY <1>1 DEF ReserveJob
<1>3. s \in Streams /\ line.qty \in Int /\ -line.qty \in Int
  <2> HIDE DEF line
  <2>1. line.qty \in Quantities /\ line.sku \in Skus
    BY <1>2 DEF Line
  <2>2. line.qty \in Int
    BY <2>1, InventoryAssumption
  <2>3. -line.qty \in Int
    BY <2>2
  <2> QED BY <1>1, <2>1, <2>2, <2>3 DEF Streams, ReserveJob
<1> HIDE DEF line
<1>4. Append(events, e) \in Seq(Event)
  BY <1>3, NewEventType DEF TypeOK
<1>5. Hash(e) \in Nat
  BY DEF Hash, TypeOK
<1>6. IsTable(ProjectReserve(s, line.qty, Hash(e)), Streams, Level)
  <2> HIDE DEF s, e
  <2> QED BY <1>3, <1>5, InventoryAssumption, ProjectType DEF TypeOK
<1>7. IsTable(Put(allocs, a, row), AllocIds, Alloc)
  <2>1. row \in Alloc
    BY <1>1, <1>3 DEF Alloc, ReserveJob
  <2> QED BY <2>1, PutType DEF TypeOK
<1>8. IsTable(Put(lots, l, held), LotIds, Lot)
  <2>1. l \in DOMAIN lots
    BY DEF ReserveLine, LotFor, PreferredLot, FindAvailableLot, Candidates
  <2>2. lots[l] \in Lot
    BY <2>1 DEF TypeOK, IsTable
  <2>3. held \in Lot
    <3>1. lots[l].reserved + line.qty \in Int
      BY <2>2, <1>3 DEF Lot
    <3> QED BY <2>2, <3>1, RowUpdates
  <2> QED BY <2>3, PutType DEF TypeOK
<1>9. job' \in {Idle} \cup ReserveJob
  <2>1. CASE n = 4 /\ Len(job.todo) > 1
    <3>1. job' = [job EXCEPT !.todo = Tail(@)]
      BY <2>1 DEF ReserveLine
    <3> QED BY <1>1, <1>2, <3>1 DEF ReserveJob
  <2>2. CASE ~(n = 4 /\ Len(job.todo) > 1)
    BY <2>2 DEF ReserveLine
  <2> QED BY <2>1, <2>2
<1>10. /\ lots' = IF n >= 1 THEN Put(lots, l, held) ELSE lots
       /\ events' = IF n >= 2 THEN Append(events, e) ELSE events
       /\ allocs' = IF n >= 3 THEN Put(allocs, a, row) ELSE allocs
       /\ proj' = IF n >= 4 THEN ProjectReserve(s, line.qty, Hash(e)) ELSE proj
       /\ Outcome(n, 4)
       /\ UNCHANGED offers
  BY DEF ReserveLine, line
<1> HIDE DEF s, e, row, held
<1>11. faults' \in 0..MaxFaults
  BY <1>10, InventoryAssumption DEF Outcome, TypeOK
<1> QED
  BY <1>4, <1>6, <1>7, <1>8, <1>9, <1>10, <1>11 DEF TypeOK

LEMMA FulfillAllocationType ==
    ASSUME TypeOK, Work, NEW a \in AllocIds, NEW n \in 0..4, FulfillAllocation(a, n)
    PROVE  TypeOK'
<1> DEFINE l == allocs[a].lot
           q == allocs[a].qty
           s == <<job.tenant, lots[l].sku>>
           e == NewEvent("SELL", s, l, -q, {"unitCost", "currency", "actorId"}, {job.receipt})
           sum == job.sold \cup {Hash(e)}
           st == StatusAfter(l, q)
           sold == [lots[l] EXCEPT !.onHand = @ - q, !.reserved = @ - q, !.status = st]
           done == [allocs[a] EXCEPT !.status = "fulfilled", !.receipt = {job.receipt}]
<1>1. job \in FulfilJob /\ a \in DOMAIN allocs
  BY JobKinds DEF FulfillAllocation, TypeOK, Work
<1>2. allocs[a] \in Alloc /\ l \in LotIds /\ q \in Int /\ -q \in Int
  BY <1>1 DEF TypeOK, IsTable, Alloc
<1>3. l \in DOMAIN lots /\ lots[l] \in Lot
  BY <1>1 DEF Work, TypeOK, IsTable
<1> HIDE DEF l, q
<1>4. s \in Streams /\ lots[l].cost \in Int
  BY <1>1, <1>3 DEF Streams, FulfilJob, Lot
<1>5. Append(events, e) \in Seq(Event)
  <2>1. {"unitCost", "currency", "actorId"} \in SUBSET OptionalKeys
    BY DEF OptionalKeys
  <2>2. {job.receipt} \in SUBSET Receipts
    BY <1>1 DEF FulfilJob
  <2> HIDE DEF s
  <2> QED BY <1>2, <1>4, <2>1, <2>2, NewEventType DEF TypeOK
<1>6. Hash(e) \in Nat
  BY DEF Hash, TypeOK
<1>7. IsTable(ProjectSell(s, q, lots[l].cost, Hash(e)), Streams, Level)
  <2> HIDE DEF s, e
  <2> QED BY <1>2, <1>4, <1>6, ProjectType DEF TypeOK
<1>8. IsTable(Put(lots, l, sold), LotIds, Lot)
  <2>1. /\ lots[l].onHand - q \in Int /\ lots[l].reserved - q \in Int
        /\ st \in {"active", "depleted"}
    BY <1>2, <1>3 DEF Lot, StatusAfter
  <2> HIDE DEF st
  <2>2. sold = [[[lots[l] EXCEPT !.onHand = lots[l].onHand - q]
                           EXCEPT !.reserved = lots[l].reserved - q]
                           EXCEPT !.status = st]
    BY Zenon
  <2>3. sold \in Lot
    <3> HIDE DEF sold
    <3> QED BY <1>3, <2>1, <2>2, RowUpdates
  <2> HIDE DEF sold
  <2> QED BY <1>2, <2>3, PutType DEF TypeOK
<1>9. IsTable(Put(allocs, a, done), AllocIds, Alloc)
  <2>1. {job.receipt} \in SUBSET Receipts
    BY <1>1 DEF FulfilJob
  <2>2. done = [[allocs[a] EXCEPT !.status = "fulfilled"] EXCEPT !.receipt = {job.receipt}]
    BY Zenon
  <2>3. done \in Alloc
    <3> HIDE DEF done
    <3> QED BY <1>2, <2>1, <2>2, RowUpdates
  <2> HIDE DEF done
  <2> QED BY <2>3, PutType DEF TypeOK
<1>10. sum \in SUBSET Nat
  BY <1>1, <1>6 DEF FulfilJob
<1>11. job' \in {Idle} \cup FulfilJob
  <2>1. CASE n = 4 /\ job.todo # {a}
    <3> HIDE DEF sum
    <3>1. job' = [job EXCEPT !.todo = job.todo \ {a}, !.sold = sum]
      BY <2>1, Zenon DEF FulfillAllocation, sum, e, s, q, l
    <3>2. job' = [[job EXCEPT !.todo = job.todo \ {a}] EXCEPT !.sold = sum]
      BY <3>1, Zenon
    <3>3. [job EXCEPT !.todo = job.todo \ {a}] \in FulfilJob
      BY <1>1 DEF FulfilJob
    <3>4. \A j \in FulfilJob : [j EXCEPT !.sold = sum] \in FulfilJob
      BY <1>10 DEF FulfilJob
    <3> QED BY <3>2, <3>3, <3>4
  <2>2. CASE ~(n = 4 /\ job.todo # {a})
    BY <2>2 DEF FulfillAllocation
  <2> QED BY <2>1, <2>2
<1>12. /\ lots' = IF n >= 1 THEN Put(lots, l, sold) ELSE lots
       /\ events' = IF n >= 2 THEN Append(events, e) ELSE events
       /\ allocs' = IF n >= 3 THEN Put(allocs, a, done) ELSE allocs
       /\ proj' = IF n >= 4 THEN ProjectSell(s, q, lots[l].cost, Hash(e)) ELSE proj
       /\ offers' = IF n = 4 /\ job.todo = {a} THEN offers \cup {sum} ELSE offers
       /\ Outcome(n, 4)
  BY DEF FulfillAllocation, l, q
<1> HIDE DEF s, e, sum, sold, done
<1>13. faults' \in 0..MaxFaults
  BY <1>12, InventoryAssumption DEF Outcome, TypeOK
<1> QED
  BY <1>5, <1>7, <1>8, <1>9, <1>10, <1>11, <1>12, <1>13 DEF TypeOK

LEMMA OfferAnsweredType ==
    ASSUME TypeOK, NEW o \in offers, NEW ok \in BOOLEAN, OfferAnswered(o, ok)
    PROVE  TypeOK'
<1>1. events' \in Seq(Event)
  <2>1. CASE ok
    <3> DEFINE f == [i \in DOMAIN events |->
                       IF i \in o THEN [events[i] EXCEPT !.vc = TRUE] ELSE events[i]]
    <3>1. PICK m \in Nat : events \in [1..m -> Event]
      BY DEF TypeOK
    <3>2. \A i \in 1..m : f[i] \in Event
      BY <3>1, RowUpdates
    <3>3. f \in [1..m -> Event]
      BY <3>1, <3>2
    <3>4. events' = f
      BY <2>1 DEF OfferAnswered
    <3> HIDE DEF f
    <3> QED BY <3>3, <3>4
  <2>2. CASE ~ok
    BY <2>2 DEF OfferAnswered, TypeOK
  <2> QED BY <2>1, <2>2
<1>2. IsTable(lots', LotIds, Lot)
  <2>1. CASE ok
    <3> DEFINE anchored(l) == \E i \in o \cap DOMAIN events :
                                 events[i].type = "RECEIVE" /\ events[i].lot = l
    <3>1. lots' = [l \in DOMAIN lots |-> IF anchored(l) THEN [lots[l] EXCEPT !.grn = TRUE]
                                         ELSE lots[l]]
      BY <2>1 DEF OfferAnswered
    <3>2. \A l \in DOMAIN lots : lots[l] \in Lot /\ [lots[l] EXCEPT !.grn = TRUE] \in Lot
      BY RowUpdates DEF TypeOK, IsTable
    <3> HIDE DEF anchored
    <3> QED BY <3>1, <3>2 DEF IsTable, TypeOK
  <2>2. CASE ~ok
    BY <2>2 DEF OfferAnswered, TypeOK
  <2> QED BY <2>1, <2>2
<1> QED
  BY <1>1, <1>2 DEF OfferAnswered, TypeOK

-----------------------------------------------------------------------------
(* The log and its chains *)

\* Appending to the log adds one position, and leaves the events before it.
LEMMA Appended ==
    ASSUME events \in Seq(Event), NEW e, events' = Append(events, e)
    PROVE  /\ Len(events) + 1 \notin DOMAIN events
           /\ DOMAIN events' = DOMAIN events \cup {Len(events) + 1}
           /\ \A i \in DOMAIN events : events'[i] = events[i] /\ events[i] \in Event
           /\ events'[Len(events) + 1] = e
           /\ \A i \in DOMAIN events : i \in Nat /\ i >= 1 /\ i <= Len(events)
           /\ Len(events) \in Nat
OBVIOUS

\* The log is finite, and so is every set of its events.
LEMMA FiniteLog ==
    ASSUME events \in Seq(Event)
    PROVE  /\ IsFiniteSet(DOMAIN events)
           /\ \A S \in SUBSET DOMAIN events : IsFiniteSet(S) /\ Cardinality(S) \in Nat
<1>1. Len(events) \in Nat /\ DOMAIN events = 1..Len(events)
  OBVIOUS
<1>2. IsFiniteSet(DOMAIN events)
  <2> DEFINE n == Len(events)
  <2>1. n \in Int /\ 1 \in Int /\ DOMAIN events = 1..n
    BY <1>1
  <2> HIDE DEF n
  <2> QED BY <2>1, FS_Interval
<1> QED
  BY <1>2, FS_Subset, FS_CardinalityType

\* The tables are finite as well.
LEMMA FiniteTables ==
    ASSUME TypeOK
    PROVE  /\ \A S \in SUBSET DOMAIN allocs : IsFiniteSet(S)
           /\ \A S \in SUBSET DOMAIN lots : IsFiniteSet(S)
<1>1. DOMAIN allocs \subseteq AllocIds /\ DOMAIN lots \subseteq LotIds
  BY DEF TypeOK, IsTable
<1>2. IsFiniteSet(AllocIds) /\ IsFiniteSet(LotIds)
  BY InventoryAssumption
<1>3. IsFiniteSet(DOMAIN allocs) /\ IsFiniteSet(DOMAIN lots)
  BY <1>1, <1>2, FS_Subset
<1> QED
  BY <1>3, FS_Subset

\* A chain whose events keep their numbers and links is a chain.
LEMMA SameChain ==
    ASSUME NEW log, NEW next, NEW own, WellChained(log, own),
           \A i \in own : next[i].seq = log[i].seq /\ next[i].prev = log[i].prev
    PROVE  WellChained(next, own)
<1>1. \A i \in own : {j \in own : next[j].seq <= next[i].seq}
                     = {j \in own : log[j].seq <= log[i].seq}
  OBVIOUS
<1>2. own # {} => \E m \in own : \A j \in own : next[j].seq <= next[m].seq
  <2> SUFFICES ASSUME own # {}
               PROVE  \E m \in own : \A j \in own : next[j].seq <= next[m].seq
    OBVIOUS
  <2>1. PICK m \in own : \A j \in own : log[j].seq <= log[m].seq
    BY DEF WellChained
  <2>2. \A j \in own : next[j].seq <= next[m].seq
    BY <2>1
  <2> QED BY <2>2
<1>3. ASSUME NEW i \in own
      PROVE  next[i].seq = Cardinality({j \in own : next[j].seq <= next[i].seq})
  BY <1>1 DEF WellChained
<1>4. ASSUME NEW i \in own, NEW j \in own
      PROVE  /\ next[j].seq = next[i].seq => j = i
             /\ next[j].seq = next[i].seq - 1 => next[i].prev = j
  <2>1. /\ log[j].seq = log[i].seq => j = i
        /\ log[j].seq = log[i].seq - 1 => log[i].prev = j
    BY DEF WellChained
  <2>2. /\ next[i].seq = log[i].seq /\ next[i].prev = log[i].prev
        /\ next[j].seq = log[j].seq
    OBVIOUS
  <2> QED BY <2>1, <2>2
<1> QED
  BY <1>2, <1>3, <1>4 DEF WellChained

\* An event with the next number, linked to the last one, goes on with a chain.
LEMMA ExtendChain ==
    ASSUME NEW log, NEW next, NEW own, IsFiniteSet(own), WellChained(log, own),
           NEW last \in Nat, last = Cardinality(own),
           \A i \in own : log[i].seq \in Nat /\ log[i].seq <= last,
           \A i \in own : next[i] = log[i],
           NEW h, h \notin own, next[h].seq = last + 1,
           own # {} => next[h].prev \in own /\ log[next[h].prev].seq = last
    PROVE  WellChained(next, own \cup {h})
<1> DEFINE all == own \cup {h}
<1>1. \A i \in own : next[i].seq \in Nat /\ next[i].seq < next[h].seq
  OBVIOUS
<1>2. \A j \in all : next[j].seq <= next[h].seq
  BY <1>1
<1>3. next[h].seq = Cardinality({j \in all : next[j].seq <= next[h].seq})
  <2>1. {j \in all : next[j].seq <= next[h].seq} = all
    BY <1>2
  <2>2. Cardinality(all) = Cardinality(own) + 1
    BY FS_AddElement
  <2> QED BY <2>1, <2>2
<1>4. ASSUME NEW i \in own
      PROVE  next[i].seq = Cardinality({j \in all : next[j].seq <= next[i].seq})
  <2>1. ~(next[h].seq <= next[i].seq)
    BY <1>1
  <2>2. {j \in all : next[j].seq <= next[i].seq} = {j \in own : log[j].seq <= log[i].seq}
    BY <2>1
  <2>3. log[i].seq = Cardinality({j \in own : log[j].seq <= log[i].seq})
    BY DEF WellChained
  <2> QED BY <2>2, <2>3
<1>5. ASSUME NEW i \in all, NEW j \in all, next[j].seq = next[i].seq PROVE j = i
  <2>1. CASE i \in own /\ j \in own
    <3>1. log[j].seq = log[i].seq
      BY <1>5, <2>1
    <3> QED BY <2>1, <3>1 DEF WellChained
  <2>2. CASE i = h \/ j = h
    BY <1>1, <1>5, <2>2
  <2> QED BY <2>1, <2>2
<1>6. ASSUME NEW i \in all, NEW j \in all, next[j].seq = next[i].seq - 1
      PROVE  next[i].prev = j
  <2>1. CASE i \in own /\ j \in own
    <3>1. log[j].seq = log[i].seq - 1
      BY <1>6, <2>1
    <3>2. log[i].prev = j
      BY <2>1, <3>1 DEF WellChained
    <3> QED BY <2>1, <3>2
  <2>2. CASE i = h /\ j \in own
    <3>1. log[j].seq = last
      BY <1>6, <2>2
    <3>2. next[h].prev \in own /\ log[next[h].prev].seq = last
      BY <2>2
    <3>3. j = next[h].prev
      BY <2>2, <3>1, <3>2 DEF WellChained
    <3> QED BY <2>2, <3>3
  <2>3. CASE j = h
    <3>1. next[i].seq = next[h].seq + 1 /\ next[i].seq \in Nat
      BY <1>1, <1>6, <2>3
    <3> QED BY <1>2, <3>1
  <2> QED BY <2>1, <2>2, <2>3
<1>7. \A i \in all : next[i].seq = Cardinality({j \in all : next[j].seq <= next[i].seq})
  <2> SUFFICES ASSUME NEW i \in all
               PROVE  next[i].seq = Cardinality({j \in all : next[j].seq <= next[i].seq})
    OBVIOUS
  <2>1. CASE i = h
    BY <1>3, <2>1
  <2>2. CASE i \in own
    BY <1>4, <2>2
  <2> QED BY <2>1, <2>2
<1>8. h \in all
  OBVIOUS
<1> HIDE DEF all
<1>9. \A i \in all : \A j \in all : /\ next[j].seq = next[i].seq => j = i
                                    /\ next[j].seq = next[i].seq - 1 => next[i].prev = j
  BY <1>5, <1>6
<1>10. WellChained(next, all)
  BY <1>2, <1>7, <1>8, <1>9 DEF WellChained
<1> QED
  BY <1>10 DEF all

\* The last event of a chain has the number of events of the stream, and no
\* event of it has a greater one.
LEMMA ChainEnd ==
    ASSUME events \in Seq(Event), NEW s, Chained(s)
    PROVE  /\ LastSeq(s) = Cardinality(StreamEvents(s)) /\ LastSeq(s) \in Nat
           /\ \A i \in StreamEvents(s) : events[i].seq \in Nat /\ events[i].seq <= LastSeq(s)
           /\ StreamEvents(s) # {} => /\ LastHash(s) \in StreamEvents(s)
                                      /\ events[LastHash(s)].seq = LastSeq(s)
<1> DEFINE own == StreamEvents(s)
<1>1. own \subseteq DOMAIN events /\ IsFiniteSet(own) /\ Cardinality(own) \in Nat
  BY FiniteLog DEF StreamEvents
<1>2. \A i \in own : events[i].seq \in Nat
  <2>1. \A i \in own : events[i] \in Event
    BY <1>1
  <2> QED BY <2>1 DEF Event
<1>3. CASE own = {}
  <2>1. LastEvent(s) = {}
    BY <1>3 DEF LastEvent
  <2> QED BY <1>3, <2>1, FS_EmptySet DEF LastSeq
<1>4. CASE own # {}
  <2> DEFINE m == LastHash(s)
  <2>1. LastEvent(s) # {}
    BY <1>4 DEF Chained, WellChained, LastEvent
  <2>2. m \in LastEvent(s)
    BY <2>1 DEF LastHash
  <2>3. m \in own /\ \A j \in own : events[j].seq <= events[m].seq
    BY <2>2 DEF LastEvent
  <2>4. LastSeq(s) = events[m].seq
    BY <2>1 DEF LastSeq
  <2>5. events[m].seq = Cardinality({j \in own : events[j].seq <= events[m].seq})
    BY <2>3 DEF Chained, WellChained
  <2>6. {j \in own : events[j].seq <= events[m].seq} = own
    BY <2>3
  <2>7. events[m].seq = Cardinality(own)
    BY <2>5, <2>6
  <2> QED BY <1>1, <1>2, <2>3, <2>4, <2>7
<1> QED
  BY <1>3, <1>4

\* A new event goes on from the end of its chain, and leaves the other chains.
LEMMA ChainAppend ==
    ASSUME events \in Seq(Event), \A x \in Streams : Chained(x),
           NEW type \in {"RECEIVE", "RESERVE", "SELL"}, NEW s \in Streams,
           NEW l \in LotIds, NEW q \in Int, NEW keys \in SUBSET OptionalKeys,
           NEW receipt \in SUBSET Receipts,
           events' = Append(events, NewEvent(type, s, l, q, keys, receipt))
    PROVE  /\ \A x \in Streams : Chained(x)'
           /\ LastHash(s)' = Len(events) + 1
           /\ \A x \in Streams : x # s => LastHash(x)' = LastHash(x)
<1> DEFINE e == NewEvent(type, s, l, q, keys, receipt)
           h == Len(events) + 1
<1>1. e.stream = s /\ e.seq = LastSeq(s) + 1 /\ e.prev = LastHash(s) /\ e \in Event
  BY NewEventType DEF NewEvent
<1> HIDE DEF e
<1>2. /\ h \notin DOMAIN events /\ DOMAIN events' = DOMAIN events \cup {h}
      /\ \A i \in DOMAIN events : events'[i] = events[i] /\ events[i] \in Event
      /\ events'[h] = e
  <2>1. events' = Append(events, e)
    BY DEF e
  <2> QED BY <2>1, Appended
<1>3. ASSUME NEW x \in Streams, x # s
      PROVE  Chained(x)' /\ LastHash(x)' = LastHash(x)
  <2> HIDE DEF h
  <2>1. StreamEvents(x)' = StreamEvents(x)
    BY <1>1, <1>2, <1>3 DEF StreamEvents
  <2>2. \A i \in StreamEvents(x) : events'[i] = events[i]
    BY <1>2 DEF StreamEvents
  <2>3. LastEvent(x)' = LastEvent(x)
    BY <2>1, <2>2 DEF LastEvent
  <2>4. LastHash(x)' = LastHash(x)
    BY <2>3 DEF LastHash
  <2>5. WellChained(events, StreamEvents(x))
    BY DEF Chained
  <2>6. WellChained(events', StreamEvents(x))
    <3> DEFINE own == StreamEvents(x)
               next == events'
    <3>1. WellChained(events, own) /\ \A i \in own : next[i] = events[i]
      BY <2>2, <2>5
    <3> HIDE DEF own, next
    <3>2. WellChained(next, own)
      BY <3>1, SameChain
    <3> QED BY <3>2 DEF own, next
  <2>7. Chained(x)'
    BY <2>1, <2>6 DEF Chained
  <2> QED BY <2>4, <2>7
<1>4. Chained(s)' /\ LastHash(s)' = h
  <2>1. /\ LastSeq(s) = Cardinality(StreamEvents(s)) /\ LastSeq(s) \in Nat
        /\ \A i \in StreamEvents(s) : events[i].seq \in Nat /\ events[i].seq <= LastSeq(s)
        /\ StreamEvents(s) # {} => /\ LastHash(s) \in StreamEvents(s)
                                   /\ events[LastHash(s)].seq = LastSeq(s)
    BY ChainEnd
  <2> DEFINE own == StreamEvents(s)
             last == LastSeq(s)
             next == events'
  <2> SUFFICES ASSUME NEW g, g = h PROVE Chained(s)' /\ LastHash(s)' = g
    OBVIOUS
  <2>2. StreamEvents(s)' = own \cup {g} /\ g \notin own
    <3> HIDE DEF h
    <3> QED BY <1>1, <1>2 DEF StreamEvents
  <2>3. \A i \in own : next[i] = events[i]
    BY <1>2 DEF StreamEvents
  <2>4. IsFiniteSet(own)
    BY FiniteLog DEF StreamEvents
  <2>5. WellChained(events, own)
    BY DEF Chained
  <2>6. next[g].seq = last + 1 /\ next[g].prev = LastHash(s)
    BY <1>1, <1>2
  <2>7. /\ last \in Nat /\ last = Cardinality(own)
        /\ \A i \in own : events[i].seq \in Nat /\ events[i].seq <= last
        /\ own # {} => next[g].prev \in own /\ events[next[g].prev].seq = last
    BY <2>1, <2>6
  <2> HIDE DEF own, last, next, h
  <2>8. WellChained(next, own \cup {g})
    BY <2>2, <2>3, <2>4, <2>5, <2>6, <2>7, ExtendChain
  <2>9. Chained(s)'
    BY <2>2, <2>8 DEF Chained, next
  <2>10. ASSUME NEW i \in own \cup {g}
         PROVE  /\ next[i].seq <= next[g].seq
                /\ i # g => ~(next[g].seq <= next[i].seq)
    <3>1. CASE i = g
      BY <2>6, <2>7, <3>1
    <3>2. CASE i \in own
      <4>1. next[i].seq = events[i].seq
        BY <2>3, <3>2
      <4> QED BY <2>6, <2>7, <3>2, <4>1
    <3> QED BY <3>1, <3>2
  <2>11. LastHash(s)' = g
    <3>1. {i \in own \cup {g} : \A j \in own \cup {g} : next[j].seq <= next[i].seq} = {g}
      BY <2>10
    <3>2. LastEvent(s)' = {g}
      BY <2>2, <3>1 DEF LastEvent, next
    <3> QED BY <3>2 DEF LastHash
  <2> QED BY <2>9, <2>11
<1> QED
  BY <1>3, <1>4

\* In a chain that is read whole, verifyEventChain finds no wrong link or number.
LEMMA ChainVerifies ==
    ASSUME events \in Seq(Event), NEW s, Chained(s),
           Cardinality(StreamEvents(s)) <= VerifyLimit
    PROVE  LinkErrors(Read(s)) = {} /\ SequenceErrors(Read(s)) = {}
<1> DEFINE own == StreamEvents(s)
<1>1. IsFiniteSet(own) /\ own \subseteq DOMAIN events
  BY FiniteLog DEF StreamEvents
<1>2. \A i \in own : events[i].seq \in Nat
  <2>1. \A i \in own : events[i] \in Event
    BY <1>1
  <2> QED BY <2>1 DEF Event
<1>3. ASSUME NEW i \in own
      PROVE  Cardinality({j \in own : events[j].seq > events[i].seq}) < VerifyLimit
  <2> DEFINE later == {j \in own : events[j].seq > events[i].seq}
  <2>1. later \subseteq own \ {i}
    BY <1>2
  <2>2. IsFiniteSet(own \ {i}) /\ Cardinality(own \ {i}) = Cardinality(own) - 1
    <3> HIDE DEF own
    <3> QED BY <1>1, FS_RemoveElement
  <2>3. Cardinality(later) <= Cardinality(own \ {i}) /\ IsFiniteSet(later)
    <3> HIDE DEF own, later
    <3> QED BY <2>1, <2>2, FS_Subset
  <2>4. Cardinality(own) \in Nat /\ Cardinality(later) \in Nat
    BY <1>1, <2>3, FS_CardinalityType
  <2> QED BY <2>2, <2>3, <2>4, InventoryAssumption
<1>4. Read(s) = own
  BY <1>3 DEF Read
<1>5. SequenceErrors(own) = {}
  BY DEF SequenceErrors, Chained, WellChained, Position
<1>6. LinkErrors(own) = {}
  <2> SUFFICES ASSUME NEW i \in own, NEW j \in own, Position(own, j) = Position(own, i) - 1
               PROVE  events[i].prev = j
    BY DEF LinkErrors
  <2>1. events[j].seq = events[i].seq - 1
    BY DEF Chained, WellChained, Position
  <2> QED BY <2>1 DEF Chained, WellChained
<1> QED
  BY <1>4, <1>5, <1>6

-----------------------------------------------------------------------------
(* Steps that change no quantity *)

\* The events keep everything but vc.
LogKept ==
    /\ DOMAIN events' = DOMAIN events
    /\ \A i \in DOMAIN events :
          /\ events'[i].type = events[i].type /\ events'[i].stream = events[i].stream
          /\ events'[i].lot = events[i].lot /\ events'[i].qty = events[i].qty
          /\ events'[i].seq = events[i].seq /\ events'[i].prev = events[i].prev
          /\ events'[i].receipt = events[i].receipt

\* The lots keep everything but grn.
StockKept ==
    /\ DOMAIN lots' = DOMAIN lots
    /\ \A l \in DOMAIN lots :
          /\ lots'[l].tenant = lots[l].tenant /\ lots'[l].sku = lots[l].sku
          /\ lots'[l].initial = lots[l].initial /\ lots'[l].cost = lots[l].cost
          /\ lots'[l].onHand = lots[l].onHand /\ lots'[l].reserved = lots[l].reserved

\* Kept events keep their chains.
LEMMA KeptChains ==
    ASSUME LogKept, NEW s, Chained(s)
    PROVE  Chained(s)' /\ LastHash(s)' = LastHash(s)
<1>1. StreamEvents(s)' = StreamEvents(s)
  BY DEF StreamEvents, LogKept
<1>2. \A i \in StreamEvents(s) :
         events'[i].seq = events[i].seq /\ events'[i].prev = events[i].prev
  BY DEF StreamEvents, LogKept
<1>3. LastEvent(s)' = LastEvent(s)
  BY <1>1, <1>2 DEF LastEvent
<1>4. WellChained(events', StreamEvents(s))
  <2> DEFINE own == StreamEvents(s)
             next == events'
  <2>1. WellChained(events, own)
    BY DEF Chained
  <2>2. \A i \in own : next[i].seq = events[i].seq /\ next[i].prev = events[i].prev
    BY <1>2
  <2> HIDE DEF own, next
  <2>3. WellChained(next, own)
    BY <2>1, <2>2, SameChain
  <2> QED BY <2>3 DEF own, next
<1> QED
  BY <1>1, <1>3, <1>4 DEF Chained, LastHash

\* Kept events and allocations leave a receipt settled, and trace it as before.
LEMMA KeptSales ==
    ASSUME LogKept, allocs' = allocs, NEW r
    PROVE  Sales(r)' = Sales(r) /\ (Settled(r) => Settled(r)')
<1>1. Sales(r)' = Sales(r)
  BY DEF Sales, LogKept
<1>2. ASSUME NEW l
      PROVE  /\ [i \in SalesFrom(r, l) |-> -events[i].qty]'
                  = [i \in SalesFrom(r, l) |-> -events[i].qty]
             /\ [a \in PaidFrom(r, l) |-> allocs[a].qty]'
                  = [a \in PaidFrom(r, l) |-> allocs[a].qty]
  <2>1. SalesFrom(r, l)' = SalesFrom(r, l)
    BY <1>1 DEF SalesFrom, Sales, LogKept
  <2>2. \A i \in SalesFrom(r, l) : -events'[i].qty = -events[i].qty
    BY DEF SalesFrom, Sales, LogKept
  <2>3. PaidFrom(r, l)' = PaidFrom(r, l)
    BY DEF PaidFrom
  <2> QED BY <2>1, <2>2, <2>3
<1>3. Settled(r) => Settled(r)'
  BY <1>2 DEF Settled
<1> QED
  BY <1>1, <1>3

\* A step that keeps the quantities of every table keeps the invariant.
LEMMA KeptIInv ==
    ASSUME IInv, LogKept, StockKept, allocs' = allocs, proj' = proj,
           faults' = 0 => faults = 0, TypeOK', Work', OwnLots'
    PROVE  IInv'
<1>1. Stocked'
  <2> SUFFICES ASSUME NEW l \in DOMAIN lots'
               PROVE  /\ lots'[l].initial >= 0 => Available(l)' >= 0
                      /\ Unsigned(l)' =>
                            Net([a \in Fulfilled(l) |-> allocs[a].qty])'
                                <= lots'[l].initial - lots'[l].onHand
    BY DEF Stocked
  <2>1. /\ l \in DOMAIN lots /\ Available(l)' = Available(l)
        /\ lots'[l].initial = lots[l].initial /\ lots'[l].onHand = lots[l].onHand
    BY DEF StockKept, Available
  <2>2. /\ [a \in Fulfilled(l) |-> allocs[a].qty]' = [a \in Fulfilled(l) |-> allocs[a].qty]
        /\ Unsigned(l)' = Unsigned(l)
    BY DEF AllocsOf, Fulfilled, Unsigned
  <2> QED BY <2>1, <2>2 DEF IInv, Stocked
<1>2. Backed'
  <2> SUFFICES ASSUME faults' = 0, NEW l \in DOMAIN lots'
               PROVE  lots'[l].reserved = Net([a \in Held(l) |-> allocs[a].qty])'
    BY DEF Backed
  <2>1. l \in DOMAIN lots /\ lots'[l].reserved = lots[l].reserved
    BY DEF StockKept
  <2>2. [a \in Held(l) |-> allocs[a].qty]' = [a \in Held(l) |-> allocs[a].qty]
    BY DEF Held
  <2> QED BY <2>1, <2>2 DEF IInv, Backed
<1>3. \A s \in Streams : Chained(s)' /\ LastHash(s)' = LastHash(s)
  BY KeptChains DEF IInv
<1>4. LedgerExplainsLots'
  <2> SUFFICES ASSUME faults' = 0, NEW l \in DOMAIN lots' PROVE LedgerExplains(l)'
    BY DEF LedgerExplainsLots
  <2>1. l \in DOMAIN lots /\ lots'[l].onHand = lots[l].onHand
    BY DEF StockKept
  <2>2. Moves(l)' = Moves(l)
    BY DEF Moves, LogKept
  <2>3. \A i \in Moves(l) : events'[i].qty = events[i].qty
    BY DEF Moves, LogKept
  <2>4. [i \in Moves(l) |-> events[i].qty]' = [i \in Moves(l) |-> events[i].qty]
    BY <2>2, <2>3
  <2>5. LedgerExplains(l)
    BY <2>1 DEF IInv, LedgerExplainsLots
  <2> QED BY <2>1, <2>4, <2>5 DEF LedgerExplains
<1>5. \A l \in DOMAIN lots : StreamOf(l)' = StreamOf(l)
  BY DEF StreamOf, StockKept
<1>6. Mirrored'
  BY <1>5 DEF IInv, Mirrored, StockKept
<1>7. ProjectionMatchesLots'
  <2> SUFFICES ASSUME faults' = 0, ~ForeignPreference, NEW s \in DOMAIN proj'
               PROVE  ProjectionAgrees(s)'
    BY DEF ProjectionMatchesLots
  <2>1. ProjectionAgrees(s) /\ s \in Streams
    BY DEF IInv, ProjectionMatchesLots, TypeOK, IsTable
  <2>2. StreamLots(s)' = StreamLots(s) /\ StreamLots(s) \subseteq DOMAIN lots
    BY <1>5 DEF StreamLots, StockKept
  <2>3. \A l \in StreamLots(s) :
           /\ lots'[l].onHand = lots[l].onHand /\ lots'[l].reserved = lots[l].reserved
           /\ lots'[l].cost = lots[l].cost
    BY <2>2 DEF StockKept
  <2>4. /\ [l \in StreamLots(s) |-> lots[l].onHand]' = [l \in StreamLots(s) |-> lots[l].onHand]
        /\ [l \in StreamLots(s) |-> lots[l].reserved]' = [l \in StreamLots(s) |-> lots[l].reserved]
        /\ [l \in StreamLots(s) |-> lots[l].onHand * lots[l].cost]'
             = [l \in StreamLots(s) |-> lots[l].onHand * lots[l].cost]
    BY <2>2, <2>3
  <2>5. LastHash(s)' = LastHash(s)
    BY <1>3, <2>1
  <2> QED BY <2>1, <2>4, <2>5 DEF ProjectionAgrees
<1>8. Sourced'
  BY DEF IInv, Sourced, StockKept, LogKept
<1>9. ReceiptTraceable'
  <2> SUFFICES ASSUME faults' = 0, NEW r \in Receipts
               PROVE  /\ Settled(r)'
                      /\ \A i \in Sales(r)' : \E j \in 1..(i - 1) :
                            events'[j].type = "RECEIVE" /\ events'[j].lot = events'[i].lot
    BY DEF ReceiptTraceable
  <2>1. /\ Settled(r)
        /\ \A i \in Sales(r) : \E j \in 1..(i - 1) :
              events[j].type = "RECEIVE" /\ events[j].lot = events[i].lot
    BY DEF IInv, ReceiptTraceable
  <2>2. Sales(r)' = Sales(r) /\ Settled(r)'
    BY <2>1, KeptSales
  <2>3. ASSUME NEW i \in Sales(r)
        PROVE  \E j \in 1..(i - 1) :
                   events'[j].type = "RECEIVE" /\ events'[j].lot = events'[i].lot
    <3>1. PICK j \in 1..(i - 1) : events[j].type = "RECEIVE" /\ events[j].lot = events[i].lot
      BY <2>1
    <3>2. i \in DOMAIN events /\ DOMAIN events = 1..Len(events) /\ Len(events) \in Nat
      BY DEF Sales, IInv, TypeOK
    <3>3. j \in DOMAIN events
      BY <3>2
    <3> QED BY <3>1, <3>2, <3>3 DEF LogKept
  <2> QED BY <2>2, <2>3
<1> QED
  BY <1>1, <1>2, <1>3, <1>4, <1>6, <1>7, <1>8, <1>9 DEF IInv

\* Setting vc and grn keeps the log and the stock.
LEMMA AnchoredKept ==
    ASSUME TypeOK, NEW o \in offers, NEW ok \in BOOLEAN, OfferAnswered(o, ok)
    PROVE  LogKept /\ StockKept
<1>1. LogKept
  <2>1. CASE ok
    <3>1. events' = [i \in DOMAIN events |->
                       IF i \in o THEN [events[i] EXCEPT !.vc = TRUE] ELSE events[i]]
      BY <2>1 DEF OfferAnswered
    <3>2. \A i \in DOMAIN events : events[i] \in Event
      BY DEF TypeOK
    <3>3. \A row \in Event :
             LET new == [row EXCEPT !.vc = TRUE]
             IN /\ new.type = row.type /\ new.stream = row.stream /\ new.lot = row.lot
                /\ new.qty = row.qty /\ new.seq = row.seq /\ new.prev = row.prev
                /\ new.receipt = row.receipt
      BY DEF Event
    <3> QED BY <3>1, <3>2, <3>3 DEF LogKept
  <2>2. CASE ~ok
    BY <2>2 DEF OfferAnswered, LogKept
  <2> QED BY <2>1, <2>2
<1>2. StockKept
  <2>1. CASE ok
    <3> DEFINE anchored(l) == \E i \in o \cap DOMAIN events :
                                 events[i].type = "RECEIVE" /\ events[i].lot = l
    <3>1. lots' = [l \in DOMAIN lots |-> IF anchored(l) THEN [lots[l] EXCEPT !.grn = TRUE]
                                         ELSE lots[l]]
      BY <2>1 DEF OfferAnswered
    <3>2. \A l \in DOMAIN lots : lots[l] \in Lot
      BY DEF TypeOK, IsTable
    <3>3. \A row \in Lot :
             LET new == [row EXCEPT !.grn = TRUE]
             IN /\ new.tenant = row.tenant /\ new.sku = row.sku /\ new.initial = row.initial
                /\ new.cost = row.cost /\ new.onHand = row.onHand
                /\ new.reserved = row.reserved
      BY DEF Lot
    <3> HIDE DEF anchored
    <3> QED BY <3>1, <3>2, <3>3 DEF StockKept
  <2>2. CASE ~ok
    BY <2>2 DEF OfferAnswered, StockKept
  <2> QED BY <2>1, <2>2
<1> QED
  BY <1>1, <1>2

LEMMA OfferAnsweredIInv ==
    ASSUME IInv, NEW o \in offers, NEW ok \in BOOLEAN, OfferAnswered(o, ok)
    PROVE  IInv'
<1>1. TypeOK' /\ LogKept /\ StockKept
  BY OfferAnsweredType, AnchoredKept DEF IInv
<1>2. UNCHANGED <<allocs, proj, job, faults>>
  BY DEF OfferAnswered
<1>3. Work'
  BY <1>1, <1>2 DEF IInv, Work, LogKept, StockKept
<1>4. \A l \in DOMAIN lots : StreamOf(l)' = StreamOf(l)
  BY <1>1 DEF StreamOf, StockKept
<1>5. OwnLots'
  BY <1>1, <1>2, <1>4 DEF IInv, Work, OwnLots, StockKept
<1> QED
  BY <1>1, <1>2, <1>3, <1>5, KeptIInv

\* Steps that leave every table alone and at most end the handler.
LEMMA QuietIInv ==
    ASSUME IInv, UNCHANGED <<lots, allocs, events, proj>>, job' \in {job, Idle},
           offers' \in {offers, {}},
           faults' = faults \/ (faults < MaxFaults /\ faults' = faults + 1)
    PROVE  IInv'
<1>1. TypeOK'
  BY InventoryAssumption DEF IInv, TypeOK
<1>2. Work'
  BY DEF IInv, Work, Idle
<1>3. faults' = 0 => faults = 0
  BY DEF IInv, TypeOK
<1>4. OwnLots'
  BY <1>3 DEF IInv, OwnLots, StreamOf, Idle
<1>5. LogKept /\ StockKept
  BY DEF LogKept, StockKept
<1> QED
  BY <1>1, <1>2, <1>3, <1>4, <1>5, KeptIInv

LEMMA ReserveStockIInv ==
    ASSUME IInv, NEW t \in Tenants, NEW c \in Carts, NEW m \in 1..MaxLines,
           NEW lines \in [1..m -> Lines(t)], ReserveStock(t, c, lines)
    PROVE  IInv'
<1>1. \A x \in Lines(t) : x \in Line
  <2> SUFFICES ASSUME NEW k \in Skus, NEW x \in [sku: {k}, qty: Quantities, prefer: Preferences(t, k)]
               PROVE  x \in Line
    BY DEF Lines
  <2>1. Preferences(t, k) \subseteq SUBSET LotIds
    BY DEF Preferences, NoLot, IInv, TypeOK, IsTable
  <2> QED BY <2>1 DEF Line
<1>2. m \in Nat /\ m >= 1
  BY InventoryAssumption
<1>3. lines \in [1..m -> Line]
  BY <1>1
<1>4. lines \in Seq(Line) /\ Len(lines) = m /\ DOMAIN lines = 1..m
  BY <1>2, <1>3
<1>5. lines # <<>>
  <2>1. Len(<<>>) = 0
    OBVIOUS
  <2> QED BY <1>2, <1>4, <2>1
<1>6. job' \in ReserveJob /\ job'.op = "reserve" /\ job'.todo = lines /\ job'.tenant = t
  BY <1>4 DEF ReserveStock, ReserveJob
<1>7. UNCHANGED <<lots, allocs, events, proj, offers, faults>>
  BY DEF ReserveStock
<1>8. TypeOK'
  BY <1>6, <1>7 DEF IInv, TypeOK
<1>9. Work'
  BY <1>5, <1>6, <1>7 DEF IInv, Work
<1>10. OwnLots'
  <2> SUFFICES ASSUME ~ForeignPreference, NEW i \in DOMAIN job'.todo, NEW l \in job'.todo[i].prefer
               PROVE  l \in DOMAIN lots' /\ StreamOf(l)' = <<job'.tenant, job'.todo[i].sku>>
    BY <1>7 DEF IInv, OwnLots
  <2>1. lines[i] \in Lines(t)
    BY <1>4, <1>6
  <2>2. PICK k \in Skus : lines[i] \in [sku: {k}, qty: Quantities, prefer: Preferences(t, k)]
    BY <2>1 DEF Lines
  <2>3. lines[i].sku = k /\ lines[i].prefer \in Preferences(t, k) /\ l \in lines[i].prefer
    BY <1>6, <2>2
  <2>4. l \in DOMAIN lots /\ lots[l].tenant = t /\ lots[l].sku = k
    BY <2>3 DEF Preferences, NoLot
  <2> QED BY <1>6, <1>7, <2>3, <2>4 DEF StreamOf
<1>11. LogKept /\ StockKept
  BY <1>7 DEF LogKept, StockKept
<1> QED
  BY <1>7, <1>8, <1>9, <1>10, <1>11, KeptIInv

LEMMA FulfillSaleIInv ==
    ASSUME IInv, NEW t \in Tenants, NEW c \in Carts, NEW r \in Receipts,
           FulfillSale(t, c, r)
    PROVE  IInv'
<1>1. /\ CartAllocations(t, c) # {}
      /\ job' = [op |-> "fulfil", tenant |-> t, receipt |-> r,
                 todo |-> CartAllocations(t, c), sold |-> {}]
      /\ UNCHANGED <<lots, allocs, events, proj, offers, faults>>
  BY DEF FulfillSale
<1>2. CartAllocations(t, c) \subseteq AllocIds
  BY DEF CartAllocations, IInv, TypeOK, IsTable
<1>3. job' \in FulfilJob /\ job'.op = "fulfil" /\ job'.todo = CartAllocations(t, c)
  BY <1>1, <1>2 DEF FulfilJob
<1>4. TypeOK'
  BY <1>1, <1>3 DEF IInv, TypeOK
<1>5. Work'
  BY <1>1, <1>3 DEF IInv, Work, CartAllocations
<1>6. OwnLots'
  BY <1>1, <1>3 DEF IInv, OwnLots
<1>7. LogKept /\ StockKept
  BY <1>1 DEF LogKept, StockKept
<1> QED
  BY <1>1, <1>4, <1>5, <1>6, <1>7, KeptIInv

-----------------------------------------------------------------------------
(* What one new event, allocation or lot adds to the sums *)

\* The quantities of a lot's movements, with one more event.
LEMMA MovesAfter ==
    ASSUME events \in Seq(Event), NEW e \in Event, events' = Append(events, e), NEW m
    PROVE  LET moves == e.lot = m /\ e.type # "RESERVE"
               moved == Net([i \in Moves(m) |-> events[i].qty])
           IN moved \in Int /\ moved' = moved + IF moves THEN e.qty ELSE 0
<1> DEFINE h == Len(events) + 1
           D == Moves(m)
           E == Moves(m)'
           moves == e.lot = m /\ e.type # "RESERVE"
           f == [i \in D |-> events[i].qty]
           g == [i \in E |-> events'[i].qty]
<1>1. /\ h \notin DOMAIN events /\ DOMAIN events' = DOMAIN events \cup {h}
      /\ \A i \in DOMAIN events : events'[i] = events[i] /\ events[i] \in Event
      /\ events'[h] = e
  BY Appended
<1> HIDE DEF h
<1>2. h \notin D /\ E = D \cup (IF moves THEN {h} ELSE {})
  BY <1>1 DEF Moves
<1>3. D \in SUBSET DOMAIN events
  BY DEF Moves
<1>4. IsFiniteSet(D)
  BY <1>3, FiniteLog
<1>5. \A i \in E : events'[i] \in Event
  BY <1>1, <1>2, <1>3
<1>6. \A i \in E : events'[i].qty \in Int
  BY <1>5 DEF Event
<1>7. \A i \in D : events[i].qty \in Int /\ events'[i].qty = events[i].qty
  BY <1>1, <1>3 DEF Event
<1> HIDE DEF D, E, moves
<1>8. f \in [D -> Int] /\ g \in [E -> Int]
  BY <1>6, <1>7
<1>9. (\A i \in D : g[i] = f[i]) /\ (moves => g[h] = e.qty)
  BY <1>1, <1>2, <1>7
<1>10. moves \in BOOLEAN
  BY DEF moves
<1> HIDE DEF f, g
<1>11. Net(f) \in Int /\ Net(g) = Net(f) + (IF moves THEN g[h] ELSE 0)
  BY ONLY <1>2, <1>4, <1>8, <1>9, <1>10, NetMore
<1> QED
  BY <1>9, <1>11 DEF f, g, D, E, moves

\* The sales of a receipt from a lot, with one more event.
LEMMA SalesAfter ==
    ASSUME events \in Seq(Event), NEW e \in Event, events' = Append(events, e), NEW r, NEW m
    PROVE  LET sells == e.type = "SELL" /\ e.receipt = {r}
               sold == Net([i \in SalesFrom(r, m) |-> -events[i].qty])
           IN /\ Sales(r)' = Sales(r) \cup (IF sells THEN {Len(events) + 1} ELSE {})
              /\ sold \in Int /\ sold' = sold + IF sells /\ e.lot = m THEN -e.qty ELSE 0
<1> DEFINE h == Len(events) + 1
           D == SalesFrom(r, m)
           E == SalesFrom(r, m)'
           sells == e.type = "SELL" /\ e.receipt = {r}
           f == [i \in D |-> -events[i].qty]
           g == [i \in E |-> -events'[i].qty]
<1>1. /\ h \notin DOMAIN events /\ DOMAIN events' = DOMAIN events \cup {h}
      /\ \A i \in DOMAIN events : events'[i] = events[i] /\ events[i] \in Event
      /\ events'[h] = e
  BY Appended
<1> HIDE DEF h
<1>2. Sales(r)' = Sales(r) \cup (IF sells THEN {h} ELSE {})
  BY <1>1 DEF Sales
<1>3. h \notin D /\ E = D \cup (IF sells /\ e.lot = m THEN {h} ELSE {})
  BY <1>1 DEF SalesFrom, Sales
<1>4. D \in SUBSET DOMAIN events
  BY DEF SalesFrom, Sales
<1>5. IsFiniteSet(D)
  BY <1>4, FiniteLog
<1>6. \A i \in E : events'[i] \in Event
  BY <1>1, <1>3, <1>4
<1>7. \A i \in E : events'[i].qty \in Int
  BY <1>6 DEF Event
<1>8. \A i \in D : events[i].qty \in Int /\ events'[i].qty = events[i].qty
  BY <1>1, <1>4 DEF Event
<1> DEFINE more == sells /\ e.lot = m
<1>9. more \in BOOLEAN /\ E = D \cup (IF more THEN {h} ELSE {})
  BY <1>3
<1> HIDE DEF D, E, more
<1>10. f \in [D -> Int] /\ g \in [E -> Int]
  <2>1. \A k \in Int : -k \in Int
    OBVIOUS
  <2> QED BY <1>7, <1>8, <2>1
<1>11. (\A i \in D : g[i] = f[i]) /\ (more => g[h] = -e.qty)
  BY <1>1, <1>8, <1>9
<1> HIDE DEF f, g
<1>12. Net(f) \in Int /\ Net(g) = Net(f) + (IF more THEN g[h] ELSE 0)
  BY ONLY <1>3, <1>5, <1>9, <1>10, <1>11, NetMore
<1>13. Net(g) = Net(f) + (IF more THEN -e.qty ELSE 0)
  BY <1>11, <1>12
<1> QED
  BY <1>2, <1>12, <1>13 DEF f, g, D, E, sells, h, more

\* The quantities of some of the allocations have a sum.
LEMMA AllocatedType ==
    ASSUME TypeOK, NEW D, D \subseteq DOMAIN allocs
    PROVE  /\ IsFiniteSet(D) /\ [b \in D |-> allocs[b].qty] \in [D -> Int]
           /\ Net([b \in D |-> allocs[b].qty]) \in Int
<1> DEFINE f == [b \in D |-> allocs[b].qty]
<1>1. IsFiniteSet(D)
  BY FiniteTables
<1>2. \A b \in D : allocs[b] \in Alloc
  BY DEF TypeOK, IsTable
<1>3. f \in [D -> Int]
  BY <1>2 DEF Alloc
<1> HIDE DEF f
<1>4. Net(f) \in Int
  BY <1>1, <1>3, NetType
<1> QED
  BY <1>1, <1>3, <1>4 DEF f

\* The quantities of some of the allocations, when one row is written.
LEMMA AllocatedAfter ==
    ASSUME TypeOK, NEW a \in AllocIds, NEW row \in Alloc, allocs' = Put(allocs, a, row),
           NEW D, NEW E, D \subseteq DOMAIN allocs, E \subseteq DOMAIN allocs',
           D \ {a} = E \ {a}
    PROVE  LET f == [b \in D |-> allocs[b].qty]
               g == [b \in E |-> allocs'[b].qty]
           IN /\ Net(f) \in Int /\ Net(g) \in Int
              /\ a \in D => allocs[a].qty \in Int
              /\ Net(g) = Net(f) - (IF a \in D THEN allocs[a].qty ELSE 0)
                                      + (IF a \in E THEN row.qty ELSE 0)
<1> DEFINE f == [b \in D |-> allocs[b].qty]
           g == [b \in E |-> allocs'[b].qty]
<1>1. DOMAIN allocs' = DOMAIN allocs \cup {a} /\ allocs'[a] = row
      /\ \A b \in DOMAIN allocs : b # a => allocs'[b] = allocs[b]
  BY DEF Put
<1>2. IsFiniteSet(D)
  BY FiniteTables
<1>3. \A b \in DOMAIN allocs : allocs[b] \in Alloc /\ allocs[b].qty \in Int
  <2>1. \A b \in DOMAIN allocs : allocs[b] \in Alloc
    BY DEF TypeOK, IsTable
  <2> QED BY <2>1 DEF Alloc
<1>4. row.qty \in Int
  BY DEF Alloc
<1>5. \A b \in E : allocs'[b].qty \in Int
  BY <1>1, <1>3, <1>4
<1>6. f \in [D -> Int] /\ g \in [E -> Int] /\ \A b \in D \ {a} : g[b] = f[b]
  BY <1>1, <1>3, <1>5
<1>7. /\ Value(f, a) = IF a \in D THEN allocs[a].qty ELSE 0
      /\ Value(g, a) = IF a \in E THEN row.qty ELSE 0
  BY <1>1, <1>3, <1>4 DEF Value
<1> HIDE DEF f, g
<1>8. /\ Net(f) \in Int /\ Net(g) \in Int
      /\ Value(f, a) \in Int /\ Value(g, a) \in Int
      /\ Net(g) - Value(g, a) = Net(f) - Value(f, a)
  BY <1>2, <1>6, NetStep
<1>9. Net(g) = Net(f) - Value(f, a) + Value(g, a)
  BY <1>8
<1> QED
  BY <1>3, <1>7, <1>8, <1>9 DEF f, g

\* The sums of a stream's lots, when one row is written.
LEMMA StreamAfter ==
    ASSUME TypeOK, NEW l \in LotIds, NEW row \in Lot, lots' = Put(lots, l, row), NEW s
    PROVE  LET was == l \in StreamLots(s)
               is == <<row.tenant, row.sku>> = s
               onHand == Net([x \in StreamLots(s) |-> lots[x].onHand])
               reserved == Net([x \in StreamLots(s) |-> lots[x].reserved])
               value == Net([x \in StreamLots(s) |-> lots[x].onHand * lots[x].cost])
           IN /\ onHand \in Int /\ reserved \in Int /\ value \in Int
              /\ onHand' = onHand - (IF was THEN lots[l].onHand ELSE 0)
                                  + (IF is THEN row.onHand ELSE 0)
              /\ reserved' = reserved - (IF was THEN lots[l].reserved ELSE 0)
                                      + (IF is THEN row.reserved ELSE 0)
              /\ value' = value - (IF was THEN (lots[l].onHand * lots[l].cost) ELSE 0)
                                + (IF is THEN (row.onHand * row.cost) ELSE 0)
<1> DEFINE was == l \in StreamLots(s)
           is == <<row.tenant, row.sku>> = s
           D == StreamLots(s)
           E == StreamLots(s)'
<1>1. DOMAIN lots' = DOMAIN lots \cup {l} /\ lots'[l] = row
      /\ \A x \in DOMAIN lots : x # l => lots'[x] = lots[x]
  BY DEF Put
<1>2. \A x \in DOMAIN lots : lots[x] \in Lot
  BY DEF TypeOK, IsTable
<1>3. /\ D \subseteq DOMAIN lots /\ E \subseteq DOMAIN lots' /\ D \ {l} = E \ {l}
      /\ l \in E <=> is
  BY <1>1 DEF StreamLots, StreamOf
<1>4. IsFiniteSet(D)
  BY <1>3, FiniteTables
<1>5. \A x \in DOMAIN lots' : lots'[x] \in Lot
  BY <1>1, <1>2
<1>6. \A z \in Lot : z.onHand \in Int /\ z.reserved \in Int /\ z.cost \in Int
  BY DEF Lot
<1>7. \A z \in Lot : z.onHand * z.cost \in Int
  <2> SUFFICES ASSUME NEW z \in Lot PROVE z.onHand * z.cost \in Int
    OBVIOUS
  <2>1. \A i, j \in Int : i * j \in Int
    OBVIOUS
  <2> QED BY <1>6, <2>1
<1>8. \A x \in D \ {l} : lots'[x] = lots[x] /\ x \in E
  BY <1>1, <1>3
<1>9. (was => lots[l] \in Lot) /\ (is => l \in E)
  BY <1>2, <1>3
<1> HIDE DEF D, E, is
<1>10. ASSUME NEW f \in [D -> Int], NEW g \in [E -> Int], \A x \in D \ {l} : g[x] = f[x]
       PROVE  /\ Net(f) \in Int /\ Net(g) \in Int
              /\ Net(g) = Net(f) - (IF l \in D THEN f[l] ELSE 0)
                                     + (IF l \in E THEN g[l] ELSE 0)
  <2>1. /\ Net(f) \in Int /\ Net(g) \in Int
        /\ Value(f, l) \in Int /\ Value(g, l) \in Int
        /\ Net(g) - Value(g, l) = Net(f) - Value(f, l)
    BY <1>3, <1>4, <1>10, NetStep
  <2>2. /\ Value(f, l) = IF l \in D THEN f[l] ELSE 0
        /\ Value(g, l) = IF l \in E THEN g[l] ELSE 0
    BY <1>10 DEF Value
  <2>3. Net(g) = Net(f) - Value(f, l) + Value(g, l)
    BY <2>1
  <2> QED BY <2>1, <2>2, <2>3
<1>11. LET f == [x \in D |-> lots[x].onHand]
           g == [x \in E |-> lots'[x].onHand]
       IN /\ Net(f) \in Int
          /\ Net(g) = Net(f) - (IF l \in D THEN lots[l].onHand ELSE 0)
                                 + (IF l \in E THEN row.onHand ELSE 0)
  <2> DEFINE f == [x \in D |-> lots[x].onHand]
             g == [x \in E |-> lots'[x].onHand]
  <2>1. f \in [D -> Int] /\ g \in [E -> Int] /\ \A x \in D \ {l} : g[x] = f[x]
    BY <1>2, <1>3, <1>5, <1>6, <1>8
  <2>2. (l \in D => f[l] = lots[l].onHand) /\ (l \in E => g[l] = row.onHand)
    BY <1>1
  <2> HIDE DEF f, g
  <2>3. /\ Net(f) \in Int /\ Net(g) \in Int
        /\ Net(g) = Net(f) - (IF l \in D THEN f[l] ELSE 0)
                               + (IF l \in E THEN g[l] ELSE 0)
    BY <1>10, <2>1
  <2>4. /\ Net(f) \in Int
        /\ Net(g) = Net(f) - (IF l \in D THEN lots[l].onHand ELSE 0)
                               + (IF l \in E THEN row.onHand ELSE 0)
    BY <2>2, <2>3
  <2> QED BY <2>4 DEF f, g
<1>12. LET f == [x \in D |-> lots[x].reserved]
           g == [x \in E |-> lots'[x].reserved]
       IN /\ Net(f) \in Int
          /\ Net(g) = Net(f) - (IF l \in D THEN lots[l].reserved ELSE 0)
                                 + (IF l \in E THEN row.reserved ELSE 0)
  <2> DEFINE f == [x \in D |-> lots[x].reserved]
             g == [x \in E |-> lots'[x].reserved]
  <2>1. f \in [D -> Int] /\ g \in [E -> Int] /\ \A x \in D \ {l} : g[x] = f[x]
    BY <1>2, <1>3, <1>5, <1>6, <1>8
  <2>2. (l \in D => f[l] = lots[l].reserved) /\ (l \in E => g[l] = row.reserved)
    BY <1>1
  <2> HIDE DEF f, g
  <2>3. /\ Net(f) \in Int /\ Net(g) \in Int
        /\ Net(g) = Net(f) - (IF l \in D THEN f[l] ELSE 0)
                               + (IF l \in E THEN g[l] ELSE 0)
    BY <1>10, <2>1
  <2>4. /\ Net(f) \in Int
        /\ Net(g) = Net(f) - (IF l \in D THEN lots[l].reserved ELSE 0)
                               + (IF l \in E THEN row.reserved ELSE 0)
    BY <2>2, <2>3
  <2> QED BY <2>4 DEF f, g
<1>13. LET f == [x \in D |-> lots[x].onHand * lots[x].cost]
           g == [x \in E |-> lots'[x].onHand * lots'[x].cost]
       IN /\ Net(f) \in Int
          /\ Net(g) = Net(f) - (IF l \in D THEN (lots[l].onHand * lots[l].cost) ELSE 0)
                                 + (IF l \in E THEN (row.onHand * row.cost) ELSE 0)
  <2> DEFINE f == [x \in D |-> lots[x].onHand * lots[x].cost]
             g == [x \in E |-> lots'[x].onHand * lots'[x].cost]
             worth == lots[l].onHand * lots[l].cost
             next == row.onHand * row.cost
  <2>1. f \in [D -> Int] /\ g \in [E -> Int] /\ \A x \in D \ {l} : g[x] = f[x]
    <3>1. /\ \A x \in D : lots[x].onHand * lots[x].cost \in Int
          /\ \A x \in E : lots'[x].onHand * lots'[x].cost \in Int
      BY <1>2, <1>3, <1>5, <1>7
    <3> QED BY <1>8, <3>1
  <2>2. (l \in D => f[l] = worth) /\ (l \in E => g[l] = next)
    BY <1>1
  <2> HIDE DEF f, g, worth, next
  <2>3. /\ Net(f) \in Int /\ Net(g) \in Int
        /\ Net(g) = Net(f) - (IF l \in D THEN f[l] ELSE 0)
                               + (IF l \in E THEN g[l] ELSE 0)
    BY <1>10, <2>1
  <2>4. /\ Net(f) \in Int
        /\ Net(g) = Net(f) - (IF l \in D THEN worth ELSE 0)
                               + (IF l \in E THEN next ELSE 0)
    BY <2>2, <2>3
  <2> QED BY <2>4 DEF f, g, worth, next
<1> QED
  BY <1>3, <1>11, <1>12, <1>13 DEF D, E, is

-----------------------------------------------------------------------------
(* Goods receipts *)

\* No fault happened in a step after which there has been none.
LEMMA NoFault ==
    ASSUME TypeOK, NEW n \in Nat, NEW last \in Nat, n <= last,
           Outcome(n, last), faults' = 0
    PROVE  faults = 0 /\ n = last
BY InventoryAssumption DEF TypeOK, Outcome

\* A log that does not change keeps its chains.
LEMMA SameLog ==
    ASSUME events' = events, NEW s, Chained(s)
    PROVE  Chained(s)' /\ LastHash(s)' = LastHash(s)
BY KeptChains DEF LogKept

\* An event that is no sale leaves the receipts settled and traced, if it leaves
\* what was paid.
LEMMA NoSaleTraceable ==
    ASSUME events \in Seq(Event), NEW e \in Event, events' = Append(events, e),
           e.type # "SELL", NEW r, Settled(r),
           \A m \in LotIds : Net([a \in PaidFrom(r, m) |-> allocs[a].qty])'
                               = Net([a \in PaidFrom(r, m) |-> allocs[a].qty]),
           \A i \in Sales(r) : \E j \in 1..(i - 1) :
               events[j].type = "RECEIVE" /\ events[j].lot = events[i].lot
    PROVE  /\ Settled(r)'
           /\ \A i \in Sales(r)' : \E j \in 1..(i - 1) :
                  events'[j].type = "RECEIVE" /\ events'[j].lot = events'[i].lot
<1>1. Sales(r)' = Sales(r)
  BY SalesAfter
<1>2. ASSUME NEW m \in LotIds
      PROVE  Net([i \in SalesFrom(r, m) |-> -events[i].qty])'
               = Net([i \in SalesFrom(r, m) |-> -events[i].qty])
  <2> DEFINE sold == Net([i \in SalesFrom(r, m) |-> -events[i].qty])
             next == Net([i \in SalesFrom(r, m) |-> -events[i].qty])'
  <2>1. sold \in Int /\ next = sold + IF FALSE THEN -e.qty ELSE 0
    BY SalesAfter
  <2> HIDE DEF sold, next
  <2>2. next = sold
    BY <2>1
  <2> QED BY <2>2 DEF sold, next
<1>3. Settled(r)'
  BY <1>2 DEF Settled
<1>4. ASSUME NEW i \in Sales(r)
      PROVE  \E j \in 1..(i - 1) :
                 events'[j].type = "RECEIVE" /\ events'[j].lot = events'[i].lot
  <2>1. PICK j \in 1..(i - 1) : events[j].type = "RECEIVE" /\ events[j].lot = events[i].lot
    OBVIOUS
  <2>2. i \in DOMAIN events /\ DOMAIN events = 1..Len(events) /\ Len(events) \in Nat
    BY DEF Sales
  <2>3. j \in DOMAIN events
    BY <2>2
  <2>4. \A x \in DOMAIN events : events'[x] = events[x]
    BY Appended
  <2> QED BY <2>1, <2>2, <2>3, <2>4
<1> QED
  BY <1>1, <1>3, <1>4

\* A lot's row leaves the projections of the other streams in agreement.
LEMMA OtherStreams ==
    ASSUME TypeOK, NEW l \in LotIds, NEW row \in Lot, lots' = Put(lots, l, row),
           NEW s, <<row.tenant, row.sku>> = s, l \in DOMAIN lots => StreamOf(l) = s,
           NEW x, x # s, x \in DOMAIN proj, ProjectionAgrees(x),
           proj'[x] = proj[x], LastHash(x)' = LastHash(x)
    PROVE  ProjectionAgrees(x)'
<1> DEFINE onHand == Net([m \in StreamLots(x) |-> lots[m].onHand])
           reserved == Net([m \in StreamLots(x) |-> lots[m].reserved])
           value == Net([m \in StreamLots(x) |-> lots[m].onHand * lots[m].cost])
           onHand2 == Net([m \in StreamLots(x) |-> lots[m].onHand])'
           reserved2 == Net([m \in StreamLots(x) |-> lots[m].reserved])'
           value2 == Net([m \in StreamLots(x) |-> lots[m].onHand * lots[m].cost])'
<1>1. l \notin StreamLots(x) /\ <<row.tenant, row.sku>> # x
  BY DEF StreamLots
<1>2. /\ onHand \in Int /\ reserved \in Int /\ value \in Int
      /\ onHand2 = onHand - (IF FALSE THEN lots[l].onHand ELSE 0)
                          + (IF FALSE THEN row.onHand ELSE 0)
      /\ reserved2 = reserved - (IF FALSE THEN lots[l].reserved ELSE 0)
                              + (IF FALSE THEN row.reserved ELSE 0)
      /\ value2 = value - (IF FALSE THEN (lots[l].onHand * lots[l].cost) ELSE 0)
                        + (IF FALSE THEN (row.onHand * row.cost) ELSE 0)
  BY <1>1, StreamAfter
<1> HIDE DEF onHand, reserved, value, onHand2, reserved2, value2
<1>3. onHand2 = onHand /\ reserved2 = reserved /\ value2 = value
  BY <1>2
<1> QED
  BY <1>3 DEF ProjectionAgrees, onHand, reserved, value, onHand2, reserved2, value2

LEMMA ReceiveIInv ==
    ASSUME IInv, NEW t \in Tenants, NEW k \in Skus, NEW l \in LotIds,
           NEW q \in Int, NEW cost \in Costs, NEW given \in ReceiveOptions,
           NEW at \in 0..MaxTime, NEW vc \in VCChoices, NEW n \in 0..3,
           ReceiveGoods(t, k, l, q, cost, given, at, vc, n)
    PROVE  IInv'
<1> DEFINE s == <<t, k>>
           c == IF "unitCost" \in given THEN cost ELSE 0
           keys == given \cup {"currency"}
           e == NewEvent("RECEIVE", s, l, q, keys, {})
           h == Len(events) + 1
           row == [tenant |-> t, sku |-> k, initial |-> q, onHand |-> q, reserved |-> 0,
                   cost |-> c, at |-> at, status |-> "active", grn |-> FALSE]
<1>1. TypeOK'
  BY ReceiveType DEF IInv
<1>2. /\ l \notin DOMAIN lots /\ job = Idle
      /\ lots' = IF n >= 1 THEN Put(lots, l, row) ELSE lots
      /\ events' = IF n >= 2 THEN Append(events, e) ELSE events
      /\ proj' = IF n >= 3 THEN ProjectReceive(s, q, c, h) ELSE proj
      /\ UNCHANGED <<allocs, job>>
      /\ Outcome(n, 3)
  BY DEF ReceiveGoods, Hash
<1>3. /\ s \in Streams /\ q \in Int /\ c \in Int /\ at \in Nat
      /\ keys \in SUBSET OptionalKeys /\ n \in Nat /\ n <= 3
  BY InventoryAssumption DEF Streams, OptionalKeys
<1>4. events \in Seq(Event) /\ e \in Event
  BY <1>3, NewEventType DEF IInv, TypeOK
<1>5. e.type = "RECEIVE" /\ e.lot = l /\ e.qty = q
  BY DEF NewEvent
<1>6. row \in Lot
  <2> HIDE DEF c
  <2> QED BY <1>3 DEF Lot
<1>7. /\ <<row.tenant, row.sku>> = s /\ row.initial = q /\ row.onHand = q
      /\ row.reserved = 0 /\ row.cost = c
  OBVIOUS
<1>8. /\ n >= 2 => /\ \A x \in Streams : Chained(x)'
                   /\ LastHash(s)' = h
                   /\ \A x \in Streams : x # s => LastHash(x)' = LastHash(x)
      /\ n < 2 => \A x \in Streams : Chained(x)' /\ LastHash(x)' = LastHash(x)
  <2>1. CASE n >= 2
    <3>1. events' = Append(events, NewEvent("RECEIVE", s, l, q, keys, {}))
      BY <1>2, <2>1
    <3>2. {} \in SUBSET Receipts /\ q \in Int
      OBVIOUS
    <3>3. \A x \in Streams : Chained(x)
      BY DEF IInv
    <3>4. /\ \A x \in Streams : Chained(x)'
          /\ LastHash(s)' = h
          /\ \A x \in Streams : x # s => LastHash(x)' = LastHash(x)
      <4> DEFINE kind == "RECEIVE"
                 no == {}
      <4>1. kind \in {"RECEIVE", "RESERVE", "SELL"} /\ no \in SUBSET Receipts
            /\ events' = Append(events, NewEvent(kind, s, l, q, keys, no))
        BY <3>1
      <4> HIDE DEF keys, kind, no
      <4> QED BY <1>3, <1>4, <3>2, <3>3, <4>1, ChainAppend
    <3> QED BY <1>3, <2>1, <3>4
  <2>2. CASE n < 2
    <3>1. events' = events
      BY <1>2, <1>3, <2>2
    <3> QED BY <1>3, <2>2, <3>1, SameLog DEF IInv
  <2> QED BY <1>3, <2>1, <2>2
<1> HIDE DEF s, c, keys, e, h, row
<1>9. /\ n >= 1 => DOMAIN lots' = DOMAIN lots \cup {l} /\ lots'[l] = row
      /\ \A m \in DOMAIN lots : m \in DOMAIN lots' /\ lots'[m] = lots[m]
      /\ \A m \in DOMAIN lots' : m \in DOMAIN lots \/ (n >= 1 /\ m = l)
  BY <1>2, <1>3 DEF Put
<1>10. /\ n >= 2 => /\ h \notin DOMAIN events /\ DOMAIN events' = DOMAIN events \cup {h}
                    /\ events'[h] = e
       /\ \A i \in DOMAIN events : i \in DOMAIN events' /\ events'[i] = events[i]
       /\ n < 2 => events' = events
  <2>1. CASE n >= 2
    <3>1. events' = Append(events, e)
      BY <1>2, <2>1
    <3> QED BY <1>3, <1>4, <2>1, <3>1, Appended DEF h
  <2>2. CASE n < 2
    BY <1>2, <1>3, <2>2
  <2> QED BY <1>3, <2>1, <2>2
<1>11. Work'
  <2>1. \A i \in DOMAIN events' : events'[i].lot \in DOMAIN lots'
    BY <1>3, <1>5, <1>9, <1>10 DEF IInv, Work
  <2> QED BY <1>2, <1>9, <2>1 DEF IInv, Work
<1>12. AllocsOf(l) = {} /\ Held(l) = {} /\ Moves(l) = {}
  BY <1>2 DEF AllocsOf, Held, Moves, IInv, Work
<1>13. /\ \A m : Fulfilled(m)' = Fulfilled(m) /\ Held(m)' = Held(m)
       /\ \A m : Unsigned(m)' = Unsigned(m)
       /\ \A m, r : PaidFrom(r, m)' = PaidFrom(r, m)
  BY <1>2 DEF AllocsOf, Fulfilled, Held, PaidFrom, Unsigned
<1>14. Stocked'
  <2> SUFFICES ASSUME NEW m \in DOMAIN lots'
               PROVE  /\ lots'[m].initial >= 0 => Available(m)' >= 0
                      /\ Unsigned(m)' =>
                            Net([a \in Fulfilled(m) |-> allocs[a].qty])'
                                <= lots'[m].initial - lots'[m].onHand
    BY DEF Stocked
  <2>1. [a \in Fulfilled(m) |-> allocs[a].qty]' = [a \in Fulfilled(m) |-> allocs[a].qty]
    BY <1>2, <1>13
  <2>2. CASE m \in DOMAIN lots
    <3>1. Available(m)' = Available(m) /\ lots'[m] = lots[m]
      BY <1>9, <2>2 DEF Available
    <3> QED BY <1>13, <2>1, <2>2, <3>1 DEF IInv, Stocked
  <2>3. CASE n >= 1 /\ m = l
    <3>1. Available(m)' = q /\ lots'[m].initial = q /\ lots'[m].onHand = q
      BY <1>3, <1>7, <1>9, <2>3 DEF Available
    <3>2. Fulfilled(m) = {}
      BY <1>12, <2>3 DEF Fulfilled
    <3>3. Net([a \in Fulfilled(m) |-> allocs[a].qty]) = 0
      BY <3>2, NetEmpty
    <3> QED BY <1>3, <2>1, <3>1, <3>3
  <2> QED BY <1>9, <2>2, <2>3
<1>15. Backed'
  <2> SUFFICES ASSUME faults' = 0, NEW m \in DOMAIN lots'
               PROVE  lots'[m].reserved = Net([a \in Held(m) |-> allocs[a].qty])'
    BY DEF Backed
  <2>1. faults = 0
    BY <1>2, <1>3, NoFault DEF IInv
  <2>2. [a \in Held(m) |-> allocs[a].qty]' = [a \in Held(m) |-> allocs[a].qty]
    BY <1>2, <1>13
  <2>3. CASE m \in DOMAIN lots
    BY <1>9, <2>1, <2>2, <2>3 DEF IInv, Backed
  <2>4. CASE n >= 1 /\ m = l
    <3>1. Net([a \in Held(m) |-> allocs[a].qty]) = 0
      BY <1>12, <2>4, NetEmpty
    <3> QED BY <1>7, <1>9, <2>2, <2>4, <3>1
  <2> QED BY <1>9, <2>3, <2>4
<1>16. \A x \in Streams : Chained(x)'
  BY <1>3, <1>8
<1>17. LedgerExplainsLots'
  <2> SUFFICES ASSUME faults' = 0, NEW m \in DOMAIN lots' PROVE LedgerExplains(m)'
    BY DEF LedgerExplainsLots
  <2>1. faults = 0 /\ n = 3
    BY <1>2, <1>3, NoFault DEF IInv
  <2>2. events' = Append(events, e)
    BY <1>2, <2>1
  <2> DEFINE moved == Net([i \in Moves(m) |-> events[i].qty])
             moved2 == Net([i \in Moves(m) |-> events[i].qty])'
             moves == e.lot = m /\ e.type # "RESERVE"
  <2>3. moved \in Int /\ moved2 = moved + IF moves THEN e.qty ELSE 0
    BY <1>4, <2>2, MovesAfter
  <2>4. m = l => moved = 0
    BY <1>12, NetEmpty
  <2>5. m # l => m \in DOMAIN lots /\ lots[m].onHand = moved
    BY <1>9, <2>1 DEF IInv, LedgerExplainsLots, LedgerExplains
  <2>6. moves <=> m = l
    BY <1>5
  <2> HIDE DEF moved, moved2, moves
  <2>7. lots'[m].onHand = moved2
    <3>1. CASE m = l
      <4>1. lots'[m].onHand = q
        BY <1>7, <1>9, <2>1, <3>1
      <4> QED BY <1>3, <1>5, <2>3, <2>4, <2>6, <3>1, <4>1
    <3>2. CASE m # l
      BY <1>9, <2>3, <2>5, <2>6, <3>2
    <3> QED BY <3>1, <3>2
  <2> QED BY <2>7 DEF LedgerExplains, moved2
<1>18. Mirrored' /\ ProjectionMatchesLots'
  <2> SUFFICES ASSUME faults' = 0, ~ForeignPreference
               PROVE  /\ \A m \in DOMAIN lots' : StreamOf(m)' \in DOMAIN proj'
                      /\ \A x \in DOMAIN proj' : ProjectionAgrees(x)'
    BY DEF Mirrored, ProjectionMatchesLots
  <2>1. faults = 0 /\ n = 3
    BY <1>2, <1>3, NoFault DEF IInv
  <2>2. /\ \A m \in DOMAIN lots : StreamOf(m) \in DOMAIN proj
        /\ \A x \in DOMAIN proj : ProjectionAgrees(x)
    BY <2>1 DEF IInv, Mirrored, ProjectionMatchesLots
  <2>3. proj' = ProjectReceive(s, q, c, h)
    BY <1>2, <2>1
  <2>4. DOMAIN proj' = DOMAIN proj \cup {s} /\ \A x \in DOMAIN proj : x # s => proj'[x] = proj[x]
    BY <2>3 DEF ProjectReceive, Put
  <2>5. ASSUME NEW m \in DOMAIN lots' PROVE StreamOf(m)' \in DOMAIN proj'
    BY <1>7, <1>9, <2>2, <2>4 DEF StreamOf
  <2>6. lots' = Put(lots, l, row)
    BY <1>2, <2>1
  <2>7. /\ LastHash(s)' = h
        /\ \A x \in Streams : x # s => LastHash(x)' = LastHash(x)
    BY <1>8, <2>1
  <2>8. ASSUME NEW x \in DOMAIN proj', x # s PROVE ProjectionAgrees(x)'
    <3>1. x \in DOMAIN proj /\ x \in Streams
      BY <2>4, <2>8 DEF IInv, TypeOK, IsTable
    <3> QED BY <1>2, <1>6, <1>7, <2>2, <2>4, <2>6, <2>7, <2>8, <3>1, OtherStreams DEF IInv
  <2>9. ProjectionAgrees(s)'
    <3> DEFINE onHand == Net([x \in StreamLots(s) |-> lots[x].onHand])
               reserved == Net([x \in StreamLots(s) |-> lots[x].reserved])
               value == Net([x \in StreamLots(s) |-> lots[x].onHand * lots[x].cost])
               onHand2 == Net([x \in StreamLots(s) |-> lots[x].onHand])'
               reserved2 == Net([x \in StreamLots(s) |-> lots[x].reserved])'
               value2 == Net([x \in StreamLots(s) |-> lots[x].onHand * lots[x].cost])'
               worth == q * c
    <3>1. l \notin StreamLots(s)
      BY <1>2 DEF StreamLots
    <3>2. worth \in Int
      BY <1>3
    <3>3. /\ onHand \in Int /\ reserved \in Int /\ value \in Int
          /\ onHand2 = onHand - (IF FALSE THEN lots[l].onHand ELSE 0)
                              + (IF TRUE THEN row.onHand ELSE 0)
          /\ reserved2 = reserved - (IF FALSE THEN lots[l].reserved ELSE 0)
                                  + (IF TRUE THEN row.reserved ELSE 0)
          /\ value2 = value - (IF FALSE THEN (lots[l].onHand * lots[l].cost) ELSE 0)
                            + (IF TRUE THEN (row.onHand * row.cost) ELSE 0)
      BY <1>6, <1>7, <2>6, <3>1, StreamAfter DEF IInv
    <3>4. row.onHand * row.cost = worth
      BY <1>7
    <3> HIDE DEF onHand, reserved, value, onHand2, reserved2, value2, worth
    <3>5. onHand2 = onHand + q /\ reserved2 = reserved /\ value2 = value + worth
      BY <1>3, <1>7, <3>2, <3>3, <3>4
    <3>6. CASE s \in DOMAIN proj
      <4>1. /\ proj[s].onHand = onHand /\ proj[s].reserved = reserved /\ proj[s].total = value
        BY <2>2, <3>6 DEF ProjectionAgrees, onHand, reserved, value
      <4>2. /\ proj'[s].onHand = proj[s].onHand + q /\ proj'[s].reserved = proj[s].reserved
            /\ proj'[s].total = proj[s].total + worth /\ proj'[s].last = h
        BY <2>3, <3>6 DEF ProjectReceive, Put, worth
      <4> QED BY <2>7, <3>5, <4>1, <4>2 DEF ProjectionAgrees, onHand2, reserved2, value2
    <3>7. CASE s \notin DOMAIN proj
      <4>1. StreamLots(s) = {}
        BY <2>2, <3>7 DEF StreamLots
      <4>2. onHand = 0 /\ reserved = 0 /\ value = 0
        BY <4>1, NetEmpty DEF onHand, reserved, value
      <4>3. /\ proj'[s].onHand = q /\ proj'[s].reserved = 0
            /\ proj'[s].total = worth /\ proj'[s].last = h
        BY <2>3, <3>7 DEF ProjectReceive, Put, worth
      <4>4. onHand2 = q /\ reserved2 = 0 /\ value2 = worth
        BY <1>3, <3>2, <3>5, <4>2
      <4> QED BY <2>7, <4>3, <4>4 DEF ProjectionAgrees, onHand2, reserved2, value2
    <3> QED BY <3>6, <3>7
  <2> QED BY <2>5, <2>8, <2>9
<1>19. OwnLots'
  <2>1. faults' = 0 => faults = 0
    BY <1>2, <1>3, NoFault DEF IInv
  <2> QED BY <1>2, <1>9, <2>1 DEF IInv, Work, OwnLots, Idle
<1>20. Sourced'
  <2> SUFFICES ASSUME faults' = 0, NEW m \in DOMAIN lots'
               PROVE  \E j \in DOMAIN events' : events'[j].type = "RECEIVE" /\ events'[j].lot = m
    BY DEF Sourced
  <2>1. faults = 0 /\ n = 3
    BY <1>2, <1>3, NoFault DEF IInv
  <2>2. CASE m \in DOMAIN lots
    BY <1>10, <2>1, <2>2 DEF IInv, Sourced
  <2>3. CASE m = l
    BY <1>5, <1>10, <2>1, <2>3
  <2> QED BY <1>9, <2>2, <2>3
<1>21. ReceiptTraceable'
  <2> SUFFICES ASSUME faults' = 0, NEW r \in Receipts
               PROVE  /\ Settled(r)'
                      /\ \A i \in Sales(r)' : \E j \in 1..(i - 1) :
                            events'[j].type = "RECEIVE" /\ events'[j].lot = events'[i].lot
    BY DEF ReceiptTraceable
  <2>1. faults = 0 /\ n = 3
    BY <1>2, <1>3, NoFault DEF IInv
  <2>2. events' = Append(events, e)
    BY <1>2, <2>1
  <2>3. /\ Settled(r)
        /\ \A i \in Sales(r) : \E j \in 1..(i - 1) :
              events[j].type = "RECEIVE" /\ events[j].lot = events[i].lot
    BY <2>1 DEF IInv, ReceiptTraceable
  <2>4. ASSUME NEW m
        PROVE  [a \in PaidFrom(r, m) |-> allocs[a].qty]' = [a \in PaidFrom(r, m) |-> allocs[a].qty]
    BY <1>2, <1>13
  <2> QED BY <1>4, <1>5, <2>2, <2>3, <2>4, NoSaleTraceable
<1> QED
  BY <1>1, <1>11, <1>14, <1>15, <1>16, <1>17, <1>18, <1>19, <1>20, <1>21 DEF IInv

-----------------------------------------------------------------------------
(* Reservations *)

LEMMA ReserveLineIInv ==
    ASSUME IInv, NEW l \in LotIds, NEW a \in AllocIds, NEW n \in 0..4,
           ReserveLine(l, a, n)
    PROVE  IInv'
<1> SUFFICES ASSUME NEW s, s = <<job.tenant, Head(job.todo).sku>> PROVE IInv'
  OBVIOUS
<1> DEFINE line == Head(job.todo)
           q == line.qty
           e == NewEvent("RESERVE", s, l, -q, {}, {})
           h == Len(events) + 1
           row == [tenant |-> job.tenant, lot |-> l, cart |-> job.cart, qty |-> q,
                   status |-> "reserved", receipt |-> {}]
           held == [lots[l] EXCEPT !.reserved = @ + q]
<1>1. TypeOK'
  BY ReserveLineType DEF IInv, Work
<1>2. job \in ReserveJob /\ job.todo # <<>> /\ job.todo \in Seq(Line) /\ job.op = "reserve"
  BY JobKinds DEF ReserveLine, IInv, TypeOK, Work, ReserveJob
<1>3. line \in Line /\ 1 \in DOMAIN job.todo /\ line = job.todo[1]
  BY <1>2
<1>4. q \in Int /\ -q \in Int /\ s \in Streams /\ n \in Nat /\ n <= 4
  <2> HIDE DEF line
  <2>1. q \in Quantities /\ line.sku \in Skus
    BY <1>3 DEF Line
  <2> HIDE DEF q
  <2>2. q \in Int
    BY <2>1, InventoryAssumption
  <2>3. -q \in Int
    BY <2>2
  <2>4. s = <<job.tenant, line.sku>>
    BY DEF line
  <2> QED BY <1>2, <2>1, <2>2, <2>3, <2>4 DEF Streams, ReserveJob
<1>5. l \in DOMAIN lots /\ lots[l] \in Lot /\ Available(l) >= q
  <2>1. l \in DOMAIN lots /\ Available(l) >= q
    BY DEF ReserveLine, LotFor, PreferredLot, FindAvailableLot, Candidates
  <2> QED BY <2>1 DEF IInv, TypeOK, IsTable
<1>6. l \in line.prefer \/ StreamOf(l) = s
  BY DEF ReserveLine, LotFor, PreferredLot, FindAvailableLot, Candidates, StreamOf
<1>7. /\ a \notin DOMAIN allocs
      /\ lots' = IF n >= 1 THEN Put(lots, l, held) ELSE lots
      /\ events' = IF n >= 2 THEN Append(events, e) ELSE events
      /\ allocs' = IF n >= 3 THEN Put(allocs, a, row) ELSE allocs
      /\ proj' = IF n >= 4 THEN ProjectReserve(s, q, h) ELSE proj
      /\ job' = IF n = 4 /\ Len(job.todo) > 1 THEN [job EXCEPT !.todo = Tail(@)] ELSE Idle
      /\ Outcome(n, 4)
  BY DEF ReserveLine, Hash
<1> HIDE DEF line, q
<1>8. events \in Seq(Event) /\ e \in Event
  BY <1>4, NewEventType DEF IInv, TypeOK
<1>9. e.type = "RESERVE" /\ e.lot = l
  BY DEF NewEvent
<1>10. row \in Alloc /\ row.lot = l /\ row.qty = q /\ row.status = "reserved" /\ row.receipt = {}
  BY <1>2, <1>4 DEF Alloc, ReserveJob
<1>11. /\ lots[l].reserved \in Int /\ lots[l].onHand \in Int /\ lots[l].cost \in Int
       /\ lots[l].initial \in Int
  BY <1>5 DEF Lot
<1>12. /\ held \in Lot /\ held.tenant = lots[l].tenant /\ held.sku = lots[l].sku
       /\ held.initial = lots[l].initial /\ held.onHand = lots[l].onHand
       /\ held.reserved = lots[l].reserved + q /\ held.cost = lots[l].cost
  <2>1. lots[l].reserved + q \in Int
    BY <1>4, <1>11
  <2> QED BY <1>5, <2>1 DEF Lot
<1>13. /\ n >= 2 => /\ \A x \in Streams : Chained(x)'
                    /\ LastHash(s)' = h
                    /\ \A x \in Streams : x # s => LastHash(x)' = LastHash(x)
       /\ n < 2 => \A x \in Streams : Chained(x)' /\ LastHash(x)' = LastHash(x)
  <2>1. CASE n >= 2
    <3>1. /\ \A x \in Streams : Chained(x)'
          /\ LastHash(s)' = h
          /\ \A x \in Streams : x # s => LastHash(x)' = LastHash(x)
      <4> DEFINE kind == "RESERVE"
                 no == {}
                 back == -q
      <4>1. /\ kind \in {"RECEIVE", "RESERVE", "SELL"} /\ no \in SUBSET Receipts
            /\ no \in SUBSET OptionalKeys /\ back \in Int
            /\ events' = Append(events, NewEvent(kind, s, l, back, no, no))
        BY <1>4, <1>7, <2>1
      <4>2. \A x \in Streams : Chained(x)
        BY DEF IInv
      <4> HIDE DEF kind, no, back
      <4> QED BY <1>4, <1>8, <4>1, <4>2, ChainAppend
    <3> QED BY <1>4, <2>1, <3>1
  <2>2. CASE n < 2
    <3>1. events' = events
      BY <1>4, <1>7, <2>2
    <3> QED BY <1>4, <2>2, <3>1, SameLog DEF IInv
  <2> QED BY <1>4, <2>1, <2>2
<1>14. /\ DOMAIN lots' = DOMAIN lots
       /\ \A m \in DOMAIN lots : m # l => lots'[m] = lots[m]
       /\ lots'[l] = IF n >= 1 THEN held ELSE lots[l]
  BY <1>5, <1>7 DEF Put
<1> HIDE DEF e, h, row, held
<1>15. /\ n >= 2 => /\ h \notin DOMAIN events /\ DOMAIN events' = DOMAIN events \cup {h}
                    /\ events'[h] = e
       /\ \A i \in DOMAIN events : i \in DOMAIN events' /\ events'[i] = events[i]
       /\ n < 2 => events' = events
  <2>1. CASE n >= 2
    <3>1. events' = Append(events, e)
      BY <1>7, <2>1
    <3> QED BY <1>4, <1>8, <2>1, <3>1, Appended DEF h
  <2>2. CASE n < 2
    BY <1>4, <1>7, <2>2
  <2> QED BY <1>4, <2>1, <2>2
<1>16. /\ n >= 3 => DOMAIN allocs' = DOMAIN allocs \cup {a} /\ allocs'[a] = row
       /\ \A b \in DOMAIN allocs : b \in DOMAIN allocs' /\ allocs'[b] = allocs[b]
       /\ \A b \in DOMAIN allocs' : b \in DOMAIN allocs \/ (n >= 3 /\ b = a)
  BY <1>4, <1>7 DEF Put
<1>17. StreamOf(l)' = StreamOf(l) /\ \A m \in DOMAIN lots : StreamOf(m)' = StreamOf(m)
  BY <1>5, <1>12, <1>14 DEF StreamOf
<1>18. Work'
  <2>1. job'.op = "reserve" => job'.todo # <<>>
    <3>1. CASE n = 4 /\ Len(job.todo) > 1
      <4>1. job' = [job EXCEPT !.todo = Tail(@)]
        BY <1>7, <3>1
      <4>2. Len(Tail(job.todo)) = Len(job.todo) - 1
        BY <1>2, <3>1
      <4>3. Tail(job.todo) # <<>>
        <5> DEFINE T == Tail(job.todo)
                   k == Len(job.todo)
        <5>1. Len(T) = k - 1 /\ k \in Nat /\ k > 1
          BY <1>2, <3>1, <4>2
        <5> HIDE DEF T, k
        <5>2. Len(<<>>) = 0
          OBVIOUS
        <5>3. T # <<>>
          BY <5>1, <5>2
        <5> QED BY <5>3 DEF T
      <4> QED BY <1>2, <4>1, <4>3 DEF ReserveJob
    <3>2. CASE ~(n = 4 /\ Len(job.todo) > 1)
      BY <1>7, <3>2 DEF Idle
    <3> QED BY <3>1, <3>2
  <2>2. job'.op # "fulfil"
    BY <1>2, <1>7 DEF Idle, ReserveJob
  <2>3. \A b \in DOMAIN allocs' : /\ allocs'[b].lot \in DOMAIN lots'
                                  /\ allocs'[b].status = "reserved" => allocs'[b].receipt = {}
    BY <1>5, <1>10, <1>14, <1>16 DEF IInv, Work
  <2>4. \A i \in DOMAIN events' : events'[i].lot \in DOMAIN lots'
    BY <1>4, <1>5, <1>9, <1>14, <1>15 DEF IInv, Work
  <2> QED BY <2>1, <2>2, <2>3, <2>4 DEF Work
<1>19. Stocked'
  <2> SUFFICES ASSUME NEW m \in DOMAIN lots'
               PROVE  /\ lots'[m].initial >= 0 => Available(m)' >= 0
                      /\ Unsigned(m)' =>
                            Net([b \in Fulfilled(m) |-> allocs[b].qty])'
                                <= lots'[m].initial - lots'[m].onHand
    BY DEF Stocked
  <2>1. /\ lots[m].initial >= 0 => Available(m) >= 0
        /\ Unsigned(m) => Net([b \in Fulfilled(m) |-> allocs[b].qty])
                             <= lots[m].initial - lots[m].onHand
    BY <1>14 DEF IInv, Stocked
  <2>2. /\ lots'[m].initial = lots[m].initial /\ lots'[m].onHand = lots[m].onHand
        /\ lots[m].initial >= 0 => Available(m)' >= 0
    <3>1. CASE n >= 1 /\ m = l
      <4>1. Available(l)' = Available(l) - q /\ Available(l) \in Int
        BY <1>4, <1>11, <1>12, <1>14, <3>1 DEF Available
      <4> QED BY <1>4, <1>5, <1>12, <1>14, <3>1, <4>1
    <3>2. CASE ~(n >= 1 /\ m = l)
      <4>1. lots'[m] = lots[m]
        BY <1>14, <3>2
      <4> QED BY <2>1, <4>1 DEF Available
    <3> QED BY <3>1, <3>2
  <2>3. /\ [b \in Fulfilled(m) |-> allocs[b].qty]' = [b \in Fulfilled(m) |-> allocs[b].qty]
        /\ Unsigned(m)' => Unsigned(m)
    <3>1. Fulfilled(m)' = Fulfilled(m)
      BY <1>7, <1>10, <1>16 DEF Fulfilled, AllocsOf
    <3>2. \A b \in Fulfilled(m) : allocs'[b] = allocs[b]
      BY <1>16 DEF Fulfilled, AllocsOf
    <3>3. Unsigned(m)' => Unsigned(m)
      BY <1>16 DEF Unsigned
    <3> QED BY <3>1, <3>2, <3>3
  <2> QED BY <2>1, <2>2, <2>3
<1>20. Backed'
  <2> SUFFICES ASSUME faults' = 0, NEW m \in DOMAIN lots'
               PROVE  lots'[m].reserved = Net([b \in Held(m) |-> allocs[b].qty])'
    BY DEF Backed
  <2>1. faults = 0 /\ n = 4
    BY <1>4, <1>7, NoFault DEF IInv
  <2> DEFINE D == Held(m)
             E == Held(m)'
             was == Net([b \in Held(m) |-> allocs[b].qty])
             is == Net([b \in Held(m) |-> allocs[b].qty])'
  <2>2. allocs' = Put(allocs, a, row)
    BY <1>7, <2>1
  <2>3. /\ D \subseteq DOMAIN allocs /\ E \subseteq DOMAIN allocs'
        /\ a \notin D /\ E = IF m = l THEN D \cup {a} ELSE D
    BY <1>7, <1>10, <1>16, <2>1 DEF Held
  <2>4. D \ {a} = E \ {a} /\ (a \in E <=> m = l)
    BY <2>3
  <2>5. TypeOK
    BY DEF IInv
  <2> HIDE DEF D, E
  <2>6. LET f == [b \in D |-> allocs[b].qty]
            g == [b \in E |-> allocs'[b].qty]
        IN /\ Net(f) \in Int /\ Net(g) \in Int
           /\ Net(g) = Net(f) - (IF a \in D THEN allocs[a].qty ELSE 0)
                                   + (IF a \in E THEN row.qty ELSE 0)
    BY <1>10, <2>2, <2>3, <2>4, <2>5, AllocatedAfter
  <2>7. was \in Int /\ is = was - 0 + (IF m = l THEN q ELSE 0)
    BY <1>10, <2>3, <2>4, <2>6 DEF D, E
  <2>8. lots[m].reserved = was
    BY <1>14, <2>1 DEF IInv, Backed
  <2> HIDE DEF was, is
  <2>9. lots'[m].reserved = is
    <3>1. CASE m = l
      BY <1>4, <1>12, <1>14, <2>1, <2>7, <2>8, <3>1
    <3>2. CASE m # l
      BY <1>14, <2>7, <2>8, <3>2
    <3> QED BY <3>1, <3>2
  <2> QED BY <2>9 DEF is
<1>21. \A x \in Streams : Chained(x)'
  BY <1>4, <1>13
<1>22. LedgerExplainsLots'
  <2> SUFFICES ASSUME faults' = 0, NEW m \in DOMAIN lots' PROVE LedgerExplains(m)'
    BY DEF LedgerExplainsLots
  <2>1. faults = 0 /\ n = 4
    BY <1>4, <1>7, NoFault DEF IInv
  <2>2. events' = Append(events, e)
    BY <1>7, <2>1
  <2> DEFINE moved == Net([i \in Moves(m) |-> events[i].qty])
             moved2 == Net([i \in Moves(m) |-> events[i].qty])'
             moves == e.lot = m /\ e.type # "RESERVE"
  <2>3. moved \in Int /\ moved2 = moved + IF moves THEN e.qty ELSE 0
    BY <1>8, <2>2, MovesAfter
  <2>4. lots[m].onHand = moved
    BY <1>14, <2>1 DEF IInv, LedgerExplainsLots, LedgerExplains
  <2>5. ~moves
    BY <1>9
  <2>6. lots'[m].onHand = lots[m].onHand
    BY <1>12, <1>14
  <2> HIDE DEF moved, moved2, moves
  <2>7. lots'[m].onHand = moved2
    BY <2>3, <2>4, <2>5, <2>6
  <2> QED BY <2>7 DEF LedgerExplains, moved2
<1>23. Mirrored' /\ ProjectionMatchesLots'
  <2> SUFFICES ASSUME faults' = 0, ~ForeignPreference
               PROVE  /\ \A m \in DOMAIN lots' : StreamOf(m)' \in DOMAIN proj'
                      /\ \A x \in DOMAIN proj' : ProjectionAgrees(x)'
    BY DEF Mirrored, ProjectionMatchesLots
  <2>1. faults = 0 /\ n = 4
    BY <1>4, <1>7, NoFault DEF IInv
  <2>2. /\ \A m \in DOMAIN lots : StreamOf(m) \in DOMAIN proj
        /\ \A x \in DOMAIN proj : ProjectionAgrees(x)
    BY <2>1 DEF IInv, Mirrored, ProjectionMatchesLots
  <2>3. StreamOf(l) = s
    <3>1. l \in job.todo[1].prefer => StreamOf(l) = <<job.tenant, job.todo[1].sku>>
      BY <1>2, <1>3, <2>1 DEF IInv, OwnLots
    <3> QED BY <1>3, <1>6, <3>1
  <2>4. s \in DOMAIN proj
    BY <1>5, <2>2, <2>3
  <2> DEFINE level == [proj[s] EXCEPT !.reserved = @ + q,
                         !.available = proj[s].onHand - (proj[s].reserved + q), !.last = h]
  <2>5. proj' = Put(proj, s, level)
    BY <1>7, <2>1, <2>4 DEF ProjectReserve
  <2>6. /\ level.onHand = proj[s].onHand /\ level.reserved = proj[s].reserved + q
        /\ level.total = proj[s].total /\ level.last = h
    <3>1. proj[s] \in Level
      BY <2>4 DEF IInv, TypeOK, IsTable
    <3> QED BY <3>1 DEF Level
  <2> HIDE DEF level
  <2>7. /\ DOMAIN proj' = DOMAIN proj /\ proj'[s] = level
        /\ \A x \in DOMAIN proj : x # s => proj'[x] = proj[x]
    BY <2>4, <2>5 DEF Put
  <2>8. \A m \in DOMAIN lots' : StreamOf(m)' \in DOMAIN proj'
    BY <1>14, <1>17, <2>2, <2>7
  <2>9. lots' = Put(lots, l, held) /\ TypeOK
    BY <1>7, <2>1 DEF IInv
  <2>10. /\ LastHash(s)' = h
         /\ \A x \in Streams : x # s => LastHash(x)' = LastHash(x)
    BY <1>13, <2>1
  <2>11. <<held.tenant, held.sku>> = s
    BY <1>12, <2>3 DEF StreamOf
  <2>12. ASSUME NEW x \in DOMAIN proj', x # s PROVE ProjectionAgrees(x)'
    <3>1. x \in DOMAIN proj /\ x \in Streams /\ ProjectionAgrees(x) /\ proj'[x] = proj[x]
          /\ LastHash(x)' = LastHash(x)
      BY <2>2, <2>7, <2>10, <2>12 DEF IInv, TypeOK, IsTable
    <3> QED BY <1>12, <2>3, <2>9, <2>11, <2>12, <3>1, OtherStreams
  <2>13. ProjectionAgrees(s)'
    <3> DEFINE onHand == Net([x \in StreamLots(s) |-> lots[x].onHand])
               reserved == Net([x \in StreamLots(s) |-> lots[x].reserved])
               value == Net([x \in StreamLots(s) |-> lots[x].onHand * lots[x].cost])
               worth == lots[l].onHand * lots[l].cost
    <3> DEFINE onHand2 == Net([x \in StreamLots(s) |-> lots[x].onHand])'
               reserved2 == Net([x \in StreamLots(s) |-> lots[x].reserved])'
               value2 == Net([x \in StreamLots(s) |-> lots[x].onHand * lots[x].cost])'
    <3>1. l \in StreamLots(s) /\ <<held.tenant, held.sku>> = s
      BY <1>5, <2>3, <2>11 DEF StreamLots
    <3>2. /\ onHand \in Int /\ reserved \in Int /\ value \in Int
          /\ onHand2 = onHand - (IF TRUE THEN lots[l].onHand ELSE 0)
                              + (IF TRUE THEN held.onHand ELSE 0)
          /\ reserved2 = reserved - (IF TRUE THEN lots[l].reserved ELSE 0)
                                  + (IF TRUE THEN held.reserved ELSE 0)
          /\ value2 = value - (IF TRUE THEN worth ELSE 0)
                            + (IF TRUE THEN (held.onHand * held.cost) ELSE 0)
      BY <1>12, <2>9, <3>1, StreamAfter
    <3>3. held.onHand * held.cost = worth /\ worth \in Int
      <4>1. \A i, j \in Int : i * j \in Int
        OBVIOUS
      <4> QED BY <1>11, <1>12, <4>1
    <3>4. /\ proj[s].onHand = onHand /\ proj[s].reserved = reserved /\ proj[s].total = value
      BY <2>2, <2>4 DEF ProjectionAgrees
    <3> HIDE DEF onHand, reserved, value, onHand2, reserved2, value2, worth
    <3>5. onHand2 = onHand /\ reserved2 = reserved + q /\ value2 = value
      BY <1>4, <1>11, <1>12, <3>2, <3>3
    <3>6. proj'[s] = level /\ LastHash(s)' = h
      BY <2>7, <2>10
    <3>7. /\ level.onHand = onHand2 /\ level.reserved = reserved2
          /\ level.total = value2 /\ level.last = h
      BY <2>6, <3>4, <3>5
    <3> QED BY <3>6, <3>7 DEF ProjectionAgrees, onHand2, reserved2, value2
  <2> QED BY <2>7, <2>8, <2>12, <2>13
<1>24. OwnLots'
  <2> SUFFICES ASSUME faults' = 0, ~ForeignPreference
               PROVE  /\ \A b \in DOMAIN allocs' : lots'[allocs'[b].lot].tenant = allocs'[b].tenant
                      /\ job'.op = "reserve" =>
                            \A i \in DOMAIN job'.todo : \A m \in job'.todo[i].prefer :
                               /\ m \in DOMAIN lots'
                               /\ StreamOf(m)' = <<job'.tenant, job'.todo[i].sku>>
    BY DEF OwnLots
  <2>1. faults = 0 /\ n = 4
    BY <1>4, <1>7, NoFault DEF IInv
  <2>2. \A b \in DOMAIN allocs' : lots'[allocs'[b].lot].tenant = allocs'[b].tenant
    <3>1. lots'[l].tenant = row.tenant
      <4>1. lots[l].tenant = job.tenant
        BY <1>2, <1>3, <1>6, <2>1 DEF IInv, OwnLots, StreamOf
      <4> QED BY <1>12, <1>14, <2>1, <4>1 DEF row
    <3>2. \A m \in DOMAIN lots : lots'[m].tenant = lots[m].tenant
      BY <1>12, <1>14
    <3> QED BY <1>10, <1>16, <2>1, <3>1, <3>2 DEF IInv, Work, OwnLots
  <2>3. ASSUME job'.op = "reserve", NEW i \in DOMAIN job'.todo, NEW m \in job'.todo[i].prefer
        PROVE  m \in DOMAIN lots' /\ StreamOf(m)' = <<job'.tenant, job'.todo[i].sku>>
    <3>1. job' = [job EXCEPT !.todo = Tail(job.todo)]
      BY <1>7, <2>3 DEF Idle
    <3>2. job'.todo = Tail(job.todo) /\ job'.tenant = job.tenant
      BY <1>2, <3>1 DEF ReserveJob
    <3> DEFINE todo == job.todo
    <3>3. i + 1 \in DOMAIN todo /\ Tail(todo)[i] = todo[i + 1]
      <4>1. todo \in Seq(Line) /\ todo # <<>> /\ i \in DOMAIN Tail(todo)
        BY <1>2, <3>2
      <4> HIDE DEF todo
      <4> QED BY <4>1
    <3>4. m \in DOMAIN lots /\ StreamOf(m) = <<job.tenant, job.todo[i + 1].sku>>
      BY <1>2, <2>1, <3>2, <3>3 DEF IInv, OwnLots
    <3> QED BY <1>14, <1>17, <3>2, <3>4
  <2> QED BY <2>2, <2>3
<1>25. Sourced'
  <2>1. faults' = 0 => faults = 0
    BY <1>4, <1>7, NoFault DEF IInv
  <2> QED BY <1>14, <1>15, <2>1 DEF IInv, Sourced
<1>26. ReceiptTraceable'
  <2> SUFFICES ASSUME faults' = 0, NEW r \in Receipts
               PROVE  /\ Settled(r)'
                      /\ \A i \in Sales(r)' : \E j \in 1..(i - 1) :
                            events'[j].type = "RECEIVE" /\ events'[j].lot = events'[i].lot
    BY DEF ReceiptTraceable
  <2>1. faults = 0 /\ n = 4
    BY <1>4, <1>7, NoFault DEF IInv
  <2>2. events' = Append(events, e)
    BY <1>7, <2>1
  <2>3. /\ Settled(r)
        /\ \A i \in Sales(r) : \E j \in 1..(i - 1) :
              events[j].type = "RECEIVE" /\ events[j].lot = events[i].lot
    BY <2>1 DEF IInv, ReceiptTraceable
  <2>4. ASSUME NEW m
        PROVE  [b \in PaidFrom(r, m) |-> allocs[b].qty]' = [b \in PaidFrom(r, m) |-> allocs[b].qty]
    <3>1. PaidFrom(r, m)' = PaidFrom(r, m)
      BY <1>10, <1>16 DEF PaidFrom
    <3>2. \A b \in PaidFrom(r, m) : allocs'[b] = allocs[b]
      BY <1>16 DEF PaidFrom
    <3> QED BY <3>1, <3>2
  <2> QED BY <1>8, <1>9, <2>2, <2>3, <2>4, NoSaleTraceable
<1> QED
  BY <1>1, <1>18, <1>19, <1>20, <1>21, <1>22, <1>23, <1>24, <1>25, <1>26 DEF IInv

-----------------------------------------------------------------------------
(* Sales *)

LEMMA Products ==
    \A x, y \in Int : \A c \in Int : (x - y) * c = x * c - y * c /\ x * c \in Int
OBVIOUS

\* The event of a sale and its allocation together keep a receipt settled: its
\* own gets both, another neither.
LEMMA SaleSettles ==
    ASSUME TypeOK, NEW l, NEW q \in Int, NEW rc,
           NEW e \in Event, events' = Append(events, e), e.type = "SELL", e.lot = l, e.qty = -q,
           e.receipt = {rc},
           NEW a \in AllocIds, a \in DOMAIN allocs, allocs[a].receipt = {},
           NEW done \in Alloc, allocs' = Put(allocs, a, done), done.lot = l, done.qty = q,
           done.receipt = {rc},
           NEW r, Settled(r)
    PROVE  Settled(r)'
<1>1. DOMAIN allocs' = DOMAIN allocs /\ allocs'[a] = done
      /\ \A b \in DOMAIN allocs : b # a => allocs'[b] = allocs[b]
  BY DEF Put
<1>2. ASSUME NEW m \in LotIds
      PROVE  Net([i \in SalesFrom(r, m) |-> -events[i].qty])'
               = Net([b \in PaidFrom(r, m) |-> allocs[b].qty])'
  <2> DEFINE D == PaidFrom(r, m)
             E == PaidFrom(r, m)'
             of == rc = r /\ l = m
             went == Net([i \in SalesFrom(r, m) |-> -events[i].qty])
             went2 == Net([i \in SalesFrom(r, m) |-> -events[i].qty])'
             paid == Net([b \in PaidFrom(r, m) |-> allocs[b].qty])
             paid2 == Net([b \in PaidFrom(r, m) |-> allocs[b].qty])'
  <2>1. /\ went \in Int
        /\ went2 = went + IF (e.type = "SELL" /\ e.receipt = {r}) /\ e.lot = m
                          THEN -e.qty ELSE 0
    <3>1. events \in Seq(Event) /\ e \in Event /\ events' = Append(events, e)
      BY DEF TypeOK
    <3> QED BY ONLY <3>1, SalesAfter
  <2>2. -e.qty = q
    OBVIOUS
  <2>3. (e.type = "SELL" /\ e.receipt = {r}) /\ e.lot = m <=> of
    OBVIOUS
  <2>4. /\ D \subseteq DOMAIN allocs /\ E \subseteq DOMAIN allocs'
        /\ a \notin D /\ (a \in E <=> of) /\ D \ {a} = E \ {a}
    BY <1>1 DEF PaidFrom
  <2> HIDE DEF D, E, of
  <2>5. LET f == [b \in D |-> allocs[b].qty]
            g == [b \in E |-> allocs'[b].qty]
        IN /\ Net(f) \in Int /\ Net(g) \in Int
           /\ Net(g) = Net(f) - (IF a \in D THEN allocs[a].qty ELSE 0)
                                   + (IF a \in E THEN done.qty ELSE 0)
    BY <2>4, AllocatedAfter
  <2>6. paid \in Int /\ paid2 = paid - 0 + (IF of THEN q ELSE 0)
    BY <2>4, <2>5 DEF D, E
  <2>7. went = paid
    BY DEF Settled
  <2> HIDE DEF went, went2, paid, paid2
  <2>8. went2 = paid2
    <3>1. CASE of
      <4>1. went2 = went + q
        BY <2>1, <2>2, <2>3, <3>1
      <4>2. paid2 = paid + q
        BY <2>6, <3>1
      <4> QED BY <4>1, <4>2, <2>7
    <3>2. CASE ~of
      <4>1. went2 = went
        BY <2>1, <2>3, <3>2
      <4>2. paid2 = paid
        BY <2>6, <3>2
      <4> QED BY <4>1, <4>2, <2>7
    <3> QED BY <3>1, <3>2
  <2> QED BY <2>8 DEF went2, paid2
<1> QED
  BY <1>2 DEF Settled

LEMMA FulfillAllocationIInv ==
    ASSUME IInv, NEW a \in AllocIds, NEW n \in 0..4, FulfillAllocation(a, n)
    PROVE  IInv'
<1> SUFFICES ASSUME NEW l, l = allocs[a].lot, NEW q, q = allocs[a].qty,
                    NEW s, s = <<job.tenant, lots[l].sku>>,
                    NEW cost, cost = lots[l].cost, NEW rc, rc = job.receipt
             PROVE  IInv'
  OBVIOUS
<1> DEFINE given == {"unitCost", "currency", "actorId"}
           e == NewEvent("SELL", s, l, -q, given, {rc})
           h == Len(events) + 1
           sum == job.sold \cup {h}
           st == StatusAfter(l, q)
           sold == [lots[l] EXCEPT !.onHand = @ - q, !.reserved = @ - q, !.status = st]
           done == [allocs[a] EXCEPT !.status = "fulfilled", !.receipt = {rc}]
<1>1. TypeOK'
  BY FulfillAllocationType DEF IInv
<1>2. /\ job \in FulfilJob /\ job.op = "fulfil" /\ a \in job.todo /\ a \in DOMAIN allocs
      /\ allocs[a].status = "reserved" /\ allocs[a].tenant = job.tenant
      /\ allocs[a].receipt = {} /\ rc \in Receipts
  <2>1. job \in FulfilJob /\ job.op = "fulfil" /\ a \in job.todo
    BY JobKinds DEF FulfillAllocation, IInv, TypeOK
  <2> QED BY <2>1 DEF IInv, Work, FulfilJob
<1>3. allocs[a] \in Alloc /\ l \in LotIds /\ q \in Int /\ -q \in Int
  BY <1>2 DEF IInv, TypeOK, IsTable, Alloc
<1>4. l \in DOMAIN lots /\ lots[l] \in Lot
  BY <1>2 DEF IInv, Work, TypeOK, IsTable
<1>5. /\ lots[l].reserved \in Int /\ lots[l].onHand \in Int /\ cost \in Int
      /\ lots[l].initial \in Int /\ lots[l].sku \in Skus /\ lots[l].tenant \in Tenants
  BY <1>4 DEF Lot
<1>6. s \in Streams /\ n \in Nat /\ n <= 4
  BY <1>2, <1>5 DEF Streams, FulfilJob
<1>7. /\ lots' = IF n >= 1 THEN Put(lots, l, sold) ELSE lots
      /\ events' = IF n >= 2 THEN Append(events, e) ELSE events
      /\ allocs' = IF n >= 3 THEN Put(allocs, a, done) ELSE allocs
      /\ proj' = IF n >= 4 THEN ProjectSell(s, q, cost, h) ELSE proj
      /\ job' = IF n = 4 /\ job.todo # {a}
                THEN [job EXCEPT !.todo = @ \ {a}, !.sold = sum] ELSE Idle
      /\ Outcome(n, 4)
  BY DEF FulfillAllocation, Hash
<1>8. events \in Seq(Event) /\ e \in Event
  <2>1. given \in SUBSET OptionalKeys /\ {rc} \in SUBSET Receipts
    BY <1>2 DEF OptionalKeys
  <2> HIDE DEF given
  <2> QED BY <1>3, <1>6, <2>1, NewEventType DEF IInv, TypeOK
<1>9. e.type = "SELL" /\ e.lot = l /\ e.qty = -q /\ e.receipt = {rc}
  BY DEF NewEvent
<1>10. /\ done \in Alloc /\ done.lot = l /\ done.qty = q /\ done.status = "fulfilled"
       /\ done.receipt = {rc} /\ done.tenant = allocs[a].tenant
  BY <1>2, <1>3 DEF Alloc
<1>11. /\ sold \in Lot /\ sold.tenant = lots[l].tenant /\ sold.sku = lots[l].sku
       /\ sold.initial = lots[l].initial /\ sold.onHand = lots[l].onHand - q
       /\ sold.reserved = lots[l].reserved - q /\ sold.cost = cost
  <2>1. /\ lots[l].reserved - q \in Int /\ lots[l].onHand - q \in Int
        /\ st \in {"active", "depleted"}
    BY <1>3, <1>4, <1>5 DEF StatusAfter, Lot
  <2> HIDE DEF st
  <2> QED BY <1>4, <2>1 DEF Lot
<1>12. /\ n >= 2 => /\ \A x \in Streams : Chained(x)'
                    /\ LastHash(s)' = h
                    /\ \A x \in Streams : x # s => LastHash(x)' = LastHash(x)
       /\ n < 2 => \A x \in Streams : Chained(x)' /\ LastHash(x)' = LastHash(x)
  <2>1. CASE n >= 2
    <3>1. /\ \A x \in Streams : Chained(x)'
          /\ LastHash(s)' = h
          /\ \A x \in Streams : x # s => LastHash(x)' = LastHash(x)
      <4> DEFINE kind == "SELL"
                 by == {rc}
                 back == -q
      <4>1. /\ kind \in {"RECEIVE", "RESERVE", "SELL"} /\ by \in SUBSET Receipts
            /\ given \in SUBSET OptionalKeys /\ back \in Int
            /\ events' = Append(events, NewEvent(kind, s, l, back, given, by))
        BY <1>2, <1>3, <1>6, <1>7, <2>1 DEF OptionalKeys
      <4>2. \A x \in Streams : Chained(x)
        BY DEF IInv
      <4> HIDE DEF kind, by, back, given
      <4> QED BY <1>3, <1>6, <1>8, <4>1, <4>2, ChainAppend
    <3> QED BY <1>6, <2>1, <3>1
  <2>2. CASE n < 2
    <3>1. events' = events
      BY <1>6, <1>7, <2>2
    <3> QED BY <1>6, <2>2, <3>1, SameLog DEF IInv
  <2> QED BY <1>6, <2>1, <2>2
<1>13. /\ DOMAIN lots' = DOMAIN lots
       /\ \A m \in DOMAIN lots : m # l => lots'[m] = lots[m]
       /\ lots'[l] = IF n >= 1 THEN sold ELSE lots[l]
  BY <1>4, <1>7 DEF Put
<1> HIDE DEF e, h, done, sold, given
<1>14. /\ n >= 2 => /\ h \notin DOMAIN events /\ DOMAIN events' = DOMAIN events \cup {h}
                    /\ events'[h] = e
       /\ \A i \in DOMAIN events : i \in DOMAIN events' /\ events'[i] = events[i]
       /\ n < 2 => events' = events
  <2>1. CASE n >= 2
    <3>1. events' = Append(events, e)
      BY <1>7, <2>1
    <3> QED BY <1>6, <1>8, <2>1, <3>1, Appended DEF h
  <2>2. CASE n < 2
    BY <1>6, <1>7, <2>2
  <2> QED BY <1>6, <2>1, <2>2
<1>15. /\ DOMAIN allocs' = DOMAIN allocs
       /\ \A b \in DOMAIN allocs : b # a => allocs'[b] = allocs[b]
       /\ allocs'[a] = IF n >= 3 THEN done ELSE allocs[a]
  BY <1>2, <1>6, <1>7 DEF Put
<1>16. \A b \in DOMAIN allocs : /\ allocs'[b].lot = allocs[b].lot /\ allocs'[b].qty = allocs[b].qty
                                /\ allocs'[b].tenant = allocs[b].tenant
  BY <1>10, <1>15
<1>17. \A m \in DOMAIN lots : /\ StreamOf(m)' = StreamOf(m)
                              /\ lots'[m].initial = lots[m].initial
                              /\ lots'[m].tenant = lots[m].tenant
  BY <1>11, <1>13 DEF StreamOf
<1>18. Work'
  <2>1. job'.op # "reserve"
    BY <1>2, <1>7 DEF Idle, FulfilJob
  <2>2. ASSUME job'.op = "fulfil"
        PROVE  /\ job'.todo # {}
               /\ \A b \in job'.todo : /\ b \in DOMAIN allocs' /\ allocs'[b].status = "reserved"
                                       /\ allocs'[b].tenant = job'.tenant
    <3>1. job.todo # {a} /\ job' = [job EXCEPT !.todo = @ \ {a}, !.sold = sum]
      BY <1>7, <2>2 DEF Idle
    <3>2. job'.todo = job.todo \ {a} /\ job'.tenant = job.tenant
      BY <1>2, <3>1 DEF FulfilJob
    <3>3. \A b \in job.todo : /\ b \in DOMAIN allocs /\ allocs[b].status = "reserved"
                              /\ allocs[b].tenant = job.tenant
      BY <1>2 DEF IInv, Work
    <3> QED BY <1>2, <1>15, <3>1, <3>2, <3>3
  <2>3. \A b \in DOMAIN allocs' : /\ allocs'[b].lot \in DOMAIN lots'
                                  /\ allocs'[b].status = "reserved" => allocs'[b].receipt = {}
    BY <1>10, <1>13, <1>15, <1>16 DEF IInv, Work
  <2>4. \A i \in DOMAIN events' : events'[i].lot \in DOMAIN lots'
    BY <1>4, <1>6, <1>9, <1>13, <1>14 DEF IInv, Work
  <2> QED BY <2>1, <2>2, <2>3, <2>4 DEF Work
<1>19. Stocked'
  <2> SUFFICES ASSUME NEW m \in DOMAIN lots'
               PROVE  /\ lots'[m].initial >= 0 => Available(m)' >= 0
                      /\ Unsigned(m)' =>
                            Net([b \in Fulfilled(m) |-> allocs[b].qty])'
                                <= lots'[m].initial - lots'[m].onHand
    BY DEF Stocked
  <2> DEFINE D == Fulfilled(m)
             E == Fulfilled(m)'
             was == Net([b \in Fulfilled(m) |-> allocs[b].qty])
             is == Net([b \in Fulfilled(m) |-> allocs[b].qty])'
  <2>1. /\ lots[m].initial >= 0 => Available(m) >= 0
        /\ Unsigned(m) => was <= lots[m].initial - lots[m].onHand
        /\ lots'[m].initial = lots[m].initial /\ TypeOK
    BY <1>13, <1>17 DEF IInv, Stocked
  <2>2. Available(m)' = Available(m)
    <3>1. CASE m = l /\ n >= 1
      BY <1>3, <1>5, <1>11, <1>13, <3>1 DEF Available
    <3>2. CASE ~(m = l /\ n >= 1)
      <4>1. lots'[m] = lots[m]
        BY <1>13, <3>2
      <4> QED BY <4>1 DEF Available
    <3> QED BY <3>1, <3>2
  <2>3. Unsigned(m)' => Unsigned(m) /\ (m = l => q >= 0)
    BY <1>2, <1>15, <1>16 DEF Unsigned
  <2>4. /\ D \subseteq DOMAIN allocs /\ E \subseteq DOMAIN allocs'
        /\ a \notin D /\ D \ {a} = E \ {a}
        /\ a \in E <=> n >= 3 /\ m = l
    BY <1>2, <1>10, <1>15, <1>16 DEF Fulfilled, AllocsOf
  <2>5. lots[m].onHand \in Int /\ lots[m].initial \in Int
    <3>1. lots[m] \in Lot
      BY <1>13 DEF IInv, TypeOK, IsTable
    <3> QED BY <3>1 DEF Lot
  <2>6. lots'[m].onHand = lots[m].onHand - (IF n >= 1 /\ m = l THEN q ELSE 0)
    <3>1. CASE n >= 1 /\ m = l
      BY <1>11, <1>13, <3>1
    <3>2. CASE ~(n >= 1 /\ m = l)
      BY <1>13, <2>5, <3>2
    <3> QED BY <3>1, <3>2
  <2>7. was \in Int /\ is = was + (IF n >= 3 /\ m = l THEN q ELSE 0)
    <3> HIDE DEF D, E
    <3>1. was \in Int
      BY <2>1, <2>4, AllocatedType DEF D
    <3>2. CASE n >= 3
      <4>1. allocs' = Put(allocs, a, done)
        BY <1>7, <3>2
      <4>2. LET f == [b \in D |-> allocs[b].qty]
                g == [b \in E |-> allocs'[b].qty]
            IN /\ Net(f) \in Int /\ Net(g) \in Int
               /\ Net(g) = Net(f) - (IF a \in D THEN allocs[a].qty ELSE 0)
                                   + (IF a \in E THEN done.qty ELSE 0)
        BY <1>10, <2>1, <2>4, <4>1, AllocatedAfter
      <4>3. is = was - 0 + (IF m = l THEN q ELSE 0)
        BY <1>10, <2>4, <3>2, <4>2 DEF D, E
      <4> HIDE DEF was, is
      <4> QED BY <1>3, <3>1, <3>2, <4>3
    <3>3. CASE n < 3
      <4>1. allocs' = allocs
        BY <1>6, <1>7, <3>3
      <4>2. is = was
        BY <4>1 DEF Fulfilled, AllocsOf
      <4> HIDE DEF was, is
      <4> QED BY <1>6, <3>1, <3>3, <4>2
    <3> QED BY <1>6, <3>2, <3>3
  <2> HIDE DEF was, is, D, E
  <2>8. Unsigned(m)' => is <= lots'[m].initial - lots'[m].onHand
    BY <1>3, <1>6, <2>1, <2>3, <2>5, <2>6, <2>7
  <2> QED BY <2>1, <2>2, <2>8 DEF is
<1>20. ASSUME faults' = 0, NEW m \in DOMAIN lots'
       PROVE  lots'[m].reserved = Net([b \in Held(m) |-> allocs[b].qty])'
  <2>1. faults = 0 /\ n = 4
    BY <1>6, <1>7, <1>20, NoFault DEF IInv
  <2> DEFINE D == Held(m)
             E == Held(m)'
             was == Net([b \in Held(m) |-> allocs[b].qty])
             is == Net([b \in Held(m) |-> allocs[b].qty])'
  <2>2. allocs' = Put(allocs, a, done)
    BY <1>7, <2>1
  <2>3. /\ D \subseteq DOMAIN allocs /\ E \subseteq DOMAIN allocs'
        /\ a \notin E /\ (a \in D <=> m = l) /\ D \ {a} = E \ {a}
    BY <1>2, <1>10, <1>15, <2>1 DEF Held
  <2>4. TypeOK
    BY DEF IInv
  <2> HIDE DEF D, E
  <2>5. LET f == [b \in D |-> allocs[b].qty]
            g == [b \in E |-> allocs'[b].qty]
        IN /\ Net(f) \in Int /\ Net(g) \in Int
           /\ Net(g) = Net(f) - (IF a \in D THEN allocs[a].qty ELSE 0)
                                   + (IF a \in E THEN done.qty ELSE 0)
    BY <1>10, <2>2, <2>3, <2>4, AllocatedAfter
  <2>6. was \in Int /\ is \in Int /\ is = was - (IF m = l THEN q ELSE 0) + 0
    BY <2>3, <2>5 DEF D, E
  <2>7. lots[m].reserved = was
    BY <1>13, <2>1 DEF IInv, Backed
  <2> HIDE DEF was, is
  <2>8. lots'[m].reserved = is
    <3>1. CASE m = l
      BY <1>3, <1>11, <1>13, <2>1, <2>6, <2>7, <3>1
    <3>2. CASE m # l
      BY <1>13, <2>6, <2>7, <3>2
    <3> QED BY <3>1, <3>2
  <2> QED BY <2>6, <2>8 DEF is
<1>21. Backed'
  BY <1>20 DEF Backed
<1>22. \A x \in Streams : Chained(x)'
  BY <1>6, <1>12
<1>23. LedgerExplainsLots'
  <2> SUFFICES ASSUME faults' = 0, NEW m \in DOMAIN lots' PROVE LedgerExplains(m)'
    BY DEF LedgerExplainsLots
  <2>1. faults = 0 /\ n = 4
    BY <1>6, <1>7, NoFault DEF IInv
  <2>2. events' = Append(events, e)
    BY <1>7, <2>1
  <2> DEFINE moved == Net([i \in Moves(m) |-> events[i].qty])
             moved2 == Net([i \in Moves(m) |-> events[i].qty])'
             moves == e.lot = m /\ e.type # "RESERVE"
  <2>3. moved \in Int /\ moved2 = moved + IF moves THEN e.qty ELSE 0
    BY <1>8, <2>2, MovesAfter
  <2>4. lots[m].onHand = moved
    BY <1>13, <2>1 DEF IInv, LedgerExplainsLots, LedgerExplains
  <2>5. moves <=> m = l
    BY <1>9
  <2>6. lots'[m].onHand = lots[m].onHand - (IF m = l THEN q ELSE 0)
    <3>1. CASE m = l
      BY <1>11, <1>13, <2>1, <3>1
    <3>2. CASE m # l
      BY <1>13, <2>3, <2>4, <3>2
    <3> QED BY <3>1, <3>2
  <2> HIDE DEF moved, moved2, moves
  <2>7. lots'[m].onHand = moved2
    BY <1>3, <1>9, <2>3, <2>4, <2>5, <2>6
  <2> QED BY <2>7 DEF LedgerExplains, moved2
<1>24. Mirrored' /\ ProjectionMatchesLots'
  <2> SUFFICES ASSUME faults' = 0, ~ForeignPreference
               PROVE  /\ \A m \in DOMAIN lots' : StreamOf(m)' \in DOMAIN proj'
                      /\ \A x \in DOMAIN proj' : ProjectionAgrees(x)'
    BY DEF Mirrored, ProjectionMatchesLots
  <2>1. faults = 0 /\ n = 4
    BY <1>6, <1>7, NoFault DEF IInv
  <2>2. /\ \A m \in DOMAIN lots : StreamOf(m) \in DOMAIN proj
        /\ \A x \in DOMAIN proj : ProjectionAgrees(x)
    BY <2>1 DEF IInv, Mirrored, ProjectionMatchesLots
  <2>3. StreamOf(l) = s
    BY <1>2, <2>1 DEF IInv, OwnLots, StreamOf
  <2>4. s \in DOMAIN proj
    BY <1>4, <2>2, <2>3
  <2> DEFINE level == [proj[s] EXCEPT !.onHand = @ - q, !.reserved = @ - q,
                         !.available = (proj[s].onHand - q) - (proj[s].reserved - q),
                         !.total = @ - q * cost, !.last = h]
  <2>5. proj' = Put(proj, s, level)
    BY <1>7, <2>1, <2>4 DEF ProjectSell
  <2>6. /\ level.onHand = proj[s].onHand - q /\ level.reserved = proj[s].reserved - q
        /\ level.total = proj[s].total - q * cost /\ level.last = h
    <3>1. proj[s] \in Level
      BY <2>4 DEF IInv, TypeOK, IsTable
    <3> QED BY <3>1 DEF Level
  <2> HIDE DEF level
  <2>7. /\ DOMAIN proj' = DOMAIN proj /\ proj'[s] = level
        /\ \A x \in DOMAIN proj : x # s => proj'[x] = proj[x]
    BY <2>4, <2>5 DEF Put
  <2>8. \A m \in DOMAIN lots' : StreamOf(m)' \in DOMAIN proj'
    BY <1>13, <1>17, <2>2, <2>7
  <2>9. lots' = Put(lots, l, sold) /\ TypeOK
    BY <1>7, <2>1 DEF IInv
  <2>10. /\ LastHash(s)' = h
         /\ \A x \in Streams : x # s => LastHash(x)' = LastHash(x)
    BY <1>12, <2>1
  <2>11. <<sold.tenant, sold.sku>> = s
    BY <1>11, <2>3 DEF StreamOf
  <2>12. ASSUME NEW x \in DOMAIN proj', x # s PROVE ProjectionAgrees(x)'
    <3>1. x \in DOMAIN proj /\ x \in Streams /\ ProjectionAgrees(x) /\ proj'[x] = proj[x]
          /\ LastHash(x)' = LastHash(x)
      BY <2>2, <2>7, <2>10, <2>12 DEF IInv, TypeOK, IsTable
    <3> QED BY <1>3, <1>11, <2>3, <2>9, <2>11, <2>12, <3>1, OtherStreams
  <2>13. ProjectionAgrees(s)'
    <3> DEFINE onHand == Net([x \in StreamLots(s) |-> lots[x].onHand])
               reserved == Net([x \in StreamLots(s) |-> lots[x].reserved])
               value == Net([x \in StreamLots(s) |-> lots[x].onHand * lots[x].cost])
               onHand2 == Net([x \in StreamLots(s) |-> lots[x].onHand])'
               reserved2 == Net([x \in StreamLots(s) |-> lots[x].reserved])'
               value2 == Net([x \in StreamLots(s) |-> lots[x].onHand * lots[x].cost])'
               was == lots[l].onHand * lots[l].cost
               is == sold.onHand * sold.cost
               worth == q * cost
    <3>1. l \in StreamLots(s)
      BY <1>4, <2>3 DEF StreamLots
    <3>2. /\ onHand \in Int /\ reserved \in Int /\ value \in Int
          /\ onHand2 = onHand - (IF TRUE THEN lots[l].onHand ELSE 0)
                              + (IF TRUE THEN sold.onHand ELSE 0)
          /\ reserved2 = reserved - (IF TRUE THEN lots[l].reserved ELSE 0)
                                  + (IF TRUE THEN sold.reserved ELSE 0)
          /\ value2 = value - (IF TRUE THEN was ELSE 0)
                            + (IF TRUE THEN is ELSE 0)
      BY <1>3, <1>11, <2>9, <2>11, <3>1, StreamAfter
    <3>3. is = was - worth /\ was \in Int /\ worth \in Int
      <4>1. is = (lots[l].onHand - q) * cost /\ was = lots[l].onHand * cost
        BY <1>11
      <4>2. /\ (lots[l].onHand - q) * cost = lots[l].onHand * cost - q * cost
            /\ q * cost \in Int /\ lots[l].onHand * cost \in Int
        <5>1. lots[l].onHand \in Int
          BY <1>5
        <5> QED BY ONLY <1>3, <1>5, <5>1, Products
      <4> QED BY <4>1, <4>2
    <3>4. /\ proj[s].onHand = onHand /\ proj[s].reserved = reserved /\ proj[s].total = value
      BY <2>2, <2>4 DEF ProjectionAgrees
    <3>5. level.total = proj[s].total - worth
      BY <2>6
    <3> HIDE DEF onHand, reserved, value, onHand2, reserved2, value2, was, is, worth
    <3>6. onHand2 = onHand - q /\ reserved2 = reserved - q
      BY <1>3, <1>5, <1>11, <3>2
    <3>7. value2 = value - worth
      BY <3>2, <3>3
    <3>8. proj'[s] = level /\ LastHash(s)' = h
      BY <2>7, <2>10
    <3>9. /\ level.onHand = onHand2 /\ level.reserved = reserved2
          /\ level.total = value2 /\ level.last = h
      BY <2>6, <3>4, <3>5, <3>6, <3>7
    <3> QED BY <3>8, <3>9 DEF ProjectionAgrees, onHand2, reserved2, value2
  <2> QED BY <2>7, <2>8, <2>12, <2>13
<1>25. OwnLots'
  <2>1. faults' = 0 => faults = 0
    BY <1>6, <1>7, NoFault DEF IInv
  <2>2. job'.op # "reserve"
    BY <1>2, <1>7 DEF Idle, FulfilJob
  <2>3. \A b \in DOMAIN allocs : allocs[b].lot \in DOMAIN lots
    BY DEF IInv, Work
  <2> QED BY <1>15, <1>16, <1>17, <2>1, <2>2, <2>3 DEF IInv, OwnLots
<1>26. Sourced'
  <2>1. faults' = 0 => faults = 0
    BY <1>6, <1>7, NoFault DEF IInv
  <2> QED BY <1>13, <1>14, <2>1 DEF IInv, Sourced
<1>27. ReceiptTraceable'
  <2> SUFFICES ASSUME faults' = 0, NEW r \in Receipts
               PROVE  /\ Settled(r)'
                      /\ \A i \in Sales(r)' : \E j \in 1..(i - 1) :
                            events'[j].type = "RECEIVE" /\ events'[j].lot = events'[i].lot
    BY DEF ReceiptTraceable
  <2>1. faults = 0 /\ n = 4
    BY <1>6, <1>7, NoFault DEF IInv
  <2>2. events' = Append(events, e) /\ allocs' = Put(allocs, a, done) /\ TypeOK
    BY <1>7, <2>1 DEF IInv
  <2>3. /\ Settled(r)
        /\ \A i \in Sales(r) : \E j \in 1..(i - 1) :
              events[j].type = "RECEIVE" /\ events[j].lot = events[i].lot
    BY <2>1 DEF IInv, ReceiptTraceable
  <2>4. ASSUME NEW i \in Sales(r)'
        PROVE  \E j \in 1..(i - 1) : events'[j].type = "RECEIVE" /\ events'[j].lot = events'[i].lot
    <3>1. Sales(r)' = Sales(r) \cup (IF e.type = "SELL" /\ e.receipt = {r} THEN {h} ELSE {})
      BY <1>8, <2>2, SalesAfter DEF h
    <3>2. i \in Sales(r) \/ i = h
      BY <2>4, <3>1
    <3>3. DOMAIN events = 1..Len(events) /\ Len(events) \in Nat
      BY <1>8
    <3>4. CASE i \in Sales(r)
      <4>1. PICK j \in 1..(i - 1) : events[j].type = "RECEIVE" /\ events[j].lot = events[i].lot
        BY <2>3, <3>4
      <4>2. i \in DOMAIN events
        BY <3>4 DEF Sales
      <4>3. j \in DOMAIN events
        BY <3>3, <4>2
      <4> QED BY <1>14, <4>1, <4>2, <4>3
    <3>5. CASE i = h
      <4>1. PICK j \in DOMAIN events : events[j].type = "RECEIVE" /\ events[j].lot = l
        BY <1>4, <2>1 DEF IInv, Sourced
      <4>2. j \in 1..(h - 1)
        BY <3>3, <4>1 DEF h
      <4>3. events'[j] = events[j] /\ events'[h].lot = l
        BY <1>9, <1>14, <2>1, <4>1
      <4> QED BY <3>5, <4>1, <4>2, <4>3
    <3> QED BY <3>2, <3>4, <3>5
  <2>5. Settled(r)'
    BY <1>2, <1>3, <1>8, <1>9, <1>10, <2>2, <2>3, SaleSettles
  <2> QED BY <2>4, <2>5
<1> QED
  BY <1>1, <1>18, <1>19, <1>21, <1>22, <1>23, <1>24, <1>25, <1>26, <1>27 DEF IInv
-----------------------------------------------------------------------------
(* The invariant holds of both specifications *)

\* A step of either specification, with goods receipts of any quantity.
LedgerNext ==
    \/ \E t \in Tenants, k \in Skus, l \in LotIds, q \in Int, c \in Costs,
          given \in ReceiveOptions, at \in 0..MaxTime, vc \in VCChoices, n \in 0..3 :
           ReceiveGoods(t, k, l, q, c, given, at, vc, n)
    \/ Reserve \/ Fulfil \/ Crash
    \/ \E o \in offers, ok \in BOOLEAN : OfferAnswered(o, ok)

LEMMA InitIInv == Init => IInv
<1> SUFFICES ASSUME Init PROVE IInv
  OBVIOUS
<1>1. /\ DOMAIN lots = {} /\ DOMAIN allocs = {} /\ DOMAIN proj = {} /\ events = <<>>
      /\ DOMAIN events = {} /\ job = Idle /\ faults = 0 /\ offers = {}
  BY DEF Init, EmptyTable
<1>2. TypeOK
  <2>1. events \in Seq(Event)
    BY <1>1
  <2>2. IsTable(lots, LotIds, Lot) /\ IsTable(allocs, AllocIds, Alloc) /\ IsTable(proj, Streams, Level)
    BY EmptyType DEF Init
  <2> QED BY <1>1, <2>1, <2>2, InventoryAssumption DEF TypeOK
<1>3. Work /\ OwnLots
  BY <1>1 DEF Work, OwnLots, Idle
<1>4. Stocked /\ Backed /\ LedgerExplainsLots /\ Mirrored /\ ProjectionMatchesLots /\ Sourced
  BY <1>1 DEF Stocked, Backed, LedgerExplainsLots, Mirrored, ProjectionMatchesLots, Sourced
<1>5. ASSUME NEW s PROVE Chained(s)
  <2>1. StreamEvents(s) = {}
    BY <1>1 DEF StreamEvents
  <2> QED BY <2>1 DEF Chained, WellChained
<1>6. ReceiptTraceable
  <2> SUFFICES ASSUME NEW r \in Receipts PROVE Settled(r) /\ Sales(r) = {}
    BY DEF ReceiptTraceable
  <2>1. \A l : SalesFrom(r, l) = {} /\ PaidFrom(r, l) = {} /\ Sales(r) = {}
    BY <1>1 DEF SalesFrom, Sales, PaidFrom
  <2>2. ASSUME NEW l
        PROVE  Net([i \in SalesFrom(r, l) |-> -events[i].qty])
                 = Net([a \in PaidFrom(r, l) |-> allocs[a].qty])
    <3> DEFINE f == [i \in SalesFrom(r, l) |-> -events[i].qty]
               g == [a \in PaidFrom(r, l) |-> allocs[a].qty]
    <3>1. DOMAIN f = {} /\ DOMAIN g = {}
      BY <2>1
    <3> HIDE DEF f, g
    <3>2. Net(f) = 0 /\ Net(g) = 0
      BY <3>1, NetEmpty
    <3> QED BY <3>2 DEF f, g
  <2> QED BY <2>1, <2>2 DEF Settled
<1> QED
  BY <1>2, <1>3, <1>4, <1>5, <1>6 DEF IInv

LEMMA LedgerStep ==
    ASSUME IInv, LedgerNext \/ UNCHANGED vars
    PROVE  IInv'
<1>1. CASE \E t \in Tenants, k \in Skus, l \in LotIds, q \in Int, c \in Costs,
              given \in ReceiveOptions, at \in 0..MaxTime, vc \in VCChoices, n \in 0..3 :
                 ReceiveGoods(t, k, l, q, c, given, at, vc, n)
  BY <1>1, ReceiveIInv
<1>2. CASE Reserve
  <2>1. CASE \E t \in Tenants, c \in Carts, m \in 1..MaxLines :
                 \E lines \in [1..m -> Lines(t)] : ReserveStock(t, c, lines)
    BY <2>1, ReserveStockIInv
  <2>2. CASE \E l \in LotIds, a \in AllocIds, n \in 0..4 : ReserveLine(l, a, n)
    BY <2>2, ReserveLineIInv
  <2>3. CASE ReserveRefused
    BY <2>3, QuietIInv DEF ReserveRefused
  <2> QED BY <1>2, <2>1, <2>2, <2>3 DEF Reserve
<1>3. CASE Fulfil
  BY <1>3, FulfillSaleIInv, FulfillAllocationIInv DEF Fulfil
<1>4. CASE Crash
  BY <1>4, QuietIInv DEF Crash
<1>5. CASE \E o \in offers, ok \in BOOLEAN : OfferAnswered(o, ok)
  BY <1>5, OfferAnsweredIInv
<1>6. CASE UNCHANGED vars
  BY <1>6, QuietIInv DEF vars
<1> QED
  BY <1>1, <1>2, <1>3, <1>4, <1>5, <1>6 DEF LedgerNext

LEMMA NextIsLedgerNext == Next => LedgerNext
BY InventoryAssumption DEF Next, LedgerNext, Receive

LEMMA CommerceIsLedgerNext == CommerceNext => LedgerNext \/ UNCHANGED vars
<1> SUFFICES ASSUME CommerceNext PROVE LedgerNext \/ UNCHANGED vars
  OBVIOUS
<1>1. CASE Goods
  BY <1>1, CommerceAssumption DEF Goods, LedgerNext
<1>2. CASE Reserve
  BY <1>2 DEF LedgerNext
<1>3. CASE \E t \in Tenants, c \in Carts, r \in Receipts : IssueReceipt(t, c, r)
  BY <1>3 DEF IssueReceipt, LedgerNext, Fulfil
<1>4. CASE \E a \in AllocIds, n \in 0..4 : Sell(a, n)
  BY <1>4 DEF Sell, LedgerNext, Fulfil
<1>5. CASE \E o \in offers, ok \in BOOLEAN : Anchored(o, ok)
  BY <1>5 DEF Anchored, LedgerNext
<1>6. CASE \E r \in Receipts, ok \in BOOLEAN : ReceiptAnswered(r, ok)
  BY <1>6 DEF ReceiptAnswered
<1>7. CASE CrashAll
  BY <1>7 DEF CrashAll, LedgerNext
<1> QED
  BY <1>1, <1>2, <1>3, <1>4, <1>5, <1>6, <1>7 DEF CommerceNext

\* The invariant of the ledger, of the service by itself and of the service as
\* the receipts endpoint uses it, whatever statements fail and processes die.
THEOREM LedgerInvariant == (Spec => []IInv) /\ (CommerceSpec => []IInv)
<1>1. Init => IInv
  BY InitIInv
<1>2. IInv /\ [Next]_vars => IInv'
  BY NextIsLedgerNext, LedgerStep
<1>3. CommerceInit => IInv
  BY InitIInv DEF CommerceInit
<1>4. IInv /\ [CommerceNext]_commerceVars => IInv'
  BY CommerceIsLedgerNext, LedgerStep DEF commerceVars
<1>5. Spec => []IInv
  BY <1>1, <1>2, PTL DEF Spec
<1>6. CommerceSpec => []IInv
  BY <1>3, <1>4, PTL DEF CommerceSpec
<1> QED
  BY <1>5, <1>6

\* The tables of InventoryService.ts keep their types, whatever fails.
THEOREM TypeCorrect == Spec \/ CommerceSpec => []TypeOK
<1>1. IInv => TypeOK
  BY DEF IInv
<1> QED
  BY <1>1, LedgerInvariant, PTL

\* Without failed statements, what a lot counts as reserved is what the reserved
\* allocations hold of it; and if no negative quantity was received into it or
\* reserved on it, it has every unit they promise on hand.
THEOREM ReservationsAreBacked == Spec \/ CommerceSpec => []ReservationsBacked
<1>1. IInv => ReservationsBacked
  <2> SUFFICES ASSUME IInv, faults = 0, NEW l \in DOMAIN lots
               PROVE  LET held == [a \in Held(l) |-> allocs[a].qty]
                      IN /\ lots[l].reserved = Net(held)
                         /\ lots[l].initial >= 0 /\ Unsigned(l) => Total(held) <= lots[l].onHand
    BY DEF ReservationsBacked
  <2> DEFINE D == Held(l)
             held == [a \in D |-> allocs[a].qty]
  <2>1. lots[l].reserved = Net([a \in Held(l) |-> allocs[a].qty])
    BY DEF IInv, Backed
  <2>2. ASSUME lots[l].initial >= 0, Unsigned(l)
        PROVE  Total(held) <= lots[l].onHand
    <3>1. Available(l) >= 0 /\ lots[l] \in Lot
      BY <2>2 DEF IInv, Stocked, TypeOK, IsTable
    <3>2. lots[l].reserved \in Int /\ lots[l].onHand \in Int
      BY <3>1 DEF Lot
    <3>3. lots[l].onHand - lots[l].reserved >= 0
      BY <3>1 DEF Available
    <3>4. IsFiniteSet(D) /\ \A a \in D : allocs[a].qty \in Int /\ allocs[a].qty >= 0
      <4>1. D \subseteq DOMAIN allocs /\ IsFiniteSet(D)
        <5>1. D \subseteq DOMAIN allocs
          BY DEF Held
        <5> QED BY <5>1, FiniteTables DEF IInv
      <4>2. \A a \in DOMAIN allocs : allocs[a] \in Alloc
        BY DEF IInv, TypeOK, IsTable
      <4>3. \A a \in DOMAIN allocs : allocs[a].qty \in Int
        BY <4>2 DEF Alloc
      <4> QED BY <2>2, <4>1, <4>3 DEF Unsigned, Held
    <3>5. held \in [D -> Int] /\ \A a \in D : held[a] >= 0
      <4> HIDE DEF D
      <4> QED BY <3>4
    <3>6. Net(held) = lots[l].reserved
      BY <2>1
    <3> HIDE DEF D, held
    <3>7. Net(held) = Total(held)
      BY <3>4, <3>5, NetNat
    <3> QED BY <3>2, <3>3, <3>6, <3>7
  <2> QED BY <2>1, <2>2
<1> QED
  BY <1>1, LedgerInvariant, PTL

\* The ledger is the source of truth: without failed statements what a lot has
\* on hand is what its RECEIVE events brought less what its SELL events took.
THEOREM LedgerIsExplained == Spec \/ CommerceSpec => []LedgerExplainsLots
<1>1. IInv => LedgerExplainsLots
  BY DEF IInv
<1> QED
  BY <1>1, LedgerInvariant, PTL

\* The stock levels shown for a stream are the sums over its lots, and its hash
\* is the end of its chain, while no statement failed and preferredLotId names
\* lots of the stream asked for.
THEOREM ProjectionsMatch == Spec \/ CommerceSpec => []ProjectionMatchesLots
<1>1. IInv => ProjectionMatchesLots
  BY DEF IInv
<1> QED
  BY <1>1, LedgerInvariant, PTL

\* Whatever fails, verifyEventChain finds no wrong link and no gap in a stream
\* it reads whole.
THEOREM ChainsAreLinked == Spec \/ CommerceSpec => []ChainLinked
<1>1. IInv => ChainLinked
  BY ChainVerifies DEF IInv, TypeOK, ChainLinked
<1> QED
  BY <1>1, LedgerInvariant, PTL

\* Without failed statements a receipt's SELL events are, lot by lot, the
\* allocations fulfilled under it, and each leads back to a goods receipt.
THEOREM ReceiptsAreTraceable == Spec \/ CommerceSpec => []ReceiptTraceable
<1>1. IInv => ReceiptTraceable
  BY DEF IInv
<1> QED
  BY <1>1, LedgerInvariant, PTL
-----------------------------------------------------------------------------
(* The inductive invariant of the receipts *)

\* What a receipt that is offered, or may be, lists: all of its sales, which are
\* settled, or none after a statement failed.
Lists(r, listed) == \/ listed = Sales(r) /\ Settled(r)
                    \/ listed = {} /\ faults > 0

CommerceTypeOK ==
    /\ IsTable(requests, Receipts, Request)
    /\ IsTable(issued, Receipts, SUBSET Nat)
    /\ IsFiniteSet(DOMAIN issued)

InSale(r) == job.op = "fulfil" /\ job.receipt = r

\* The sale in its loop belongs to a call that waits for it, and has summed up
\* its events so far.  A call past its sale, and a receipt offered, list what
\* they may; no receipt is both.
Receipted ==
    /\ \A r \in Receipts : InSale(r) =>
          /\ r \in DOMAIN requests /\ requests[r].at = "sale"
          /\ job.sold = Sales(r) /\ Settled(r)
    /\ DOMAIN requests \cap DOMAIN issued = {}
    /\ \A r \in DOMAIN requests : requests[r].at = "sale" \/ Lists(r, requests[r].listed)
    /\ \A r \in DOMAIN issued : Lists(r, issued[r])

\* The receipt an allocation was fulfilled under is on an event.
Witnessed ==
    \A a \in DOMAIN allocs : \A r \in allocs[a].receipt :
        \E i \in DOMAIN events : r \in events[i].receipt

IssuedFrom(l) == {a \in AllocsOf(l) : \E r \in DOMAIN issued : allocs[a].receipt = {r}}

\* What the offered receipts list of a lot was allocated to their carts, unless
\* a negative quantity was reserved on it.
Allotted ==
    \A l \in LotIds : Unsigned(l) =>
        ListedUnits(l) <= Net([a \in IssuedFrom(l) |-> allocs[a].qty])

CInv == IInv /\ CommerceTypeOK /\ Receipted /\ Witnessed /\ Allotted


-----------------------------------------------------------------------------
(* What a step does to a receipt *)

\* The log grows by no sale under the receipt.
NoSaleOf(r) ==
    \/ events' = events
    \/ \E e \in Event : events' = Append(events, e) /\ ~(e.type = "SELL" /\ e.receipt = {r})

\* Whatever happens under another receipt leaves a receipt's sales and its
\* payments alone.
LEMMA SettledKept ==
    ASSUME TypeOK, NEW r, Settled(r), NoSaleOf(r),
           \A m \in LotIds : PaidFrom(r, m)' = PaidFrom(r, m),
           \A b \in DOMAIN allocs : allocs'[b].qty = allocs[b].qty
    PROVE  Sales(r)' = Sales(r) /\ Settled(r)'
<1>1. Sales(r)' = Sales(r)
  <2>1. CASE events' = events
    BY <2>1 DEF Sales
  <2>2. ASSUME NEW e \in Event, events' = Append(events, e), ~(e.type = "SELL" /\ e.receipt = {r})
        PROVE  Sales(r)' = Sales(r)
    <3>1. events \in Seq(Event) /\ e \in Event
      BY DEF TypeOK
    <3>2. Sales(r)' = Sales(r) \cup (IF e.type = "SELL" /\ e.receipt = {r}
                                     THEN {Len(events) + 1} ELSE {})
      BY ONLY <2>2, <3>1, SalesAfter
    <3> QED BY <2>2, <3>2
  <2> QED BY <2>1, <2>2 DEF NoSaleOf
<1>2. \A i \in Sales(r) : events'[i] = events[i]
  <2>1. CASE events' = events
    BY <2>1
  <2>2. ASSUME NEW e \in Event, events' = Append(events, e)
        PROVE  \A i \in Sales(r) : events'[i] = events[i]
    BY <2>2, Appended DEF TypeOK, Sales
  <2> QED BY <2>1, <2>2 DEF NoSaleOf
<1>3. ASSUME NEW m \in LotIds
      PROVE  /\ [i \in SalesFrom(r, m) |-> -events[i].qty]' = [i \in SalesFrom(r, m) |-> -events[i].qty]
             /\ [b \in PaidFrom(r, m) |-> allocs[b].qty]' = [b \in PaidFrom(r, m) |-> allocs[b].qty]
  <2>1. SalesFrom(r, m)' = SalesFrom(r, m) /\ \A i \in SalesFrom(r, m) : events'[i] = events[i]
    BY <1>1, <1>2 DEF SalesFrom
  <2>2. \A b \in PaidFrom(r, m) : allocs'[b].qty = allocs[b].qty
    BY DEF PaidFrom
  <2> QED BY <2>1, <2>2
<1>4. Settled(r)'
  <2> SUFFICES ASSUME NEW m \in LotIds
               PROVE  Net([i \in SalesFrom(r, m) |-> -events[i].qty])'
                        = Net([b \in PaidFrom(r, m) |-> allocs[b].qty])'
    BY DEF Settled
  <2> QED BY <1>3 DEF Settled
<1> QED
  BY <1>1, <1>4

\* What the events of a set took from a lot.
TakenFrom(log, set, l) == Net([i \in {j \in set : log[j].lot = l} |-> -log[i].qty])

LEMMA TakenType ==
    ASSUME TypeOK, NEW set, set \subseteq DOMAIN events, NEW l
    PROVE  TakenFrom(events, set, l) \in Int
<1> DEFINE D == {j \in set : events[j].lot = l}
           f == [i \in D |-> -events[i].qty]
<1>1. IsFiniteSet(D)
  BY FiniteLog DEF TypeOK
<1>2. f \in [D -> Int]
  <2>1. \A i \in D : events[i] \in Event
    BY DEF TypeOK
  <2>2. \A z \in Event : -z.qty \in Int
    BY DEF Event
  <2> QED BY <2>1, <2>2
<1> HIDE DEF D, f
<1>3. Net(f) \in Int
  BY <1>1, <1>2, NetType
<1> QED
  BY <1>3 DEF TakenFrom, D, f

LEMMA TakenKept ==
    ASSUME NEW log, NEW next, NEW set,
           \A i \in set : next[i].lot = log[i].lot /\ next[i].qty = log[i].qty, NEW l
    PROVE  TakenFrom(next, set, l) = TakenFrom(log, set, l)
<1> DEFINE D == {j \in set : log[j].lot = l}
<1>1. {j \in set : next[j].lot = l} = D /\ \A i \in D : next[i].qty = log[i].qty
  OBVIOUS
<1>2. [i \in {j \in set : next[j].lot = l} |-> -next[i].qty] = [i \in D |-> -log[i].qty]
  BY <1>1
<1> QED
  BY <1>2 DEF TakenFrom

LEMMA ListedIsTaken ==
    ASSUME NEW l
    PROVE  ListedUnits(l) = Net([r \in DOMAIN issued |-> TakenFrom(events, issued[r], l)])
BY DEF ListedUnits, TakenFrom

\* What a receipt may list are events of the log.
LEMMA ListedEvents ==
    ASSUME NEW r, NEW listed, Lists(r, listed)
    PROVE  listed \subseteq DOMAIN events
BY DEF Lists, Sales

\* Steps that keep the events and the payments of offered receipts, and offer none.
LEMMA AllottedKept ==
    ASSUME Receipted, Allotted, issued' = issued,
           \A i \in DOMAIN events : events'[i].lot = events[i].lot /\ events'[i].qty = events[i].qty,
           \A b \in DOMAIN allocs : /\ b \in DOMAIN allocs' /\ allocs'[b].lot = allocs[b].lot
                                     /\ allocs'[b].qty = allocs[b].qty,
           \A r \in DOMAIN issued : \A l \in LotIds : PaidFrom(r, l)' = PaidFrom(r, l)
    PROVE  Allotted'
<1> SUFFICES ASSUME NEW l \in LotIds, Unsigned(l)'
             PROVE  ListedUnits(l)' <= Net([a \in IssuedFrom(l) |-> allocs[a].qty])'
  BY DEF Allotted
<1>1. ListedUnits(l)' = ListedUnits(l)
  <2>1. ASSUME NEW r \in DOMAIN issued
        PROVE  TakenFrom(events', issued[r], l) = TakenFrom(events, issued[r], l)
    <3>1. issued[r] \subseteq DOMAIN events
      BY ListedEvents DEF Receipted
    <3> DEFINE next == events'
               set == issued[r]
    <3>2. \A i \in set : next[i].lot = events[i].lot /\ next[i].qty = events[i].qty
      BY <3>1
    <3> HIDE DEF next, set
    <3>3. TakenFrom(next, set, l) = TakenFrom(events, set, l)
      BY <3>2, TakenKept
    <3> QED BY <3>3 DEF next, set
  <2>2. [r \in DOMAIN issued |-> TakenFrom(events, issued[r], l)]'
          = [r \in DOMAIN issued |-> TakenFrom(events, issued[r], l)]
    BY <2>1
  <2>3. ListedUnits(l)' = Net([r \in DOMAIN issued |-> TakenFrom(events, issued[r], l)])'
    BY DEF ListedUnits, TakenFrom
  <2> QED BY <2>2, <2>3, ListedIsTaken
<1>2. IssuedFrom(l)' = IssuedFrom(l)
  <2>1. \A a : a \in IssuedFrom(l) <=> \E r \in DOMAIN issued : a \in PaidFrom(r, l)
    BY DEF IssuedFrom, AllocsOf, PaidFrom
  <2>2. \A a : a \in IssuedFrom(l)' <=> \E r \in DOMAIN issued' : a \in PaidFrom(r, l)'
    BY DEF IssuedFrom, AllocsOf, PaidFrom
  <2> QED BY <2>1, <2>2
<1>3. \A b \in IssuedFrom(l) : allocs'[b].qty = allocs[b].qty
  BY DEF IssuedFrom, AllocsOf
<1>4. [a \in IssuedFrom(l) |-> allocs[a].qty]' = [a \in IssuedFrom(l) |-> allocs[a].qty]
  BY <1>2, <1>3
<1>5. Unsigned(l)
  BY DEF Unsigned
<1> QED
  BY <1>1, <1>4, <1>5 DEF Allotted

-----------------------------------------------------------------------------
(* Every step keeps the invariant of the receipts *)

\* A step of goods receipts and reservations: an event at most that is no sale,
\* a new allocation at most that is not paid, and no sale in its loop.
NoSale ==
    /\ \/ events' = events
       \/ \E e \in Event : events' = Append(events, e) /\ e.type # "SELL"
    /\ \A b \in DOMAIN allocs : b \in DOMAIN allocs' /\ allocs'[b] = allocs[b]
    /\ \A b \in DOMAIN allocs' : b \in DOMAIN allocs \/ allocs'[b].receipt = {}
    /\ job.op # "fulfil" /\ job'.op # "fulfil"

LEMMA ReceiveNoSale ==
    ASSUME IInv, NEW t \in Tenants, NEW k \in Skus, NEW l \in LotIds,
           NEW q \in Int, NEW cost \in Costs, NEW given \in ReceiveOptions,
           NEW at \in 0..MaxTime, NEW vc \in VCChoices, NEW n \in 0..3,
           ReceiveGoods(t, k, l, q, cost, given, at, vc, n)
    PROVE  NoSale
<1> DEFINE e == NewEvent("RECEIVE", <<t, k>>, l, q, given \cup {"currency"}, {})
<1>1. e \in Event /\ e.type # "SELL"
  <2>1. <<t, k>> \in Streams /\ given \cup {"currency"} \in SUBSET OptionalKeys
    BY InventoryAssumption DEF Streams, OptionalKeys
  <2>2. e \in Event
    BY <2>1, NewEventType DEF IInv, TypeOK
  <2> QED BY <2>2 DEF NewEvent
<1>2. events' \in {events, Append(events, e)} /\ UNCHANGED <<allocs, job>> /\ job = Idle
  BY DEF ReceiveGoods
<1> HIDE DEF e
<1> QED
  BY <1>1, <1>2 DEF NoSale, Idle

LEMMA ReserveNoSale == IInv /\ Reserve => NoSale
<1> SUFFICES ASSUME IInv, Reserve PROVE NoSale
  OBVIOUS
<1>1. ASSUME NEW t \in Tenants, NEW c \in Carts, NEW lines, ReserveStock(t, c, lines)
      PROVE  NoSale
  BY <1>1 DEF ReserveStock, NoSale, Idle
<1>2. ASSUME NEW l \in LotIds, NEW a \in AllocIds, NEW n \in 0..4, ReserveLine(l, a, n)
      PROVE  NoSale
  <2> DEFINE line == Head(job.todo)
             s == <<job.tenant, line.sku>>
             e == NewEvent("RESERVE", s, l, -line.qty, {}, {})
             row == [tenant |-> job.tenant, lot |-> l, cart |-> job.cart, qty |-> line.qty,
                     status |-> "reserved", receipt |-> {}]
  <2>1. job \in ReserveJob /\ job.todo # <<>> /\ job.op = "reserve"
    BY <1>2, JobKinds DEF ReserveLine, IInv, TypeOK, Work
  <2>2. line \in Line
    BY <2>1 DEF ReserveJob
  <2>3. s \in Streams /\ -line.qty \in Int
    <3> HIDE DEF line
    <3>1. s \in Streams /\ line.qty \in Quantities
      BY <2>1, <2>2 DEF Streams, ReserveJob, Line
    <3>2. line.qty \in Int
      BY <3>1, InventoryAssumption
    <3> QED BY <3>1, <3>2
  <2>4. /\ events' \in {events, Append(events, e)}
        /\ a \notin DOMAIN allocs /\ allocs' \in {allocs, Put(allocs, a, row)}
        /\ job' \in {Idle, [job EXCEPT !.todo = Tail(@)]}
    BY <1>2 DEF ReserveLine
  <2>5. e.type # "SELL" /\ row.receipt = {}
    BY DEF NewEvent
  <2> HIDE DEF line, s
  <2>6. e \in Event
    BY <2>3, NewEventType DEF IInv, TypeOK
  <2>7. job'.op # "fulfil"
    BY <2>1, <2>4 DEF Idle, ReserveJob
  <2> HIDE DEF e, row
  <2>8. /\ \A b \in DOMAIN allocs : b \in DOMAIN allocs' /\ allocs'[b] = allocs[b]
        /\ \A b \in DOMAIN allocs' : b \in DOMAIN allocs \/ allocs'[b].receipt = {}
    BY <2>4, <2>5 DEF Put
  <2> QED BY <2>1, <2>4, <2>5, <2>6, <2>7, <2>8 DEF NoSale
<1>3. CASE ReserveRefused
  BY <1>3 DEF ReserveRefused, NoSale, Idle
<1> QED
  BY <1>1, <1>2, <1>3 DEF Reserve

\* Such a step pays nothing and is no sale under any receipt.
LEMMA NoSaleKeeps ==
    ASSUME IInv, NoSale, NEW r
    PROVE  /\ \A m : PaidFrom(r, m)' = PaidFrom(r, m)
           /\ NoSaleOf(r)
           /\ Settled(r) => Sales(r)' = Sales(r) /\ Settled(r)'
<1>1. \A m : PaidFrom(r, m)' = PaidFrom(r, m)
  BY DEF NoSale, PaidFrom
<1>2. NoSaleOf(r)
  BY DEF NoSale, NoSaleOf
<1>3. \A b \in DOMAIN allocs : allocs'[b].qty = allocs[b].qty
  BY DEF NoSale
<1>4. TypeOK
  BY DEF IInv
<1> QED
  BY <1>1, <1>2, <1>3, <1>4, SettledKept

\* The number of faults never falls.
LEMMA FaultsStay ==
    ASSUME TypeOK, LedgerNext \/ UNCHANGED vars, faults > 0
    PROVE  faults' > 0
<1>1. faults \in Nat
  BY InventoryAssumption DEF TypeOK
<1> DEFINE P == faults' = faults \/ faults' = faults + 1
<1>2. ASSUME NEW t, NEW k, NEW l, NEW q, NEW c, NEW given, NEW at, NEW vc, NEW n,
             ReceiveGoods(t, k, l, q, c, given, at, vc, n)
      PROVE  P
  BY <1>2 DEF ReceiveGoods, Outcome
<1>3. ASSUME NEW t, NEW c, NEW lines, ReserveStock(t, c, lines) PROVE P
  BY <1>3 DEF ReserveStock
<1>4. ASSUME NEW l, NEW a, NEW n, ReserveLine(l, a, n) PROVE P
  BY <1>4 DEF ReserveLine, Outcome
<1>5. ReserveRefused => P
  BY DEF ReserveRefused
<1>6. ASSUME NEW t, NEW c, NEW r, FulfillSale(t, c, r) PROVE P
  BY <1>6 DEF FulfillSale
<1>7. ASSUME NEW a, NEW n, FulfillAllocation(a, n) PROVE P
  BY <1>7 DEF FulfillAllocation, Outcome
<1>8. ASSUME NEW o, NEW ok, OfferAnswered(o, ok) PROVE P
  BY <1>8 DEF OfferAnswered
<1>9. Crash \/ UNCHANGED vars => P
  BY DEF Crash, vars
<1> HIDE DEF P
<1>10. P
  BY <1>2, <1>3, <1>4, <1>5, <1>6, <1>7, <1>8, <1>9 DEF LedgerNext, Reserve, Fulfil
<1> QED
  BY <1>1, <1>10 DEF P

LEMMA NoSaleCInv ==
    ASSUME CInv, IInv', NoSale, faults > 0 => faults' > 0, UNCHANGED <<requests, issued>>
    PROVE  CInv'
<1>1. CommerceTypeOK'
  BY DEF CInv, CommerceTypeOK
<1>2. ASSUME NEW r, NEW listed, Lists(r, listed) PROVE Lists(r, listed)'
  BY <1>2, NoSaleKeeps DEF CInv, Lists
<1>3. Receipted'
  <2>1. DOMAIN requests \cap DOMAIN issued = {} /\ job'.op # "fulfil"
    BY DEF CInv, Receipted, NoSale
  <2>2. \A r \in DOMAIN requests : requests[r].at = "sale" \/ Lists(r, requests[r].listed)'
    BY <1>2 DEF CInv, Receipted
  <2>3. \A r \in DOMAIN issued : Lists(r, issued[r])'
    BY <1>2 DEF CInv, Receipted
  <2> QED BY <2>1, <2>2, <2>3 DEF Receipted, InSale, Lists
<1>4. \A i \in DOMAIN events : i \in DOMAIN events' /\ events'[i] = events[i]
  <2>1. ASSUME NEW e \in Event, events' = Append(events, e)
        PROVE  \A i \in DOMAIN events : i \in DOMAIN events' /\ events'[i] = events[i]
    BY <2>1, Appended DEF CInv, IInv, TypeOK
  <2> QED BY <2>1 DEF NoSale
<1>5. Witnessed'
  BY <1>4 DEF CInv, Witnessed, NoSale
<1>6. Allotted'
  <2>1. \A b \in DOMAIN allocs : /\ b \in DOMAIN allocs' /\ allocs'[b].lot = allocs[b].lot
                                 /\ allocs'[b].qty = allocs[b].qty
    BY DEF NoSale
  <2>2. \A r \in DOMAIN issued : \A l \in LotIds : PaidFrom(r, l)' = PaidFrom(r, l)
    BY NoSaleKeeps DEF CInv
  <2> QED BY <1>4, <2>1, <2>2, AllottedKept DEF CInv
<1> QED
  BY <1>1, <1>3, <1>5, <1>6 DEF CInv

\* A step that leaves events and allocations alone leaves the receipts as they are.
LEMMA SameSettled ==
    ASSUME events' = events, allocs' = allocs, NEW r
    PROVE  Sales(r)' = Sales(r) /\ (Settled(r) => Settled(r)')
BY KeptSales DEF LogKept

LEMMA IssueCInv ==
    ASSUME CInv, IInv', NEW t \in Tenants, NEW c \in Carts, NEW r \in Receipts,
           IssueReceipt(t, c, r)
    PROVE  CInv'
<1>1. /\ r \notin DOMAIN requests /\ r \notin DOMAIN issued
      /\ \A i \in DOMAIN events : r \notin events[i].receipt
      /\ UNCHANGED <<lots, allocs, events, proj, offers, faults, issued>>
  BY DEF IssueReceipt, FulfillSale, vars
<1>2. /\ job.op = "idle"
      /\ \/ /\ requests' = At(r, "sale", {})
            /\ job' = [op |-> "fulfil", tenant |-> t, receipt |-> r,
                       todo |-> CartAllocations(t, c), sold |-> {}]
         \/ requests' = At(r, "receipt", {}) /\ job' = job
  BY DEF IssueReceipt, FulfillSale, vars, Idle
<1>3. Sales(r) = {}
  BY <1>1 DEF Sales
<1>4. Settled(r)
  <2> SUFFICES ASSUME NEW l \in LotIds
               PROVE  Net([i \in SalesFrom(r, l) |-> -events[i].qty])
                        = Net([a \in PaidFrom(r, l) |-> allocs[a].qty])
    BY DEF Settled
  <2> DEFINE f == [i \in SalesFrom(r, l) |-> -events[i].qty]
             g == [a \in PaidFrom(r, l) |-> allocs[a].qty]
  <2>1. DOMAIN f = {} /\ DOMAIN g = {}
    <3>1. SalesFrom(r, l) = {}
      BY <1>3 DEF SalesFrom
    <3>2. PaidFrom(r, l) = {}
      BY <1>1 DEF CInv, Witnessed, PaidFrom
    <3> QED BY <3>1, <3>2
  <2> HIDE DEF f, g
  <2>2. Net(f) = 0 /\ Net(g) = 0
    BY <2>1, NetEmpty
  <2> QED BY <2>2 DEF f, g
<1>7. CommerceTypeOK'
  <2>1. [at |-> "sale", listed |-> {}] \in Request /\ [at |-> "receipt", listed |-> {}] \in Request
    BY DEF Request
  <2>2. requests' \in {At(r, "sale", {}), At(r, "receipt", {})}
    BY <1>2
  <2>3. IsTable(requests', Receipts, Request)
    BY <2>1, <2>2, PutType DEF CInv, CommerceTypeOK, At
  <2> QED BY <1>1, <2>3 DEF CInv, CommerceTypeOK
<1>8. /\ DOMAIN requests' = DOMAIN requests \cup {r}
      /\ \A x \in DOMAIN requests : requests'[x] = requests[x]
      /\ requests'[r].listed = {} /\ requests'[r].at \in {"sale", "receipt"}
      /\ job'.op = "fulfil" => requests'[r].at = "sale" /\ job'.receipt = r /\ job'.sold = {}
  BY <1>1, <1>2 DEF At, Put
<1>9. Receipted'
  <2>1. ASSUME NEW x \in Receipts, InSale(x)'
        PROVE  /\ x \in DOMAIN requests' /\ requests'[x].at = "sale"
               /\ job'.sold = Sales(x)' /\ Settled(x)'
    <3>1. x = r /\ r \in DOMAIN requests' /\ requests'[r].at = "sale" /\ job'.sold = {}
      BY <1>8, <2>1 DEF InSale
    <3>2. Sales(r)' = Sales(r) /\ Settled(r)'
      BY <1>1, <1>4, SameSettled
    <3> QED BY <1>3, <3>1, <3>2
  <2>2. DOMAIN requests' \cap DOMAIN issued' = {}
    BY <1>1, <1>8 DEF CInv, Receipted
  <2>3. ASSUME NEW x \in DOMAIN requests'
        PROVE  requests'[x].at = "sale" \/ Lists(x, requests[x].listed)'
    <3>1. CASE x = r
      <4>1. requests'[x].listed = Sales(x)' /\ Settled(x)'
        BY <1>1, <1>3, <1>4, <1>8, <3>1, SameSettled
      <4> QED BY <4>1 DEF Lists
    <3>2. CASE x # r
      <4>1. requests'[x] = requests[x] /\ (requests[x].at = "sale" \/ Lists(x, requests[x].listed))
        BY <1>8, <3>2 DEF CInv, Receipted
      <4> QED BY <1>1, <4>1, SameSettled DEF Lists
    <3> QED BY <3>1, <3>2
  <2>4. \A x \in DOMAIN issued' : Lists(x, issued[x])'
    BY <1>1, SameSettled DEF CInv, Receipted, Lists
  <2> QED BY <2>1, <2>2, <2>3, <2>4 DEF Receipted, Lists
<1>10. Witnessed'
  BY <1>1 DEF CInv, Witnessed
<1>11. Allotted'
  <2>1. \A x \in DOMAIN issued : \A l \in LotIds : PaidFrom(x, l)' = PaidFrom(x, l)
    BY <1>1 DEF PaidFrom
  <2> QED BY <1>1, <2>1, AllottedKept DEF CInv
<1> QED
  BY <1>7, <1>9, <1>10, <1>11 DEF CInv

LEMMA SellCInv ==
    ASSUME CInv, IInv', NEW a \in AllocIds, NEW n \in 0..4, Sell(a, n)
    PROVE  CInv'
<1> SUFFICES ASSUME NEW l, l = allocs[a].lot, NEW q, q = allocs[a].qty,
                    NEW s, s = <<job.tenant, lots[l].sku>>, NEW rc, rc = job.receipt
             PROVE  CInv'
  OBVIOUS
<1> DEFINE given == {"unitCost", "currency", "actorId"}
           e == NewEvent("SELL", s, l, -q, given, {rc})
           h == Len(events) + 1
           sum == job.sold \cup {h}
           done == [allocs[a] EXCEPT !.status = "fulfilled", !.receipt = {rc}]
<1>1. /\ FulfillAllocation(a, n) /\ UNCHANGED issued
      /\ requests' = IF n < 4 THEN At(rc, "receipt", {})
                     ELSE IF job.todo = {a}
                     THEN At(rc, "anchor", job.sold \cup {Len(events')})
                     ELSE requests
  BY DEF Sell, ListedOnError
<1>2. /\ job \in FulfilJob /\ job.op = "fulfil" /\ a \in job.todo /\ a \in DOMAIN allocs
      /\ allocs[a].receipt = {} /\ rc \in Receipts /\ TypeOK
  <2>1. job \in FulfilJob /\ job.op = "fulfil" /\ a \in job.todo
    BY <1>1, JobKinds DEF FulfillAllocation, CInv, IInv, TypeOK
  <2> QED BY <2>1 DEF CInv, IInv, Work, FulfilJob
<1>3. allocs[a] \in Alloc /\ l \in LotIds /\ q \in Int /\ -q \in Int
  BY <1>2 DEF TypeOK, IsTable, Alloc
<1>4. l \in DOMAIN lots /\ lots[l] \in Lot
  BY <1>2 DEF CInv, IInv, Work, TypeOK, IsTable
<1>5. s \in Streams
  BY <1>2, <1>4 DEF Streams, FulfilJob, Lot
<1>6. /\ events' = IF n >= 2 THEN Append(events, e) ELSE events
      /\ allocs' = IF n >= 3 THEN Put(allocs, a, done) ELSE allocs
      /\ job' = IF n = 4 /\ job.todo # {a}
                THEN [job EXCEPT !.todo = @ \ {a}, !.sold = sum] ELSE Idle
      /\ Outcome(n, 4)
  BY <1>1 DEF FulfillAllocation, Hash
<1>7. e \in Event /\ events \in Seq(Event)
  <2>1. given \in SUBSET OptionalKeys /\ {rc} \in SUBSET Receipts
    BY <1>2 DEF OptionalKeys
  <2> HIDE DEF given
  <2> QED BY <1>2, <1>3, <1>5, <2>1, NewEventType DEF TypeOK
<1>8. e.type = "SELL" /\ e.lot = l /\ e.qty = -q /\ e.receipt = {rc}
  BY DEF NewEvent
<1>9. /\ done \in Alloc /\ done.lot = l /\ done.qty = q /\ done.receipt = {rc}
  BY <1>2, <1>3 DEF Alloc
<1>10. rc \in DOMAIN requests /\ requests[rc].at = "sale" /\ job.sold = Sales(rc) /\ Settled(rc)
       /\ rc \notin DOMAIN issued
  BY <1>2 DEF CInv, Receipted, InSale
<1> HIDE DEF e, h, done, given
<1>11. n \in Nat /\ n <= 4
  OBVIOUS
<1>12. /\ DOMAIN allocs' = DOMAIN allocs
       /\ \A b \in DOMAIN allocs : b # a => allocs'[b] = allocs[b]
       /\ allocs'[a] = IF n >= 3 THEN done ELSE allocs[a]
  BY <1>2, <1>6, <1>11 DEF Put
<1>13. /\ \A i \in DOMAIN events : i \in DOMAIN events' /\ events'[i] = events[i]
       /\ n >= 2 => h \in DOMAIN events' /\ events'[h] = e /\ Len(events') = h
  <2>1. CASE n >= 2
    <3>1. events' = Append(events, e)
      BY <1>6, <2>1
    <3>2. Len(events') = h
      BY <1>7, <3>1 DEF h
    <3> QED BY <1>7, <3>1, <3>2, Appended DEF h
  <2>2. CASE n < 2
    BY <1>6, <1>11, <2>2
  <2> QED BY <1>11, <2>1, <2>2
<1>14. ASSUME NEW r, r # rc
       PROVE  /\ \A m : PaidFrom(r, m)' = PaidFrom(r, m)
              /\ Settled(r) => Sales(r)' = Sales(r) /\ Settled(r)'
  <2>1. \A m : PaidFrom(r, m)' = PaidFrom(r, m)
    BY <1>2, <1>9, <1>12, <1>14 DEF PaidFrom
  <2>2. NoSaleOf(r)
    BY <1>6, <1>7, <1>8, <1>14 DEF NoSaleOf
  <2>3. \A b \in DOMAIN allocs : allocs'[b].qty = allocs[b].qty
    BY <1>9, <1>12
  <2> QED BY <1>2, <2>1, <2>2, <2>3, SettledKept
<1>15. n < 4 => faults' > 0
  BY <1>2, <1>6, <1>11, InventoryAssumption DEF Outcome, TypeOK
<1>16. faults > 0 => faults' > 0
  BY <1>2, <1>6, <1>11, InventoryAssumption DEF Outcome, TypeOK
<1>17. n = 4 => Sales(rc)' = job.sold \cup {h} /\ Settled(rc)' /\ Len(events') = h
  <2> SUFFICES ASSUME n = 4 PROVE Sales(rc)' = job.sold \cup {h} /\ Settled(rc)'
    BY <1>13
  <2>1. events' = Append(events, e) /\ allocs' = Put(allocs, a, done)
    BY <1>6
  <2>2. Settled(rc)'
    BY <1>2, <1>3, <1>7, <1>8, <1>9, <1>10, <2>1, SaleSettles
  <2>3. Sales(rc)' = Sales(rc) \cup (IF e.type = "SELL" /\ e.receipt = {rc}
                                     THEN {Len(events) + 1} ELSE {})
    BY ONLY <1>7, <2>1, SalesAfter
  <2> QED BY <1>8, <1>10, <2>2, <2>3 DEF h
<1>18. /\ DOMAIN requests' = DOMAIN requests
       /\ \A r \in DOMAIN requests : r # rc => requests'[r] = requests[r]
       /\ n < 4 => requests'[rc].listed = {}
       /\ n = 4 /\ job.todo = {a} => requests'[rc].listed = job.sold \cup {h}
       /\ n = 4 /\ job.todo # {a} => requests' = requests
  <2>1. ASSUME NEW place, NEW listed, requests' = At(rc, place, listed)
        PROVE  /\ DOMAIN requests' = DOMAIN requests /\ requests'[rc].listed = listed
               /\ \A r \in DOMAIN requests : r # rc => requests'[r] = requests[r]
    BY <1>10, <2>1 DEF At, Put
  <2>2. CASE n < 4
    <3>1. requests' = At(rc, "receipt", {})
      BY <1>1, <2>2
    <3> QED BY <2>1, <2>2, <3>1
  <2>3. CASE n = 4 /\ job.todo = {a}
    <3>1. requests' = At(rc, "anchor", job.sold \cup {h})
      <4>1. requests' = At(rc, "anchor", job.sold \cup {Len(events')})
        BY <1>1, <2>3
      <4>2. Len(events') = h
        BY <1>17, <2>3
      <4> QED BY <4>1, <4>2
    <3> QED BY <2>1, <2>3, <3>1
  <2>4. CASE n = 4 /\ job.todo # {a}
    BY <1>1, <2>4
  <2> QED BY <1>11, <2>2, <2>3, <2>4
<1>19. CommerceTypeOK'
  <2>1. IsTable(requests', Receipts, Request)
    <3>1. job.sold \cup {Len(events')} \in SUBSET Nat
      <4>1. Len(events') \in Nat
        BY DEF IInv, TypeOK
      <4> QED BY <1>2, <4>1 DEF FulfilJob
    <3>2. ASSUME NEW place \in {"anchor", "receipt"}, NEW listed \in SUBSET Nat
          PROVE  IsTable(At(rc, place, listed), Receipts, Request)
      <4>1. [at |-> place, listed |-> listed] \in Request
        BY DEF Request
      <4> QED BY <1>2, <4>1, PutType DEF CInv, CommerceTypeOK, At
    <3>3. requests' \in {requests, At(rc, "receipt", {}),
                         At(rc, "anchor", job.sold \cup {Len(events')})}
      BY <1>1
    <3> QED BY <3>1, <3>2, <3>3 DEF CInv, CommerceTypeOK
  <2> QED BY <1>1, <2>1 DEF CInv, CommerceTypeOK
<1>20. Receipted'
  <2>1. ASSUME NEW r \in Receipts, InSale(r)'
        PROVE  /\ r \in DOMAIN requests' /\ requests'[r].at = "sale"
               /\ job'.sold = Sales(r)' /\ Settled(r)'
    <3>1. n = 4 /\ job.todo # {a} /\ job' = [job EXCEPT !.todo = job.todo \ {a}, !.sold = sum]
      BY <1>6, <2>1 DEF Idle, InSale
    <3>2. job'.receipt = rc /\ job'.sold = sum
      <4> HIDE DEF sum
      <4> QED BY <1>2, <3>1 DEF FulfilJob
    <3>3. r = rc
      BY <2>1, <3>2 DEF InSale
    <3> QED BY <1>10, <1>17, <1>18, <3>1, <3>2, <3>3
  <2>2. DOMAIN requests' \cap DOMAIN issued' = {}
    BY <1>1, <1>18 DEF CInv, Receipted
  <2>3. ASSUME NEW r \in DOMAIN requests'
        PROVE  requests'[r].at = "sale" \/ Lists(r, requests[r].listed)'
    <3>1. CASE r # rc
      <4>1. requests'[r] = requests[r] /\ (requests[r].at = "sale" \/ Lists(r, requests[r].listed))
        BY <1>18, <3>1 DEF CInv, Receipted
      <4> QED BY <1>14, <1>16, <3>1, <4>1 DEF Lists
    <3>2. CASE r = rc /\ n < 4
      BY <1>15, <1>18, <3>2 DEF Lists
    <3>3. CASE r = rc /\ n = 4 /\ job.todo = {a}
      <4>1. requests'[rc].listed = Sales(rc)' /\ Settled(rc)'
        BY <1>17, <1>18, <3>3
      <4> QED BY <3>3, <4>1 DEF Lists
    <3>4. CASE r = rc /\ n = 4 /\ job.todo # {a}
      BY <1>10, <1>18, <3>4
    <3> QED BY <1>11, <3>1, <3>2, <3>3, <3>4
  <2>4. \A r \in DOMAIN issued' : Lists(r, issued[r])'
    <3>1. \A r \in DOMAIN issued : Lists(r, issued[r]) /\ r # rc
      BY <1>10 DEF CInv, Receipted
    <3> QED BY <1>1, <1>14, <1>16, <3>1 DEF Lists
  <2> QED BY <2>1, <2>2, <2>3, <2>4 DEF Receipted, Lists
<1>21. Witnessed'
  <2> SUFFICES ASSUME NEW b \in DOMAIN allocs', NEW r \in allocs'[b].receipt
               PROVE  \E i \in DOMAIN events' : r \in events'[i].receipt
    BY DEF Witnessed
  <2>1. CASE b = a /\ n >= 3
    BY <1>8, <1>9, <1>11, <1>12, <1>13, <2>1
  <2>2. CASE ~(b = a /\ n >= 3)
    <3>1. b \in DOMAIN allocs /\ allocs'[b] = allocs[b]
      BY <1>12, <2>2
    <3> QED BY <1>13, <3>1 DEF CInv, Witnessed
  <2> QED BY <2>1, <2>2
<1>22. Allotted'
  <2>1. \A b \in DOMAIN allocs : /\ b \in DOMAIN allocs' /\ allocs'[b].lot = allocs[b].lot
                                 /\ allocs'[b].qty = allocs[b].qty
    BY <1>9, <1>12
  <2>2. \A r \in DOMAIN issued : \A m \in LotIds : PaidFrom(r, m)' = PaidFrom(r, m)
    BY <1>10, <1>14
  <2> QED BY <1>1, <1>13, <2>1, <2>2, AllottedKept DEF CInv
<1> QED
  BY <1>19, <1>20, <1>21, <1>22 DEF CInv

LEMMA AnchoredCInv ==
    ASSUME CInv, IInv', NEW o \in offers, NEW ok \in BOOLEAN, Anchored(o, ok)
    PROVE  CInv'
<1>1. OfferAnswered(o, ok) /\ UNCHANGED issued
      /\ requests' = [r \in DOMAIN requests |->
                        IF requests[r].at = "anchor" /\ requests[r].listed = o
                        THEN [requests[r] EXCEPT !.at = "receipt"] ELSE requests[r]]
  BY DEF Anchored
<1>2. UNCHANGED <<allocs, proj, job, faults>> /\ job = Idle
  BY <1>1 DEF OfferAnswered
<1>3. LogKept
  BY <1>1, AnchoredKept DEF CInv, IInv
<1>4. \A r : Sales(r)' = Sales(r) /\ (Settled(r) => Settled(r)')
  BY <1>2, <1>3, KeptSales
<1>5. DOMAIN requests' = DOMAIN requests
      /\ \A r \in DOMAIN requests : /\ requests'[r] \in Request
                                    /\ requests'[r].listed = requests[r].listed
                                    /\ requests[r].at # "sale" => requests'[r].at # "sale"
                                    /\ requests[r].at = "sale" => requests'[r].at = "sale"
  <2>1. \A r \in DOMAIN requests : requests[r] \in Request
    BY DEF CInv, CommerceTypeOK, IsTable
  <2>2. \A x \in Request : /\ [x EXCEPT !.at = "receipt"] \in Request
                           /\ [x EXCEPT !.at = "receipt"].listed = x.listed
                           /\ [x EXCEPT !.at = "receipt"].at = "receipt"
    BY DEF Request
  <2> QED BY <1>1, <2>1, <2>2
<1>6. CommerceTypeOK'
  <2>1. IsTable(requests', Receipts, Request)
    BY <1>1, <1>5 DEF CInv, CommerceTypeOK, IsTable
  <2> QED BY <1>1, <2>1 DEF CInv, CommerceTypeOK
<1>7. Receipted'
  <2>1. \A r \in Receipts : ~InSale(r)'
    BY <1>2 DEF InSale, Idle
  <2>2. DOMAIN requests' \cap DOMAIN issued' = {}
    BY <1>1, <1>5 DEF CInv, Receipted
  <2>3. ASSUME NEW r \in DOMAIN requests'
        PROVE  requests'[r].at = "sale" \/ Lists(r, requests[r].listed)'
    <3>1. requests[r].at = "sale" \/ Lists(r, requests[r].listed)
      BY <1>5 DEF CInv, Receipted
    <3> QED BY <1>2, <1>4, <1>5, <3>1 DEF Lists
  <2>4. \A r \in DOMAIN issued' : Lists(r, issued[r])'
    BY <1>1, <1>2, <1>4 DEF CInv, Receipted, Lists
  <2> QED BY <2>1, <2>2, <2>3, <2>4 DEF Receipted, Lists
<1>8. Witnessed'
  BY <1>2, <1>3 DEF CInv, Witnessed, LogKept
<1>9. Allotted'
  <2>1. \A r \in DOMAIN issued : \A l \in LotIds : PaidFrom(r, l)' = PaidFrom(r, l)
    BY <1>2 DEF PaidFrom
  <2>2. \A i \in DOMAIN events : events'[i].lot = events[i].lot /\ events'[i].qty = events[i].qty
    BY <1>3 DEF LogKept
  <2> QED BY <1>1, <1>2, <2>1, <2>2, AllottedKept DEF CInv
<1> QED
  BY <1>6, <1>7, <1>8, <1>9 DEF CInv

\* Steps that leave the ledger and the offered receipts alone and at most forget
\* requests.
LEMMA QuietCInv ==
    ASSUME CInv, IInv', UNCHANGED <<lots, allocs, events, issued>>,
           \/ requests' = EmptyTable /\ job' = Idle
           \/ requests' = requests /\ job' = job,
           faults > 0 => faults' > 0
    PROVE  CInv'
<1>1. CommerceTypeOK'
  BY EmptyType DEF CInv, CommerceTypeOK
<1>2. \A r : Sales(r)' = Sales(r) /\ (Settled(r) => Settled(r)')
  BY SameSettled
<1>3. \A r \in DOMAIN requests' : r \in DOMAIN requests /\ requests'[r] = requests[r]
  BY DEF EmptyTable
<1>4. Receipted'
  <2>1. ASSUME NEW r \in Receipts, InSale(r)'
        PROVE  /\ r \in DOMAIN requests' /\ requests'[r].at = "sale"
               /\ job'.sold = Sales(r)' /\ Settled(r)'
    <3>1. job' = job /\ requests' = requests /\ InSale(r)
      BY <2>1 DEF InSale, Idle
    <3> QED BY <1>2, <3>1 DEF CInv, Receipted
  <2>2. DOMAIN requests' \cap DOMAIN issued' = {}
    BY <1>3 DEF CInv, Receipted
  <2>3. ASSUME NEW r \in DOMAIN requests'
        PROVE  requests'[r].at = "sale" \/ Lists(r, requests[r].listed)'
    <3>1. requests[r].at = "sale" \/ Lists(r, requests[r].listed)
      BY <1>3 DEF CInv, Receipted
    <3> QED BY <1>2, <1>3, <3>1 DEF Lists
  <2>4. \A r \in DOMAIN issued' : Lists(r, issued[r])'
    BY <1>2 DEF CInv, Receipted, Lists
  <2> QED BY <2>1, <2>2, <2>3, <2>4 DEF Receipted, Lists
<1>5. Witnessed'
  BY DEF CInv, Witnessed
<1>6. Allotted'
  <2>1. \A r \in DOMAIN issued : \A l \in LotIds : PaidFrom(r, l)' = PaidFrom(r, l)
    BY DEF PaidFrom
  <2> QED BY <2>1, AllottedKept DEF CInv
<1> QED
  BY <1>1, <1>4, <1>5, <1>6 DEF CInv

\* A receipt that is offered adds no more of a lot to what is listed than the
\* allocations it was paid with.
LEMMA OfferAllotted ==
    ASSUME CInv, NEW r \in Receipts, r \notin DOMAIN issued, NEW listed, Lists(r, listed),
           UNCHANGED vars, issued' = Put(issued, r, listed)
    PROVE  Allotted'
<1> SUFFICES ASSUME NEW l \in LotIds, Unsigned(l)'
             PROVE  ListedUnits(l)' <= Net([a \in IssuedFrom(l) |-> allocs[a].qty])'
  BY DEF Allotted
<1> DEFINE D == DOMAIN issued
           E == DOMAIN issued'
           f == [x \in D |-> TakenFrom(events, issued[x], l)]
           g == [x \in E |-> TakenFrom(events, issued'[x], l)]
           taken == TakenFrom(events, listed, l)
           A == IssuedFrom(l)
           P == PaidFrom(r, l)
           old == [a \in A |-> allocs[a].qty]
           paid == [a \in P |-> allocs[a].qty]
           new == [a \in A \cup P |-> allocs[a].qty]
<1>1. TypeOK /\ IsFiniteSet(D) /\ UNCHANGED <<events, allocs>>
  BY DEF CInv, IInv, CommerceTypeOK, vars
<1>2. E = D \cup {r} /\ issued'[r] = listed /\ \A x \in D : issued'[x] = issued[x]
  BY DEF Put
<1>3. taken \in Int
  BY <1>1, ListedEvents, TakenType
<1>4. \A x \in D : TakenFrom(events, issued[x], l) \in Int
  BY <1>1, ListedEvents, TakenType DEF CInv, Receipted
<1>5. f \in [D -> Int] /\ g \in [E -> Int] /\ g[r] = taken /\ \A x \in D : g[x] = f[x]
  <2> HIDE DEF taken
  <2>1. TakenFrom(events, issued'[r], l) = taken
    BY <1>2 DEF taken
  <2> QED BY <1>2, <1>3, <1>4, <2>1
<1>6. ListedUnits(l) = Net(f)
  BY ListedIsTaken
<1>7. ListedUnits(l)' = Net(g)
  <2>1. ListedUnits(l)' = Net([x \in DOMAIN issued' |-> TakenFrom(events', issued'[x], l)])
    BY DEF ListedUnits, TakenFrom
  <2> QED BY <1>1, <2>1
<1>8. IssuedFrom(l)' = A \cup P /\ A \cap P = {}
  <2>1. IssuedFrom(l)' = {a \in AllocsOf(l) : \E x \in E : allocs[a].receipt = {x}}
    BY <1>1 DEF IssuedFrom, AllocsOf
  <2> QED BY <1>2, <2>1 DEF IssuedFrom, AllocsOf, PaidFrom
<1>9. IsFiniteSet(A) /\ IsFiniteSet(P) /\ \A a \in A \cup P : allocs[a].qty \in Int
  <2>1. A \subseteq DOMAIN allocs /\ P \subseteq DOMAIN allocs
    BY DEF IssuedFrom, AllocsOf, PaidFrom
  <2>2. \A a \in DOMAIN allocs : allocs[a] \in Alloc
    BY <1>1 DEF TypeOK, IsTable
  <2>3. \A a \in DOMAIN allocs : allocs[a].qty \in Int
    BY <2>2 DEF Alloc
  <2> QED BY <1>1, <2>1, <2>3, FiniteTables
<1>10. Net([a \in IssuedFrom(l) |-> allocs[a].qty])' = Net(new)
  BY <1>1, <1>8
<1>11. Unsigned(l) /\ ListedUnits(l) <= Net(old)
  <2>1. Unsigned(l)
    BY <1>1 DEF Unsigned
  <2> QED BY <2>1 DEF CInv, Allotted
<1>12. taken <= Net(paid) /\ Net(paid) \in Nat
  <2>1. Net(paid) \in Nat
    <3>1. \A a \in P : allocs[a].qty >= 0
      BY <1>11 DEF Unsigned, PaidFrom
    <3>2. paid \in [P -> Int] /\ \A a \in P : paid[a] >= 0
      <4> HIDE DEF P
      <4> QED BY <1>9, <3>1
    <3> HIDE DEF P, paid
    <3>3. Net(paid) = Total(paid) /\ Total(paid) \in Nat
      BY <1>9, <3>2, NetNat
    <3> QED BY <3>3
  <2>2. CASE listed = {}
    <3> DEFINE none == [i \in {j \in listed : events[j].lot = l} |-> -events[i].qty]
    <3>1. DOMAIN none = {}
      BY <2>2
    <3> HIDE DEF none
    <3>2. Net(none) = 0
      BY <3>1, NetEmpty
    <3>3. taken = 0
      BY <3>2 DEF TakenFrom, none
    <3> HIDE DEF taken, paid
    <3> QED BY <2>1, <3>3
  <2>3. CASE listed = Sales(r) /\ Settled(r)
    <3>1. taken = Net([i \in SalesFrom(r, l) |-> -events[i].qty])
      BY <2>3 DEF TakenFrom, SalesFrom
    <3>2. taken = Net(paid)
      BY <2>3, <3>1 DEF Settled
    <3> HIDE DEF taken, paid
    <3> QED BY <2>1, <3>2
  <2> QED BY <2>2, <2>3 DEF Lists
<1>13. old \in [A -> Int] /\ paid \in [P -> Int] /\ new \in [A \cup P -> Int]
       /\ (\A a \in A : new[a] = old[a]) /\ (\A a \in P : new[a] = paid[a])
  <2> HIDE DEF A, P
  <2> QED BY <1>9
<1> HIDE DEF D, E, f, g, A, P, old, paid, new, taken
<1>14. Net(new) = Net(old) + Net(paid)
  <2>1. A \cap P = {} /\ IsFiniteSet(A) /\ IsFiniteSet(P)
    BY <1>8, <1>9
  <2> QED BY ONLY <1>13, <2>1, NetSplit
<1>15. Net(g) = Net(f) + taken /\ Net(f) \in Int
  <2> DEFINE more == TRUE
  <2>1. more \in BOOLEAN /\ E = D \cup (IF more THEN {r} ELSE {}) /\ r \notin D
    BY <1>2 DEF D
  <2> HIDE DEF more
  <2>2. Net(f) \in Int /\ Net(g) = Net(f) + (IF more THEN g[r] ELSE 0)
    <3>1. /\ IsFiniteSet(D) /\ r \notin D /\ more \in BOOLEAN
          /\ E = D \cup (IF more THEN {r} ELSE {})
          /\ f \in [D -> Int] /\ g \in [E -> Int] /\ \A x \in D : g[x] = f[x]
      BY <1>1, <1>5, <2>1
    <3> QED BY ONLY <3>1, NetMore
  <2>3. g[r] = taken
    BY <1>5
  <2> QED BY <2>2, <2>3 DEF more
<1>16. Net(old) \in Int
  BY <1>9, <1>13, NetType
<1> QED
  BY <1>3, <1>6, <1>7, <1>10, <1>11, <1>12, <1>14, <1>15, <1>16

LEMMA AnsweredCInv ==
    ASSUME CInv, IInv', NEW r \in Receipts, NEW ok \in BOOLEAN, ReceiptAnswered(r, ok)
    PROVE  CInv'
<1> SUFFICES ASSUME NEW listed, listed = requests[r].listed PROVE CInv'
  OBVIOUS
<1>1. /\ job = Idle /\ r \in DOMAIN requests /\ requests[r].at = "receipt"
      /\ requests' = Without(requests, {r})
      /\ issued' = IF ok THEN Put(issued, r, listed) ELSE issued
      /\ UNCHANGED vars
  BY DEF ReceiptAnswered
<1>2. Lists(r, listed) /\ r \notin DOMAIN issued
  BY <1>1 DEF CInv, Receipted
<1>3. events' = events /\ allocs' = allocs /\ lots' = lots /\ job' = job /\ faults' = faults
  BY <1>1 DEF vars
<1>4. \A x : Sales(x)' = Sales(x) /\ (Settled(x) => Settled(x)')
  BY <1>3, SameSettled
<1>5. /\ DOMAIN requests' = DOMAIN requests \ {r}
      /\ \A x \in DOMAIN requests' : requests'[x] = requests[x]
  BY <1>1 DEF Without
<1>6. /\ DOMAIN issued' = DOMAIN issued \cup (IF ok THEN {r} ELSE {})
      /\ \A x \in DOMAIN issued : issued'[x] = issued[x]
      /\ ok => issued'[r] = listed
  BY <1>1, <1>2 DEF Put
<1>7. CommerceTypeOK'
  <2>1. listed \in SUBSET Nat
    BY <1>1 DEF CInv, CommerceTypeOK, IsTable, Request
  <2>2. IsTable(requests', Receipts, Request)
    BY <1>1, WithoutType DEF CInv, CommerceTypeOK
  <2>3. IsTable(issued', Receipts, SUBSET Nat)
    BY <1>1, <2>1, PutType DEF CInv, CommerceTypeOK
  <2>4. IsFiniteSet(DOMAIN issued')
    <3>1. IsFiniteSet(DOMAIN issued)
      BY DEF CInv, CommerceTypeOK
    <3> QED BY <1>6, <3>1, FS_AddElement
  <2> QED BY <2>2, <2>3, <2>4 DEF CommerceTypeOK
<1>8. Receipted'
  <2>1. \A x \in Receipts : ~InSale(x)'
    BY <1>1, <1>3 DEF InSale, Idle
  <2>2. DOMAIN requests' \cap DOMAIN issued' = {}
    BY <1>5, <1>6 DEF CInv, Receipted
  <2>3. ASSUME NEW x \in DOMAIN requests'
        PROVE  requests'[x].at = "sale" \/ Lists(x, requests[x].listed)'
    <3>1. requests[x].at = "sale" \/ Lists(x, requests[x].listed)
      BY <1>5 DEF CInv, Receipted
    <3> QED BY <1>3, <1>4, <1>5, <3>1 DEF Lists
  <2>4. ASSUME NEW x \in DOMAIN issued' PROVE Lists(x, issued[x])'
    <3>1. CASE x \in DOMAIN issued
      <4>1. Lists(x, issued[x])
        BY <3>1 DEF CInv, Receipted
      <4> QED BY <1>3, <1>4, <1>6, <3>1, <4>1 DEF Lists
    <3>2. CASE x = r /\ ok
      BY <1>2, <1>3, <1>4, <1>6, <3>2 DEF Lists
    <3> QED BY <1>6, <3>1, <3>2
  <2> QED BY <2>1, <2>2, <2>3, <2>4 DEF Receipted, Lists
<1>9. Witnessed'
  BY <1>3 DEF CInv, Witnessed
<1>10. Allotted'
  <2>1. CASE ok
    BY <1>1, <1>2, <2>1, OfferAllotted
  <2>2. CASE ~ok
    <3>1. \A x \in DOMAIN issued : \A l \in LotIds : PaidFrom(x, l)' = PaidFrom(x, l)
      BY <1>3 DEF PaidFrom
    <3> QED BY <1>1, <1>3, <2>2, <3>1, AllottedKept DEF CInv
  <2> QED BY <2>1, <2>2
<1> QED
  BY <1>7, <1>8, <1>9, <1>10 DEF CInv

LEMMA InitCInv == CommerceInit => CInv
<1> SUFFICES ASSUME CommerceInit PROVE CInv
  OBVIOUS
<1>1. IInv
  BY InitIInv DEF CommerceInit
<1>2. CommerceTypeOK /\ DOMAIN requests = {} /\ DOMAIN issued = {}
  BY EmptyType, FS_EmptySet DEF CommerceInit, CommerceTypeOK
<1>3. job.op # "fulfil" /\ DOMAIN allocs = {}
  BY DEF CommerceInit, Init, Idle, EmptyTable
<1>4. Receipted /\ Witnessed
  BY <1>2, <1>3 DEF Receipted, InSale, Witnessed
<1>5. Allotted
  <2> SUFFICES ASSUME NEW l \in LotIds
               PROVE  ListedUnits(l) <= Net([a \in IssuedFrom(l) |-> allocs[a].qty])
    BY DEF Allotted
  <2> DEFINE f == [r \in DOMAIN issued |-> TakenFrom(events, issued[r], l)]
             g == [a \in IssuedFrom(l) |-> allocs[a].qty]
  <2>1. DOMAIN f = {} /\ DOMAIN g = {}
    BY <1>2, <1>3 DEF IssuedFrom, AllocsOf
  <2>2. ListedUnits(l) = Net(f)
    BY ListedIsTaken
  <2> HIDE DEF f, g
  <2>3. Net(f) = 0 /\ Net(g) = 0
    BY <2>1, NetEmpty
  <2>4. ListedUnits(l) <= Net(g)
    BY <2>2, <2>3
  <2> QED BY <2>4 DEF g
<1> QED
  BY <1>1, <1>2, <1>4, <1>5 DEF CInv

LEMMA CommerceStep ==
    ASSUME CInv, [CommerceNext]_commerceVars
    PROVE  CInv'
<1>1. IInv'
  BY CommerceIsLedgerNext, LedgerStep DEF CInv, commerceVars
<1>2. faults > 0 => faults' > 0
  BY CommerceIsLedgerNext, FaultsStay DEF CInv, IInv, commerceVars
<1>3. CASE (Goods \/ Reserve) /\ UNCHANGED <<requests, issued>>
  <2>1. NoSale
    BY <1>3, ReceiveNoSale, ReserveNoSale, CommerceAssumption DEF Goods, CInv
  <2> QED BY <1>1, <1>2, <1>3, <2>1, NoSaleCInv
<1>4. CASE \E t \in Tenants, c \in Carts, r \in Receipts : IssueReceipt(t, c, r)
  BY <1>1, <1>4, IssueCInv
<1>5. CASE \E a \in AllocIds, n \in 0..4 : Sell(a, n)
  BY <1>1, <1>5, SellCInv
<1>6. CASE \E o \in offers, ok \in BOOLEAN : Anchored(o, ok)
  BY <1>1, <1>6, AnchoredCInv
<1>7. CASE \E r \in Receipts, ok \in BOOLEAN : ReceiptAnswered(r, ok)
  BY <1>1, <1>7, AnsweredCInv
<1>8. CASE CrashAll
  <2>1. UNCHANGED <<lots, allocs, events, issued>> /\ job' = Idle /\ requests' = EmptyTable
    BY <1>8 DEF CrashAll, Crash
  <2> QED BY <1>1, <1>2, <2>1, QuietCInv
<1>9. CASE UNCHANGED commerceVars
  <2>1. UNCHANGED <<lots, allocs, events, issued, job, requests>>
    BY <1>9 DEF commerceVars, vars
  <2> QED BY <1>1, <1>2, <2>1, QuietCInv
<1> QED
  BY <1>3, <1>4, <1>5, <1>6, <1>7, <1>8, <1>9 DEF CommerceNext

\* A receipt that was offered lists all of the sales made under its number, or
\* none after a statement failed; without failed statements they are settled and
\* traced; and the receipts together list no more of a lot than has left it,
\* whatever fails, unless a negative quantity was reserved on it.
THEOREM ReceiptsListTheirSales == CommerceSpec => []ReceiptsListSales
<1>1. CInv => ReceiptsListSales
  <2> SUFFICES ASSUME CInv PROVE ReceiptsListSales
    OBVIOUS
  <2>1. ReceiptTraceable
    BY DEF CInv, IInv
  <2>2. \A r \in DOMAIN issued : issued[r] = Sales(r) \/ (faults > 0 /\ issued[r] = {})
    BY DEF CInv, Receipted, Lists
  <2>3. ASSUME NEW l \in DOMAIN lots, Unsigned(l)
        PROVE  ListedUnits(l) <= lots[l].initial - lots[l].onHand
    <3> DEFINE A == Fulfilled(l)
               I == IssuedFrom(l)
               f == [a \in A |-> allocs[a].qty]
               g == [a \in I |-> allocs[a].qty]
    <3>1. l \in LotIds /\ lots[l] \in Lot /\ TypeOK
      BY DEF CInv, IInv, TypeOK, IsTable
    <3>2. Net(f) <= lots[l].initial - lots[l].onHand
      BY <2>3 DEF CInv, IInv, Stocked
    <3>3. ListedUnits(l) <= Net(g)
      BY <2>3, <3>1 DEF CInv, Allotted
    <3>4. \A a \in DOMAIN allocs : allocs[a] \in Alloc
      BY <3>1 DEF TypeOK, IsTable
    <3>5. A \subseteq DOMAIN allocs /\ I \subseteq A
      <4>1. \A a \in I : /\ a \in DOMAIN allocs /\ allocs[a].lot = l
                         /\ allocs[a].status # "reserved"
        BY DEF CInv, IInv, Work, IssuedFrom, AllocsOf
      <4>2. \A z \in Alloc : z.status # "reserved" => z.status = "fulfilled"
        BY DEF Alloc
      <4> QED BY <3>4, <4>1, <4>2 DEF Fulfilled, AllocsOf
    <3>6. IsFiniteSet(A) /\ \A a \in A : allocs[a].qty \in Int /\ allocs[a].qty >= 0
      <4>1. \A a \in DOMAIN allocs : allocs[a].qty \in Int
        BY <3>4 DEF Alloc
      <4> QED BY <2>3, <3>1, <3>5, <4>1, FiniteTables DEF Unsigned, Fulfilled, AllocsOf
    <3>7. /\ f \in [A -> Int] /\ g \in [I -> Int] /\ \A a \in I : g[a] = f[a]
          /\ \A a \in A : f[a] >= 0
      <4> HIDE DEF A, I
      <4> QED BY <3>5, <3>6
    <3>8. lots[l].initial \in Int /\ lots[l].onHand \in Int
      BY <3>1 DEF Lot
    <3>9. ListedUnits(l) \in Int
      <4> DEFINE h == [r \in DOMAIN issued |-> TakenFrom(events, issued[r], l)]
      <4>1. \A r \in DOMAIN issued : TakenFrom(events, issued[r], l) \in Int
        BY <3>1, ListedEvents, TakenType DEF CInv, Receipted
      <4>2. h \in [DOMAIN issued -> Int] /\ IsFiniteSet(DOMAIN issued)
        BY <4>1 DEF CInv, CommerceTypeOK
      <4>3. Net(h) \in Int
        <5> HIDE DEF h
        <5> QED BY <4>2, NetType
      <4> QED BY <4>3, ListedIsTaken
    <3> HIDE DEF A, I, f, g
    <3>10. Net(f) \in Nat /\ Net(g) \in Nat /\ Net(g) <= Net(f)
      BY <3>5, <3>6, <3>7, NetPart
    <3> QED BY <3>2, <3>3, <3>8, <3>9, <3>10
  <2> QED BY <2>1, <2>2, <2>3 DEF ReceiptsListSales
<1>2. CommerceSpec => []CInv
  BY InitCInv, CommerceStep, PTL DEF CommerceSpec
<1> QED
  BY <1>1, <1>2, PTL
=============================================================================
