------------------------- MODULE FlushPipeline_proofs -------------------------
(***************************************************************************)
(* What the two batch writers promise of the rows they write, for any      *)
(* batch sizes and any number of entries.                                  *)
(***************************************************************************)
EXTENDS FlushPipeline, FiniteSetTheorems, TLAPS

-----------------------------------------------------------------------------
(* Sequences of entries. *)

Items == Seq(Nat)

\* No entry twice in a sequence; none in two sequences; every one within bounds.
Inj(s) == \A i, j \in 1..Len(s) : s[i] = s[j] => i = j
Apart(s, t) == \A i \in 1..Len(s), j \in 1..Len(t) : s[i] # t[j]
Within(s, a, b) == \A i \in 1..Len(s) : a <= s[i] /\ s[i] <= b
In(e, s) == \E i \in 1..Len(s) : s[i] = e

\* The sequence counts on from a.
From(s, a) == \A i \in 1..Len(s) : s[i] = a + i

\* No entry is at two of the places where a pipe keeps entries: table, batch,
\* get() task, queue and drain.
Distinct(d, b, g, q, r) ==
    /\ Inj(d) /\ Inj(b) /\ Inj(g) /\ Inj(q) /\ Inj(r)
    /\ Apart(d, b) /\ Apart(d, g) /\ Apart(d, q) /\ Apart(d, r)
    /\ Apart(b, g) /\ Apart(b, q) /\ Apart(b, r)
    /\ Apart(g, q) /\ Apart(g, r) /\ Apart(q, r)

\* Every entry up to n is at one of them.
Covers(n, d, b, g, q, r) ==
    \A e \in 1..n : In(e, d) \/ In(e, b) \/ In(e, g) \/ In(e, q) \/ In(e, r)

\* The parts of s \o t.
LEMMA ConcatParts ==
    ASSUME NEW s \in Items, NEW t \in Items
    PROVE  /\ s \o t \in Items /\ Len(s \o t) = Len(s) + Len(t)
           /\ Len(s) \in Nat /\ Len(t) \in Nat /\ Len(s \o t) \in Nat
           /\ \A i \in 1..Len(s) : i \in 1..Len(s \o t) /\ (s \o t)[i] = s[i]
           /\ \A i \in 1..Len(t) : /\ Len(s) + i \in 1..Len(s \o t)
                                   /\ (s \o t)[Len(s) + i] = t[i]
           /\ \A k \in 1..Len(s \o t) :
                 \/ k \in 1..Len(s) /\ (s \o t)[k] = s[k]
                 \/ k - Len(s) \in 1..Len(t) /\ (s \o t)[k] = t[k - Len(s)]
  BY DEF Items

\* A sequence that receives another one keeps its entries distinct, and theirs.
LEMMA ConcatInj ==
    ASSUME NEW s \in Items, NEW t \in Items, Inj(s), Inj(t), Apart(s, t)
    PROVE  Inj(s \o t)
  <1> DEFINE u == s \o t
  <1>1. /\ Len(s) \in Nat /\ Len(t) \in Nat /\ Len(u) \in Nat
        /\ \A k \in 1..Len(u) : \/ k \in 1..Len(s) /\ u[k] = s[k]
                                \/ k - Len(s) \in 1..Len(t) /\ u[k] = t[k - Len(s)]
    BY ConcatParts
  <1> HIDE DEF u
  <1>2. Inj(u)
    BY <1>1 DEF Inj, Apart
  <1> QED
    BY <1>2 DEF u

\* Nor does anything else come near.
LEMMA ConcatApart ==
    ASSUME NEW s \in Items, NEW t \in Items, NEW v \in Items
    PROVE  /\ Apart(s, v) /\ Apart(t, v) => Apart(s \o t, v)
           /\ \A a, b \in Nat : Within(s, a, b) /\ Within(t, a, b) => Within(s \o t, a, b)
           /\ \A e : In(e, s \o t) <=> In(e, s) \/ In(e, t)
  <1> DEFINE u == s \o t
  <1>1. /\ Len(s) \in Nat /\ Len(t) \in Nat /\ Len(u) \in Nat
        /\ \A k \in 1..Len(u) : \/ k \in 1..Len(s) /\ u[k] = s[k]
                                \/ k - Len(s) \in 1..Len(t) /\ u[k] = t[k - Len(s)]
    BY ConcatParts
  <1>2. /\ \A i \in 1..Len(s) : i \in 1..Len(u) /\ u[i] = s[i]
        /\ \A i \in 1..Len(t) : Len(s) + i \in 1..Len(u) /\ u[Len(s) + i] = t[i]
    BY ConcatParts
  <1> HIDE DEF u
  <1>3. Apart(s, v) /\ Apart(t, v) => Apart(u, v)
    BY <1>1 DEF Apart
  <1>4. \A a, b \in Nat : Within(s, a, b) /\ Within(t, a, b) => Within(u, a, b)
    BY <1>1 DEF Within
  <1>5. \A e : In(e, u) <=> In(e, s) \/ In(e, t)
    BY <1>1, <1>2 DEF In
  <1> QED
    BY <1>3, <1>4, <1>5 DEF u

\* The first entry and the others.
LEMMA HeadParts ==
    ASSUME NEW q \in Items, q # <<>>
    PROVE  /\ Head(q) \in Nat /\ Tail(q) \in Items /\ <<Head(q)>> \in Items
           /\ Len(q) \in Nat /\ Len(q) >= 1 /\ Len(Tail(q)) = Len(q) - 1
           /\ Head(q) = q[1] /\ \A i \in 1..Len(q) - 1 : Tail(q)[i] = q[i + 1]
           /\ Len(q) = 1 => Len(Tail(q)) = 0
           /\ Len(q) <= 1 => Len(q) = 1 /\ q = <<Head(q)>>
  <1>1. /\ Head(q) \in Nat /\ Tail(q) \in Items /\ <<Head(q)>> \in Items
        /\ Len(q) \in Nat /\ Len(q) >= 1 /\ Len(Tail(q)) = Len(q) - 1
        /\ Head(q) = q[1] /\ \A i \in 1..Len(q) - 1 : Tail(q)[i] = q[i + 1]
    BY DEF Items
  <1>2. \A n, k \in Nat : (n >= 1 /\ n <= 1 => n = 1) /\ (n = 1 /\ k = n - 1 => k = 0)
    OBVIOUS
  <1>3. Len(q) <= 1 => Len(q) = 1
    BY <1>1, <1>2
  <1>4. Len(Tail(q)) \in Nat
    BY <1>1 DEF Items
  <1>5. Len(q) = 1 => Len(Tail(q)) = 0
    BY <1>1, <1>2, <1>4
  <1>6. Len(q) = 1 => q = <<Head(q)>>
    <2> DEFINE h == Head(q)
    <2>1. h \in Nat /\ h = q[1]
      BY <1>1
    <2>2. DOMAIN q = 1..Len(q) /\ q = [i \in 1..Len(q) |-> q[i]]
      BY DEF Items
    <2>3. ASSUME Len(q) = 1 PROVE q = [i \in 1..1 |-> h]
      BY <2>1, <2>2, <2>3
    <2>4. <<h>> = [i \in 1..1 |-> h]
      OBVIOUS
    <2> QED
      BY <2>3, <2>4
  <1> QED
    BY <1>1, <1>3, <1>5, <1>6

\* One entry.
LEMMA Single ==
    ASSUME NEW x \in Nat
    PROVE  <<x>> \in Items /\ Len(<<x>>) = 1 /\ <<x>>[1] = x
  BY DEF Items

\* An entry is appended.
LEMMA AppendParts ==
    ASSUME NEW s \in Items, NEW x \in Nat
    PROVE  /\ Append(s, x) = s \o <<x>> /\ Append(s, x) \in Items
           /\ Len(Append(s, x)) = Len(s) + 1
  BY DEF Items

\* Nothing, and the order of the two.
LEMMA ApartFacts ==
    /\ <<>> \in Items /\ Inj(<<>>) /\ \A a, b : Within(<<>>, a, b)
    /\ \A s : Apart(s, <<>>) /\ Apart(<<>>, s)
    /\ \A e : ~In(e, <<>>)
    /\ \A s, t : Apart(s, t) <=> Apart(t, s)
  BY DEF Items, Inj, Apart, Within, In

\* A flush moves the batch behind the table; so it does when the batch is lost.
LEMMA FlushMoves ==
    ASSUME NEW d \in Items, NEW b \in Items, NEW g \in Items, NEW q \in Items, NEW r \in Items,
           Distinct(d, b, g, q, r)
    PROVE  /\ Distinct(d \o b, <<>>, g, q, r) /\ Distinct(d, <<>>, g, q, r)
           /\ Distinct(d \o r, b, g, q, <<>>) /\ Distinct(d, b, g, q, <<>>)
           /\ \A n : Covers(n, d, b, g, q, r) =>
                 Covers(n, d \o b, <<>>, g, q, r) /\ Covers(n, d \o r, b, g, q, <<>>)
  <1>1. Inj(d \o b) /\ Inj(d \o r)
    BY ConcatInj DEF Distinct
  <1>2. /\ Apart(d \o b, g) /\ Apart(d \o b, q) /\ Apart(d \o b, r)
        /\ Apart(d \o r, b) /\ Apart(d \o r, g) /\ Apart(d \o r, q)
    BY ConcatApart, ApartFacts DEF Distinct
  <1>3. \A e : (In(e, d \o b) <=> In(e, d) \/ In(e, b)) /\ (In(e, d \o r) <=> In(e, d) \/ In(e, r))
    BY ConcatApart
  <1> QED
    BY <1>1, <1>2, <1>3, ApartFacts DEF Distinct, Covers

\* The get() task takes the head of the queue.
LEMMA GetMoves ==
    ASSUME NEW d \in Items, NEW b \in Items, NEW q \in Items, NEW r \in Items, q # <<>>,
           Distinct(d, b, <<>>, q, r)
    PROVE  /\ Distinct(d, b, <<Head(q)>>, Tail(q), r)
           /\ \A n : Covers(n, d, b, <<>>, q, r) => Covers(n, d, b, <<Head(q)>>, Tail(q), r)
  <1> DEFINE h == <<Head(q)>>
             t == Tail(q)
  <1>1. /\ Len(q) \in Nat /\ Len(q) >= 1 /\ Len(t) = Len(q) - 1
        /\ \A i \in 1..Len(t) : t[i] = q[i + 1]
        /\ Len(h) = 1 /\ h[1] = q[1]
    BY HeadParts, Single
  <1> HIDE DEF h, t
  <1>2. Inj(h) /\ Inj(t) /\ Apart(h, t)
    BY <1>1 DEF Distinct, Inj, Apart
  <1>3. \A s : (Apart(s, q) => Apart(s, h) /\ Apart(s, t)) /\ (Apart(q, s) => Apart(h, s) /\ Apart(t, s))
    BY <1>1 DEF Apart
  <1>4. \A e : In(e, q) => In(e, h) \/ In(e, t)
    <2> SUFFICES ASSUME NEW e, NEW k \in 1..Len(q), q[k] = e PROVE In(e, h) \/ In(e, t)
      BY DEF In
    <2>1. CASE k = 1
      BY <1>1, <2>1 DEF In
    <2>2. CASE k # 1
      <3>1. k - 1 \in 1..Len(t) /\ t[k - 1] = q[k]
        BY <1>1, <2>2
      <3> QED
        BY <3>1 DEF In
    <2> QED
      BY <2>1, <2>2
  <1>5. Distinct(d, b, h, t, r)
    BY <1>2, <1>3 DEF Distinct
  <1>6. \A n : Covers(n, d, b, <<>>, q, r) => Covers(n, d, b, h, t, r)
    BY <1>4, ApartFacts DEF Covers
  <1> QED
    BY <1>5, <1>6 DEF h, t

\* The worker puts what the get() task holds into its batch, or drops the sentinel.
LEMMA HandleMoves ==
    ASSUME NEW d \in Items, NEW b \in Items, NEW x \in Nat, NEW q \in Items, NEW r \in Items,
           Distinct(d, b, <<x>>, q, r)
    PROVE  /\ Append(b, x) \in Items
           /\ Distinct(d, Append(b, x), <<>>, q, r) /\ Distinct(d, b, <<>>, q, r)
           /\ \A n : Covers(n, d, b, <<x>>, q, r) => Covers(n, d, Append(b, x), <<>>, q, r)
           /\ x = 0 => \A n : Covers(n, d, b, <<x>>, q, r) => Covers(n, d, b, <<>>, q, r)
  <1> DEFINE g == <<x>>
             c == Append(b, x)
  <1>1. g \in Items /\ Len(g) = 1 /\ g[1] = x /\ c = b \o g /\ c \in Items
    BY Single, AppendParts
  <1> HIDE DEF g, c
  <1>d. Distinct(d, b, g, q, r)
    BY DEF g
  <1>2. Inj(c) /\ Apart(c, q) /\ Apart(c, r) /\ Apart(d, c)
    BY <1>1, <1>d, ConcatInj, ConcatApart, ApartFacts DEF Distinct
  <1>3. \A e : (In(e, c) <=> In(e, b) \/ In(e, g)) /\ (In(e, g) => e = x)
    <2>1. \A e : In(e, c) <=> In(e, b) \/ In(e, g)
      BY <1>1, ConcatApart
    <2>2. \A e : In(e, g) => e = x
      BY <1>1 DEF In
    <2> QED
      BY <2>1, <2>2
  <1>4. Distinct(d, c, <<>>, q, r) /\ Distinct(d, b, <<>>, q, r)
    BY <1>2, <1>d, ApartFacts DEF Distinct
  <1>5. \A n : Covers(n, d, b, g, q, r) => Covers(n, d, c, <<>>, q, r)
    BY <1>3 DEF Covers
  <1>6. x = 0 => \A n : Covers(n, d, b, g, q, r) => Covers(n, d, b, <<>>, q, r)
    BY <1>3 DEF Covers
  <1> QED
    BY <1>1, <1>4, <1>5, <1>6 DEF g, c

\* An entry that is nowhere yet is put on the queue.
LEMMA PutMoves ==
    ASSUME NEW d \in Items, NEW b \in Items, NEW g \in Items, NEW q \in Items, NEW r \in Items,
           NEW x \in Nat, Distinct(d, b, g, q, r),
           ~In(x, d), ~In(x, b), ~In(x, g), ~In(x, q), ~In(x, r)
    PROVE  /\ Append(q, x) \in Items /\ Distinct(d, b, g, Append(q, x), r)
           /\ \A n : Covers(n, d, b, g, q, r) => Covers(n, d, b, g, Append(q, x), r)
           /\ \A n \in Nat : x = n + 1 /\ Covers(n, d, b, g, q, r)
                                => Covers(x, d, b, g, Append(q, x), r)
  <1> DEFINE h == <<x>>
             c == Append(q, x)
  <1>1. h \in Items /\ Len(h) = 1 /\ h[1] = x /\ c = q \o h /\ c \in Items
    BY Single, AppendParts
  <1> HIDE DEF h, c
  <1>2. /\ Inj(h) /\ Apart(d, h) /\ Apart(b, h) /\ Apart(g, h) /\ Apart(q, h) /\ Apart(r, h)
    BY <1>1 DEF Inj, Apart, In
  <1>3. Inj(c) /\ Apart(c, r) /\ Apart(c, d) /\ Apart(c, b) /\ Apart(c, g)
    BY <1>1, <1>2, ConcatInj, ConcatApart, ApartFacts DEF Distinct
  <1>4. (\A e : In(e, c) <=> In(e, q) \/ In(e, h)) /\ In(x, h)
    <2>1. \A e : In(e, c) <=> In(e, q) \/ In(e, h)
      BY <1>1, ConcatApart
    <2>2. In(x, h)
      BY <1>1 DEF In
    <2> QED
      BY <2>1, <2>2
  <1>5. Distinct(d, b, g, c, r)
    BY <1>3, ApartFacts DEF Distinct
  <1>6. \A n : Covers(n, d, b, g, q, r) => Covers(n, d, b, g, c, r)
    BY <1>4 DEF Covers
  <1>7. \A n \in Nat : x = n + 1 /\ Covers(n, d, b, g, q, r) => Covers(x, d, b, g, c, r)
    BY <1>4 DEF Covers
  <1> QED
    BY <1>1, <1>5, <1>6, <1>7 DEF c

\* The drain takes the queue as it is.
LEMMA DrainMoves ==
    ASSUME NEW d, NEW b, NEW g, NEW q, Distinct(d, b, g, q, <<>>)
    PROVE  /\ Distinct(d, b, g, <<>>, q)
           /\ \A n : Covers(n, d, b, g, q, <<>>) => Covers(n, d, b, g, <<>>, q)
  BY ApartFacts DEF Distinct, Covers

-----------------------------------------------------------------------------
(* The inductive invariant. *)

Before == {"serving", "stopping"}         \* before the drain
Open == Before \cup {"draining"}          \* before the workers are cancelled

Typed ==
    /\ detached \in BOOLEAN /\ accepted \in [Pipes -> Nat]
    /\ queue \in [Pipes -> Items] /\ got \in [Pipes -> Items] /\ batch \in [Pipes -> Items]
    /\ db \in [Pipes -> Items] /\ remaining \in Items
    /\ wpc \in [Pipes -> WorkerStates] /\ phase \in Phases

\* What the drain holds of pipe p.
Rest(p) == IF p = "audit" THEN remaining ELSE <<>>

\* The worker: only a suspended wait_for has an item in flight, a batch is flushed when
\* it is full, and a task that ended holds nothing.
Shape(p) ==
    /\ Len(got[p]) <= 1 /\ (got[p] # <<>> => detached /\ wpc[p] = "waiting")
    /\ Len(batch[p]) <= BatchSize[p]
    /\ wpc[p] \in {"waiting", "expiring"} => Len(batch[p]) < BatchSize[p]
    /\ Stopped(p) => batch[p] = <<>>

\* The sentinel is the metric pipe's, and the last item of its queue.
Late(p) == p = "metric" /\ phase \notin Open
Sentinel(p) ==
    /\ \A i \in 1..Len(queue[p]) : queue[p][i] = None => i = Len(queue[p]) /\ Late(p)
    /\ \A i \in 1..Len(got[p]) : got[p][i] = None => queue[p] = <<>> /\ Late(p)
    /\ wpc[p] \in {"finalFlush", "done"} => queue[p] = <<>> /\ Late(p)

Bounds(p) ==
    /\ Within(db[p], 1, accepted[p]) /\ Within(batch[p], 1, accepted[p])
    /\ Within(Rest(p), 1, accepted[p])
    /\ Within(got[p], 0, accepted[p]) /\ Within(queue[p], 0, accepted[p])

\* Nothing is in two places, and nothing is lost as long as the worker goes on.
Once(p) == Distinct(db[p], batch[p], got[p], queue[p], Rest(p))
Whole(p) ==
    \/ wpc[p] \in {"dead", "cancelled"} \/ (p = "audit" /\ phase = "failed")
    \/ Covers(accepted[p], db[p], batch[p], got[p], queue[p], Rest(p))

\* Until the drain the table, the batch, the item in flight and the queue count on.
Chain(d, b, g, q, n) ==
    /\ From(d, 0) /\ From(b, Len(d)) /\ From(g, Len(d) + Len(b))
    /\ From(q, Len(d) + Len(b) + Len(g)) /\ Len(d) + Len(b) + Len(g) + Len(q) = n
Ordered(p) ==
    phase \in Before /\ wpc[p] # "dead" =>
        Chain(db[p], batch[p], got[p], queue[p], accepted[p])

PipeOK(p) == Shape(p) /\ Sentinel(p) /\ Bounds(p) /\ Once(p) /\ Whole(p) /\ Ordered(p)

\* Where the lifespan is, and what it has left of the audit pipe.
LifespanOK ==
    /\ phase \notin Before => queue["audit"] = <<>>
    /\ phase # "draining" => remaining = <<>>
    /\ phase \in Open => \A p \in Pipes : wpc[p] # "cancelled"
    /\ phase \in {"awaitMetric", "exited"} => wpc["audit"] = "cancelled"

Missing == (1..accepted["audit"]) \ Entries(db["audit"])
LossOK ==
    wpc["audit"] = "cancelled" => Cardinality(Missing) <= BatchSize["audit"]

IInv == Typed /\ (\A p \in Pipes : PipeOK(p)) /\ LifespanOK /\ LossOK

\* The chain through get(), append, flush and put.
LEMMA ChainGet ==
    ASSUME NEW d \in Items, NEW b \in Items, NEW q \in Items, NEW n, q # <<>>,
           Chain(d, b, <<>>, q, n)
    PROVE  Chain(d, b, <<Head(q)>>, Tail(q), n)
  <1> DEFINE h == <<Head(q)>>
             t == Tail(q)
             e == <<>>
  <1>1. /\ Len(q) \in Nat /\ Len(q) >= 1 /\ Len(t) = Len(q) - 1
        /\ \A i \in 1..Len(q) - 1 : t[i] = q[i + 1]
        /\ Len(h) = 1 /\ h[1] = q[1]
    BY HeadParts, Single
  <1>2. Len(d) \in Nat /\ Len(b) \in Nat /\ Len(e) = 0
    BY DEF Items
  <1>3. Chain(d, b, e, q, n)
    OBVIOUS
  <1> HIDE DEF h, t, e
  <1>4. From(q, Len(d) + Len(b)) /\ Len(d) + Len(b) + Len(q) = n
    BY <1>1, <1>2, <1>3 DEF Chain
  <1>5. From(h, Len(d) + Len(b)) /\ From(t, Len(d) + Len(b) + Len(h))
    BY <1>1, <1>2, <1>4 DEF From
  <1>6. Len(d) + Len(b) + Len(h) + Len(t) = n
    BY <1>1, <1>2, <1>4
  <1>7. Chain(d, b, h, t, n)
    BY <1>3, <1>5, <1>6 DEF Chain
  <1> QED
    BY <1>7 DEF h, t

\* A sequence that counts on, continued by another one.
LEMMA FromConcat ==
    ASSUME NEW s \in Items, NEW t \in Items, NEW a \in Nat, From(s, a), From(t, a + Len(s))
    PROVE  From(s \o t, a)
  <1> DEFINE u == s \o t
  <1>1. /\ Len(s) \in Nat /\ Len(t) \in Nat /\ Len(u) \in Nat
        /\ \A k \in 1..Len(u) : \/ k \in 1..Len(s) /\ u[k] = s[k]
                                \/ k - Len(s) \in 1..Len(t) /\ u[k] = t[k - Len(s)]
    BY ConcatParts
  <1> HIDE DEF u
  <1>2. From(u, a)
    BY <1>1 DEF From
  <1> QED
    BY <1>2 DEF u

\* The chain when the worker appends the item in flight to its batch.
LEMMA ChainHandle ==
    ASSUME NEW d \in Items, NEW b \in Items, NEW x \in Nat, NEW t \in Items, NEW n,
           Chain(d, b, <<x>>, t, n)
    PROVE  Chain(d, Append(b, x), <<>>, t, n)
  <1> DEFINE h == <<x>>
             c == Append(b, x)
             e == <<>>
  <1>1. h \in Items /\ Len(h) = 1 /\ c = b \o h /\ Len(c) = Len(b) + 1
    BY Single, AppendParts
  <1>2. Len(d) \in Nat /\ Len(b) \in Nat /\ Len(e) = 0 /\ Len(t) \in Nat
    BY DEF Items
  <1>3. Chain(d, b, h, t, n) /\ From(e, Len(d) + Len(c))
    BY DEF From
  <1> HIDE DEF h, c, e
  <1>4. Len(c) = Len(b) + 1 /\ From(c, Len(d))
    <2>1. From(b, Len(d)) /\ From(h, Len(d) + Len(b))
      BY <1>3 DEF Chain
    <2>2. From(c, Len(d))
      BY <1>1, <1>2, <2>1, FromConcat
    <2> QED
      BY <1>1, <2>2
  <1>5. Len(d) + Len(c) + Len(e) = Len(d) + Len(b) + Len(h)
    BY <1>1, <1>2, <1>4
  <1>6. Chain(d, c, e, t, n)
    BY <1>3, <1>4, <1>5 DEF Chain
  <1> QED
    BY <1>6 DEF c, e

\* The chain when a flush has moved the batch into the table.
LEMMA ChainFlush ==
    ASSUME NEW d \in Items, NEW b \in Items, NEW g \in Items, NEW q \in Items, NEW n,
           Chain(d, b, g, q, n)
    PROVE  Chain(d \o b, <<>>, g, q, n)
  <1> DEFINE c == d \o b
             e == <<>>
  <1>1. Len(c) = Len(d) + Len(b) /\ Len(e) = 0 /\ From(e, Len(c))
    BY ConcatParts DEF From
  <1>2. Len(d) \in Nat /\ Len(b) \in Nat /\ Len(g) \in Nat /\ Len(q) \in Nat
    BY DEF Items
  <1>3. From(c, 0)
    BY <1>2, FromConcat DEF Chain
  <1> HIDE DEF c, e
  <1>4. Len(c) + Len(e) = Len(d) + Len(b)
    BY <1>1, <1>2
  <1>5. Chain(c, e, g, q, n)
    BY <1>1, <1>3, <1>4 DEF Chain
  <1> QED
    BY <1>5 DEF c, e

\* The chain when the next entry is put.
LEMMA ChainPut ==
    ASSUME NEW d \in Items, NEW b \in Items, NEW g \in Items, NEW q \in Items, NEW n \in Nat,
           Chain(d, b, g, q, n)
    PROVE  \A m : m = n + 1 => Chain(d, b, g, Append(q, m), m)
  <1> SUFFICES ASSUME NEW m, m = n + 1 PROVE Chain(d, b, g, Append(q, m), m)
    OBVIOUS
  <1> DEFINE h == <<m>>
             c == Append(q, m)
             k == Len(d) + Len(b) + Len(g)
  <1>1. /\ h \in Items /\ Len(h) = 1 /\ h[1] = m /\ m \in Nat
        /\ c = q \o h /\ Len(c) = Len(q) + 1
    BY Single, AppendParts
  <1>2. k \in Nat /\ Len(q) \in Nat
    BY DEF Items
  <1> HIDE DEF h, c
  <1>3. k + Len(q) = n /\ From(q, k)
    BY DEF Chain
  <1> HIDE DEF k
  <1>4. From(h, k + Len(q))
    BY <1>1, <1>2, <1>3 DEF From
  <1>5. From(c, k) /\ Len(c) = Len(q) + 1
    <2>1. From(c, k)
      BY <1>1, <1>2, <1>3, <1>4, FromConcat
    <2> QED
      BY <1>1, <2>1
  <1>6. k + Len(c) = m
    BY <1>2, <1>3, <1>5
  <1>7. Chain(d, b, g, c, m)
    BY <1>5, <1>6 DEF Chain, k
  <1> QED
    BY <1>7 DEF c

\* The chain read as one sequence: every entry once, in the order of acceptance.
LEMMA ChainWhole ==
    ASSUME NEW d \in Items, NEW b \in Items, NEW g \in Items, NEW q \in Items, NEW n \in Nat,
           Chain(d, b, g, q, n)
    PROVE  d \o (b \o g \o q) = [i \in 1..n |-> i]
  <1>0. Len(d) \in Nat /\ Len(b) \in Nat /\ Len(g) \in Nat /\ Len(q) \in Nat
    BY DEF Items
  <1>1. b \o g \in Items /\ Len(b \o g) = Len(b) + Len(g) /\ From(b \o g, Len(d))
    BY <1>0, ConcatParts, FromConcat DEF Chain
  <1> DEFINE c == b \o g
             m == c \o q
             u == d \o m
  <1>2. m \in Items /\ Len(m) = Len(c) + Len(q)
    BY <1>1, ConcatParts
  <1>3. From(m, Len(d))
    <2>1. Len(d) + Len(c) = Len(d) + Len(b) + Len(g) /\ c \in Items /\ From(c, Len(d))
      BY <1>0, <1>1
    <2> HIDE DEF c
    <2>2. From(q, Len(d) + Len(c))
      BY <2>1 DEF Chain
    <2> QED
      BY <1>0, <2>1, <2>2, FromConcat
  <1>4. u \in Items /\ Len(u) = Len(d) + Len(m)
    BY <1>2, ConcatParts
  <1>5. Len(u) = n
    BY <1>0, <1>1, <1>2, <1>4 DEF Chain
  <1> HIDE DEF m
  <1>6. From(u, 0)
    BY <1>0, <1>2, <1>3, FromConcat DEF Chain
  <1> HIDE DEF u
  <1>7. u = [i \in 1..n |-> i]
    BY <1>4, <1>5, <1>6 DEF From, Items
  <1> QED
    BY <1>7 DEF u, m, c

\* Nothing was accepted and both workers wait.
LEMMA InitIInv == Init => IInv
  <1> SUFFICES ASSUME Init PROVE IInv
    OBVIOUS
  <1>1. Typed
    BY ApartFacts, BooleanAssumption DEF Init, Typed, WorkerStates, Flushes, Phases
  <1>2. ASSUME NEW p \in Pipes PROVE PipeOK(p)
    <2>1. /\ db[p] = <<>> /\ batch[p] = <<>> /\ got[p] = <<>> /\ queue[p] = <<>>
          /\ Rest(p) = <<>> /\ accepted[p] = 0 /\ wpc[p] = "waiting"
      BY DEF Init, Rest
    <2>2. Shape(p)
      BY <2>1, BatchSizeAssumption DEF Shape
    <2>3. Sentinel(p) /\ Bounds(p) /\ Once(p)
      BY <2>1, ApartFacts DEF Sentinel, Bounds, Once, Distinct
    <2>4. Whole(p) /\ Ordered(p)
      BY <2>1 DEF Whole, Covers, Ordered, Chain, From
    <2> QED
      BY <2>2, <2>3, <2>4 DEF PipeOK
  <1>3. LifespanOK /\ LossOK
    BY DEF Init, LifespanOK, LossOK, Before, Pipes
  <1> QED
    BY <1>1, <1>2, <1>3 DEF IInv

-----------------------------------------------------------------------------
(* The workers. *)

\* A step of worker p leaves the other pipe and the lifespan alone.
OnlyPipe(p) ==
    /\ UNCHANGED <<accepted, remaining, phase, detached>>
    /\ \A q \in Pipes \ {p} :
          /\ queue'[q] = queue[q] /\ got'[q] = got[q] /\ batch'[q] = batch[q]
          /\ wpc'[q] = wpc[q] /\ db'[q] = db[q]
    /\ ~Stopped(p) /\ wpc'[p] # "cancelled" /\ (queue[p] = <<>> => queue'[p] = <<>>)

\* A pipe that nothing touches stays as it is.
LEMMA SamePipe ==
    ASSUME NEW q \in Pipes, PipeOK(q), UNCHANGED <<phase, detached, Rest(q)>>,
           accepted'[q] = accepted[q], queue'[q] = queue[q], got'[q] = got[q],
           batch'[q] = batch[q], wpc'[q] = wpc[q], db'[q] = db[q]
    PROVE  PipeOK(q)'
  BY DEF PipeOK, Shape, Sentinel, Late, Bounds, Once, Whole, Ordered, Stopped

\* The loss of a cancelled audit worker changes no more.
LEMMA LossKept ==
    ASSUME LossOK,
           wpc'["audit"] = "cancelled" =>
               /\ wpc["audit"] = "cancelled" /\ db'["audit"] = db["audit"]
               /\ accepted'["audit"] = accepted["audit"]
    PROVE  LossOK'
  BY DEF LossOK, Missing, Entries

\* It is enough to look at the pipe.
LEMMA WorkerKeeps ==
    ASSUME IInv, NEW p \in Pipes, OnlyPipe(p), Typed', PipeOK(p)'
    PROVE  IInv'
  <1>1. \A q \in Pipes : PipeOK(q)'
    <2>1. \A q \in Pipes : UNCHANGED Rest(q)
      BY DEF OnlyPipe, Rest
    <2> QED
      BY <2>1, SamePipe DEF OnlyPipe, IInv
  <1>2. LifespanOK'
    BY DEF IInv, LifespanOK, OnlyPipe, Pipes, Stopped
  <1>3. LossOK'
    <2>1. "audit" \in Pipes
      BY DEF Pipes
    <2> QED
      BY <2>1, LossKept DEF IInv, OnlyPipe, Stopped
  <1> QED
    BY <1>1, <1>2, <1>3 DEF IInv

\* The worker of p waits, has item x in hand and t still queued.
InHand(p, x, t) ==
    /\ wpc[p] = "waiting" /\ x \in Nat /\ t \in Items /\ x <= accepted[p]
    /\ Within(t, 0, accepted[p]) /\ (queue[p] = <<>> => t = <<>>)
    /\ \A i \in 1..Len(t) : t[i] = None => i = Len(t) /\ Late(p)
    /\ x = None => t = <<>> /\ Late(p)
    /\ Distinct(db[p], batch[p], <<x>>, t, Rest(p))
    /\ \/ p = "audit" /\ phase = "failed"
       \/ Covers(accepted[p], db[p], batch[p], <<x>>, t, Rest(p))
    /\ phase \in Before => Chain(db[p], batch[p], <<x>>, t, accepted[p])

\* The item is the head of the queue, which a get() takes.
LEMMA TakeHead ==
    ASSUME IInv, NEW p \in Pipes, wpc[p] = "waiting", got[p] = <<>>, queue[p] # <<>>
    PROVE  InHand(p, Head(queue[p]), Tail(queue[p]))
  <1> DEFINE q == queue[p]
             x == Head(q)
             t == Tail(q)
  <1>1. /\ q \in Items /\ db[p] \in Items /\ batch[p] \in Items /\ Rest(p) \in Items
        /\ accepted[p] \in Nat /\ PipeOK(p)
    BY ApartFacts DEF IInv, Typed, Rest
  <1>2. /\ x \in Nat /\ t \in Items /\ Len(q) \in Nat /\ Len(q) >= 1
        /\ Len(t) = Len(q) - 1 /\ x = q[1] /\ \A i \in 1..Len(q) - 1 : t[i] = q[i + 1]
    BY <1>1, HeadParts
  <1>3. Distinct(db[p], batch[p], <<x>>, t, Rest(p))
    BY <1>1, GetMoves DEF PipeOK, Once
  <1>4. \/ p = "audit" /\ phase = "failed"
        \/ Covers(accepted[p], db[p], batch[p], <<x>>, t, Rest(p))
    BY <1>1, GetMoves DEF PipeOK, Once, Whole
  <1>c. phase \in Before => Chain(db[p], batch[p], <<x>>, t, accepted[p])
    BY <1>1, ChainGet DEF PipeOK, Ordered
  <1>e. \A i \in 1..Len(q) : q[i] = None => i = Len(q) /\ Late(p)
    BY <1>1 DEF PipeOK, Sentinel
  <1> HIDE DEF x, t
  <1>7. x <= accepted[p] /\ Within(t, 0, accepted[p])
    BY <1>1, <1>2 DEF PipeOK, Bounds, Within
  <1>8. /\ \A i \in 1..Len(t) : t[i] = None => i = Len(t) /\ Late(p)
        /\ x = None => Len(t) = 0 /\ Late(p)
    <2> HIDE DEF q
    <2>1. ASSUME NEW i \in 1..Len(t), t[i] = None PROVE i = Len(t) /\ Late(p)
      <3>1. i + 1 \in 1..Len(q) /\ q[i + 1] = None
        BY <1>2, <2>1
      <3>2. i + 1 = Len(q) /\ Late(p)
        BY <1>e, <3>1
      <3> QED
        BY <1>2, <3>2
    <2>2. ASSUME x = None PROVE Len(t) = 0 /\ Late(p)
      <3>1. 1 \in 1..Len(q) /\ q[1] = None
        BY <1>2, <2>2
      <3>2. 1 = Len(q) /\ Late(p)
        BY <1>e, <3>1
      <3>3. Len(t) = 0
        BY <1>1, <3>2, HeadParts DEF q, t
      <3> QED
        BY <3>2, <3>3
    <2> QED
      BY <2>1, <2>2
  <1>9. Len(t) = 0 => t = <<>>
    BY <1>2 DEF Items
  <1> QED
    BY <1>2, <1>3, <1>4, <1>7, <1>8, <1>9, <1>c DEF InHand, x, t

\* Or the get() task has it.
LEMMA TakeGot ==
    ASSUME IInv, NEW p \in Pipes, wpc[p] = "waiting", got[p] # <<>>
    PROVE  got[p] = <<Head(got[p])>> /\ InHand(p, Head(got[p]), queue[p])
  <1> DEFINE x == Head(got[p])
  <1>1. PipeOK(p) /\ got[p] \in Items /\ queue[p] \in Items
    BY DEF IInv, Typed
  <1>2. Len(got[p]) <= 1
    BY <1>1 DEF PipeOK, Shape
  <1>3. /\ Len(got[p]) = 1 /\ x \in Nat /\ x = got[p][1] /\ got[p] = <<x>>
    BY <1>1, <1>2, HeadParts
  <1> HIDE DEF x
  <1>4. x <= accepted[p] /\ (x = None => queue[p] = <<>> /\ Late(p))
    BY <1>1, <1>3 DEF PipeOK, Bounds, Within, Sentinel
  <1>5. InHand(p, x, queue[p])
    BY <1>1, <1>3, <1>4 DEF PipeOK, Bounds, Sentinel, Once, Whole, Ordered, InHand
  <1> QED
    BY <1>3, <1>5 DEF x

\* The worker handles it: the sentinel ends the loop, an entry joins the batch.
LEMMA HandleKeeps ==
    ASSUME IInv, NEW p \in Pipes, NEW x, NEW t, InHand(p, x, t), Handle(p, x),
           got' = [got EXCEPT ![p] = <<>>], queue' = [queue EXCEPT ![p] = t],
           UNCHANGED <<accepted, remaining, db, phase, detached>>
    PROVE  IInv'
  <1>1. /\ x \in Nat /\ t \in Items /\ db[p] \in Items /\ batch[p] \in Items /\ Rest(p) \in Items
        /\ accepted[p] \in Nat /\ BatchSize[p] \in Nat \ {0} /\ Typed /\ PipeOK(p)
        /\ Rest(p)' = Rest(p) /\ wpc[p] = "waiting"
    BY ApartFacts, BatchSizeAssumption DEF IInv, Typed, Rest, InHand
  <1>2. got'[p] = <<>> /\ queue'[p] = t
    BY <1>1 DEF Typed
  <1>3. Len(batch[p]) < BatchSize[p] /\ Len(batch[p]) \in Nat
    BY <1>1 DEF PipeOK, Shape, Items
  <1>4. CASE x = None
    <2>1. /\ batch' = batch /\ wpc' = [wpc EXCEPT ![p] = IF batch[p] = <<>> THEN "done" ELSE "finalFlush"]
          /\ t = <<>> /\ Late(p)
      BY <1>4 DEF Handle, InHand
    <2>2. /\ wpc'[p] \in {"done", "finalFlush"} /\ (wpc'[p] = "done" => batch[p] = <<>>)
      BY <1>1, <2>1 DEF Typed
    <2>3. Typed'
      BY <1>1, <2>1, ApartFacts DEF Typed, WorkerStates, Flushes
    <2>4. OnlyPipe(p)
      BY <1>1, <2>1, <2>2 DEF OnlyPipe, Typed, Stopped
    <2>5. Shape(p)'
      BY <1>1, <1>2, <1>3, <2>1, <2>2, ApartFacts DEF Shape, Stopped, PipeOK
    <2>6. Sentinel(p)'
      BY <1>2, <2>1 DEF Sentinel, Late
    <2>7. Bounds(p)'
      BY <1>1, <1>2, <2>1, ApartFacts DEF Bounds, PipeOK
    <2>8. Distinct(db[p], batch[p], <<>>, t, Rest(p))
      BY <1>1, HandleMoves DEF InHand
    <2>9. \/ p = "audit" /\ phase = "failed"
          \/ Covers(accepted[p], db[p], batch[p], <<>>, t, Rest(p))
      BY <1>1, <1>4, HandleMoves DEF InHand, None
    <2>10. Once(p)' /\ Whole(p)' /\ Ordered(p)'
      BY <1>1, <1>2, <2>1, <2>8, <2>9 DEF Once, Whole, Ordered, Late, Open
    <2> QED
      BY <2>3, <2>4, <2>5, <2>6, <2>7, <2>10, WorkerKeeps DEF PipeOK
  <1>5. CASE x # None
    <2> DEFINE c == Append(batch[p], x)
    <2>1. /\ batch' = [batch EXCEPT ![p] = c]
          /\ wpc' = [wpc EXCEPT ![p] =
                      IF Len(batch[p]) + 1 >= BatchSize[p] THEN "flushing" ELSE "waiting"]
      BY <1>5 DEF Handle
    <2>2. /\ wpc'[p] \in {"flushing", "waiting"} /\ batch'[p] = c
          /\ wpc'[p] = "waiting" => ~(Len(batch[p]) + 1 >= BatchSize[p])
      BY <1>1, <2>1 DEF Typed
    <2>3. c \in Items /\ Len(c) = Len(batch[p]) + 1 /\ c = batch[p] \o <<x>>
      BY <1>1, AppendParts
    <2>4. /\ Distinct(db[p], c, <<>>, t, Rest(p))
          /\ \/ p = "audit" /\ phase = "failed"
             \/ Covers(accepted[p], db[p], c, <<>>, t, Rest(p))
      BY <1>1, HandleMoves DEF InHand
    <2>5. phase \in Before => Chain(db[p], c, <<>>, t, accepted[p])
      BY <1>1, ChainHandle DEF InHand
    <2>6. Within(c, 1, accepted[p])
      <3>1. Within(batch[p], 1, accepted[p])
        BY <1>1 DEF PipeOK, Bounds
      <3>2. Within(<<x>>, 1, accepted[p]) /\ <<x>> \in Items
        BY <1>1, <1>5, Single DEF InHand, Within, None
      <3> QED
        BY <1>1, <2>3, <3>1, <3>2, ConcatApart
    <2> HIDE DEF c
    <2>7. Typed'
      BY <1>1, <2>1, <2>3, ApartFacts DEF Typed, WorkerStates, Flushes
    <2>8. OnlyPipe(p)
      BY <1>1, <2>1, <2>2 DEF OnlyPipe, Typed, Stopped, InHand
    <2>9. Shape(p)'
      <3>1. /\ Len(c) <= BatchSize[p]
            /\ (wpc'[p] = "waiting" => Len(c) < BatchSize[p])
        BY <1>1, <1>3, <2>2, <2>3
      <3>2. Len(got'[p]) <= 1 /\ got'[p] = <<>>
        BY <1>2
      <3> QED
        BY <2>2, <3>1, <3>2 DEF Shape, Stopped
    <2>10. Sentinel(p)'
      BY <1>2, <2>2 DEF Sentinel, InHand, Late
    <2>11. Bounds(p)'
      BY <1>1, <1>2, <2>2, <2>6, ApartFacts DEF Bounds, PipeOK, InHand
    <2>12. Once(p)' /\ Whole(p)' /\ Ordered(p)'
      BY <1>1, <1>2, <2>2, <2>4, <2>5 DEF Once, Whole, Ordered
    <2> QED
      BY <2>7, <2>8, <2>9, <2>10, <2>11, <2>12, WorkerKeeps DEF PipeOK
  <1> QED
    BY <1>4, <1>5

\* The steps that take an item.
LEMMA TakeStep ==
    ASSUME IInv, NEW p \in Pipes, UNCHANGED detached,
           InnerGet(p) \/ Resume(p) \/ DirectGet(p)
    PROVE  IInv'
  <1>1. /\ Typed /\ PipeOK(p) /\ queue[p] \in Items /\ got[p] \in Items
        /\ Rest(p) \in Items /\ db[p] \in Items /\ batch[p] \in Items
    BY ApartFacts DEF IInv, Typed, Rest
  <1>2. CASE InnerGet(p)
    <2> DEFINE x == Head(queue[p])
               t == Tail(queue[p])
    <2>1. /\ InHand(p, x, t) /\ got' = [got EXCEPT ![p] = <<x>>]
          /\ queue' = [queue EXCEPT ![p] = t] /\ detached /\ queue[p] # <<>>
          /\ UNCHANGED <<accepted, batch, wpc, remaining, db, phase>>
      BY <1>2, TakeHead DEF InnerGet
    <2>2. x \in Nat /\ t \in Items /\ <<x>> \in Items /\ Len(<<x>>) = 1 /\ <<x>>[1] = x
      BY <2>1, Single DEF InHand
    <2>a. Within(<<x>>, 0, accepted[p])
      BY <2>1, <2>2 DEF InHand, Within
    <2> HIDE DEF x, t
    <2>3. got'[p] = <<x>> /\ queue'[p] = t /\ UNCHANGED Rest(p) /\ wpc'[p] = "waiting"
      BY <1>1, <2>1 DEF Typed, Rest, InHand
    <2>4. Typed'
      BY <1>1, <2>1, <2>2 DEF Typed
    <2>5. OnlyPipe(p)
      BY <1>1, <2>1, <2>2 DEF OnlyPipe, Typed, InHand, Stopped
    <2>6. Shape(p)'
      <3>1. Len(got'[p]) <= 1
        BY <2>2, <2>3
      <3> QED
        BY <1>1, <2>1, <2>3, <3>1 DEF PipeOK, Shape, Stopped
    <2>7. Sentinel(p)'
      <3>1. \A i \in 1..Len(<<x>>) : <<x>>[i] = None => x = None
        BY <2>2
      <3> QED
        BY <2>1, <2>3, <3>1 DEF InHand, Sentinel, Late
    <2>8. Bounds(p)'
      BY <1>1, <2>1, <2>3, <2>a DEF InHand, Bounds, PipeOK
    <2>9. Once(p)' /\ Whole(p)' /\ Ordered(p)'
      BY <2>1, <2>3 DEF InHand, Once, Whole, Ordered
    <2> QED
      BY <2>4, <2>5, <2>6, <2>7, <2>8, <2>9, WorkerKeeps DEF PipeOK
  <1>3. CASE Resume(p)
    <2> DEFINE x == Head(got[p])
    <2>1. InHand(p, x, queue[p])
      BY <1>3, TakeGot DEF Resume
    <2>2. queue' = [queue EXCEPT ![p] = queue[p]]
      BY <1>1, <1>3 DEF Resume, Typed
    <2> QED
      BY <1>3, <2>1, <2>2, HandleKeeps DEF Resume
  <1>4. CASE DirectGet(p)
    <2>1. got[p] = <<>>
      BY <1>1, <1>4 DEF DirectGet, PipeOK, Shape
    <2>2. got' = [got EXCEPT ![p] = <<>>]
      BY <1>1, <1>4, <2>1 DEF DirectGet, Typed
    <2>3. InHand(p, Head(queue[p]), Tail(queue[p]))
      BY <1>4, <2>1, TakeHead DEF DirectGet
    <2> QED
      BY <1>4, <2>2, <2>3, HandleKeeps DEF DirectGet
  <1> QED
    BY <1>2, <1>3, <1>4

\* The steps of the timer, which only move the worker on.
LEMMA TimerStep ==
    ASSUME IInv, NEW p \in Pipes, UNCHANGED detached,
           TimerFires(p) \/ HandleTimeout(p) \/ FlushTimesOut(p)
    PROVE  IInv'
  <1>1. Typed /\ PipeOK(p) /\ wpc[p] \in {"waiting", "expiring", "flushing"}
    BY DEF IInv, TimerFires, HandleTimeout, FlushTimesOut
  <1>2. UNCHANGED <<accepted, queue, got, batch, remaining, db, phase, Rest(p)>>
    BY DEF TimerFires, HandleTimeout, FlushTimesOut, Rest
  <1>3. PICK w \in {"expiring", "waiting", "timeoutFlush"} :
           /\ wpc' = [wpc EXCEPT ![p] = w] /\ got[p] = <<>>
           /\ (w = "timeoutFlush" \/ wpc[p] \in {"waiting", "expiring"})
    BY <1>1 DEF TimerFires, HandleTimeout, FlushTimesOut, PipeOK, Shape
  <1>4. wpc'[p] = w
    BY <1>1, <1>3 DEF Typed
  <1>5. Typed'
    BY <1>1, <1>2, <1>3 DEF Typed, WorkerStates, Flushes
  <1>6. OnlyPipe(p)
    BY <1>1, <1>2, <1>3, <1>4 DEF OnlyPipe, Typed, Stopped
  <1>7. Shape(p)'
    BY <1>1, <1>2, <1>3, <1>4 DEF PipeOK, Shape, Stopped
  <1>8. Sentinel(p)' /\ Bounds(p)' /\ Once(p)' /\ Whole(p)' /\ Ordered(p)'
    BY <1>1, <1>2, <1>3, <1>4 DEF PipeOK, Sentinel, Late, Bounds, Once, Whole, Ordered
  <1> QED
    BY <1>5, <1>6, <1>7, <1>8, WorkerKeeps DEF PipeOK

\* A transaction ends: the batch is in the table, or it is lost with the worker.
LEMMA FlushStep ==
    ASSUME IInv, NEW p \in Pipes, UNCHANGED detached, FlushOk(p) \/ FlushFail(p)
    PROVE  IInv'
  <1>1. /\ Typed /\ PipeOK(p) /\ wpc[p] \in Flushes /\ queue[p] \in Items /\ got[p] \in Items
        /\ Rest(p) \in Items /\ db[p] \in Items /\ batch[p] \in Items /\ accepted[p] \in Nat
    BY ApartFacts DEF IInv, Typed, Rest, FlushOk, FlushFail
  <1>2. /\ UNCHANGED <<accepted, queue, got, remaining, phase, Rest(p)>>
        /\ batch' = [batch EXCEPT ![p] = <<>>]
    BY DEF FlushOk, FlushFail, Rest
  <1> DEFINE d == db[p] \o batch[p]
  <1>3. d \in Items /\ Within(d, 1, accepted[p])
    BY <1>1, ConcatParts, ConcatApart DEF PipeOK, Bounds
  <1>4. /\ Distinct(d, <<>>, got[p], queue[p], Rest(p))
        /\ Distinct(db[p], <<>>, got[p], queue[p], Rest(p))
        /\ Whole(p) => \/ wpc[p] \in {"dead", "cancelled"} \/ (p = "audit" /\ phase = "failed")
                       \/ Covers(accepted[p], d, <<>>, got[p], queue[p], Rest(p))
    BY <1>1, FlushMoves DEF PipeOK, Once, Whole
  <1>5. phase \in Before => Chain(d, <<>>, got[p], queue[p], accepted[p])
    BY <1>1, ChainFlush DEF PipeOK, Ordered, Flushes
  <1>6. PICK w \in {"waiting", "done", "dead"}, e \in {d, db[p]} :
           /\ wpc' = [wpc EXCEPT ![p] = w] /\ db' = [db EXCEPT ![p] = e]
           /\ (w = "done" => wpc[p] = "finalFlush") /\ (w = "dead" \/ e = d)
    <2>1. CASE FlushOk(p)
      BY <2>1 DEF FlushOk
    <2>2. CASE FlushFail(p)
      <3>1. db = [db EXCEPT ![p] = db[p]]
        BY <1>1 DEF Typed
      <3> QED
        BY <2>2, <3>1 DEF FlushFail
    <2> QED
      BY <2>1, <2>2
  <1> HIDE DEF d
  <1>7. wpc'[p] = w /\ db'[p] = e /\ batch'[p] = <<>> /\ e \in Items /\ Within(e, 1, accepted[p])
    BY <1>1, <1>2, <1>3, <1>6 DEF Typed, PipeOK, Bounds
  <1>8. Typed'
    BY <1>1, <1>2, <1>3, <1>6, ApartFacts DEF Typed, WorkerStates, Flushes
  <1>9. OnlyPipe(p)
    BY <1>1, <1>2, <1>6, <1>7 DEF OnlyPipe, Typed, Stopped, Flushes
  <1>10. Shape(p)'
    <2>1. got[p] = <<>>
      BY <1>1 DEF PipeOK, Shape, Flushes
    <2>2. Len(<<>>) = 0 /\ 0 <= BatchSize[p] /\ 0 < BatchSize[p] /\ 0 <= 1
      BY BatchSizeAssumption
    <2> QED
      BY <1>2, <1>7, <2>1, <2>2 DEF Shape
  <1>11. Sentinel(p)'
    BY <1>1, <1>2, <1>6, <1>7 DEF PipeOK, Sentinel, Late
  <1>12. Bounds(p)'
    BY <1>1, <1>2, <1>7, ApartFacts DEF PipeOK, Bounds
  <1>13. Once(p)'
    BY <1>2, <1>4, <1>6, <1>7 DEF Once
  <1>14. Whole(p)' /\ Ordered(p)'
    BY <1>1, <1>2, <1>4, <1>5, <1>6, <1>7 DEF PipeOK, Whole, Ordered, Flushes
  <1> QED
    BY <1>8, <1>9, <1>10, <1>11, <1>12, <1>13, <1>14, WorkerKeeps DEF PipeOK

-----------------------------------------------------------------------------
(* Producers and lifespan. *)

\* An entry beyond the bounds of a sequence is not in it.
LEMMA Fresh ==
    ASSUME NEW s \in Items, NEW a \in Nat, NEW n \in Nat, Within(s, a, n), NEW m, m = n + 1
    PROVE  ~In(m, s) /\ Within(s, a, m)
  <1>1. \A k \in 1..Len(s) : s[k] \in Nat
    BY DEF Items
  <1> QED
    BY <1>1 DEF Within, In

\* A request or a metric is enqueued.
LEMMA PutStep ==
    ASSUME IInv, NEW p \in Pipes, phase = "serving", Put(p), UNCHANGED detached
    PROVE  IInv'
  <1>1. /\ Typed /\ PipeOK(p) /\ queue[p] \in Items /\ got[p] \in Items
        /\ Rest(p) \in Items /\ db[p] \in Items /\ batch[p] \in Items /\ accepted[p] \in Nat
    BY ApartFacts DEF IInv, Typed, Rest
  <1>2. UNCHANGED <<got, batch, wpc, remaining, db, phase>> /\ \A q \in Pipes : UNCHANGED Rest(q)
    BY DEF Put, Rest
  <1>3. PICK m \in Nat : m = accepted[p] + 1
    BY <1>1
  <1> DEFINE c == Append(queue[p], m)
  <1>4. /\ queue' = [queue EXCEPT ![p] = c] /\ accepted' = [accepted EXCEPT ![p] = m]
        /\ queue'[p] = c /\ accepted'[p] = m
    BY <1>1, <1>3 DEF Put, Typed
  <1>5. /\ Within(db[p], 1, m) /\ Within(batch[p], 1, m) /\ Within(Rest(p), 1, m)
        /\ Within(got[p], 0, m) /\ Within(queue[p], 0, m)
        /\ ~In(m, db[p]) /\ ~In(m, batch[p]) /\ ~In(m, Rest(p)) /\ ~In(m, got[p]) /\ ~In(m, queue[p])
    BY <1>1, <1>3, Fresh DEF PipeOK, Bounds
  <1>6. /\ c \in Items /\ Distinct(db[p], batch[p], got[p], c, Rest(p))
        /\ Covers(accepted[p], db[p], batch[p], got[p], queue[p], Rest(p))
              => Covers(m, db[p], batch[p], got[p], c, Rest(p))
    BY <1>1, <1>3, <1>5, PutMoves DEF PipeOK, Once
  <1>7. Chain(db[p], batch[p], got[p], queue[p], accepted[p])
            => Chain(db[p], batch[p], got[p], c, m)
    BY <1>1, <1>3, ChainPut
  <1>8. c = queue[p] \o <<m>> /\ Len(c) = Len(queue[p]) + 1 /\ <<m>> \in Items
        /\ Len(<<m>>) = 1 /\ <<m>>[1] = m
    BY <1>1, AppendParts, Single
  <1>9. Within(c, 0, m) /\ \A k \in 1..Len(c) : c[k] # None
    <2>1. \A k \in 1..Len(queue[p]) : queue[p][k] # None
      BY <1>1 DEF PipeOK, Sentinel, Late, Open, Before
    <2>2. m # None
      BY <1>1, <1>3 DEF None
    <2>3. Within(<<m>>, 0, m)
      BY <1>8 DEF Within
    <2>4. Within(c, 0, m)
      BY <1>1, <1>5, <1>8, <2>3, ConcatApart
    <2>5. \A k \in 1..Len(c) : (k \in 1..Len(queue[p]) /\ c[k] = queue[p][k]) \/ c[k] = m
      BY <1>1 DEF Items
    <2> QED
      BY <2>1, <2>2, <2>4, <2>5
  <1> HIDE DEF c
  <1>10. Typed'
    BY <1>1, <1>2, <1>4, <1>6 DEF Typed
  <1>11. PipeOK(p)'
    <2>1. Shape(p)'
      BY <1>1, <1>2 DEF PipeOK, Shape, Stopped
    <2>2. Sentinel(p)'
      <3>1. ~Late(p) /\ ~Late(p)'
        BY <1>2 DEF Late, Open, Before
      <3>2. \A k \in 1..Len(got[p]) : got[p][k] # None
        BY <1>1, <3>1 DEF PipeOK, Sentinel
      <3>3. wpc[p] \notin {"finalFlush", "done"}
        BY <1>1, <3>1 DEF PipeOK, Sentinel
      <3> QED
        BY <1>2, <1>4, <1>9, <3>1, <3>2, <3>3 DEF Sentinel
    <2>3. Bounds(p)'
      BY <1>2, <1>4, <1>5, <1>9 DEF Bounds
    <2>4. Once(p)' /\ Whole(p)' /\ Ordered(p)'
      BY <1>1, <1>2, <1>4, <1>6, <1>7 DEF PipeOK, Once, Whole, Ordered
    <2> QED
      BY <2>1, <2>2, <2>3, <2>4 DEF PipeOK
  <1>12. \A q \in Pipes \ {p} : PipeOK(q)'
    <2> SUFFICES ASSUME NEW q \in Pipes \ {p} PROVE PipeOK(q)'
      OBVIOUS
    <2>1. queue'[q] = queue[q] /\ accepted'[q] = accepted[q] /\ PipeOK(q)
      BY <1>1, <1>4 DEF Typed, IInv
    <2> QED
      BY <1>2, <2>1, SamePipe
  <1>13. LifespanOK' /\ LossOK'
    <2>1. wpc["audit"] # "cancelled"
      BY DEF IInv, LifespanOK, Open, Before, Pipes
    <2>2. LifespanOK'
      BY <1>2 DEF IInv, LifespanOK, Before
    <2> QED
      BY <1>2, <2>1, <2>2 DEF LossOK
  <1> QED
    BY <1>10, <1>11, <1>12, <1>13 DEF IInv

\* Entries that are in the table or in a batch: at most a batch of them is missing.
LEMMA BatchBoundsLoss ==
    ASSUME NEW d \in Items, NEW b \in Items, NEW n \in Nat, NEW k \in Nat, Len(b) <= k,
           \A e \in 1..n : In(e, d) \/ In(e, b)
    PROVE  Cardinality((1..n) \ Entries(d)) <= k
  <1> DEFINE S == 1..Len(b)
             M == (1..n) \ Entries(d)
             f == [i \in S |-> b[i]]
  <1>0. Len(b) \in Nat
    BY DEF Items
  <1>1. IsFiniteSet(S) /\ Cardinality(S) = Len(b)
    <2>1. ASSUME NEW l \in Nat PROVE IsFiniteSet(1..l) /\ Cardinality(1..l) = l
      <3>1. 1 \in Int /\ l \in Int
        OBVIOUS
      <3>2. IsFiniteSet(1..l) /\ Cardinality(1..l) = (IF 1 > l THEN 0 ELSE l - 1 + 1)
        BY ONLY <3>1, FS_Interval
      <3> QED
        BY <3>2
    <2> QED
      BY <1>0, <2>1
  <1>2. f \in Surjection(S, Entries(b))
    BY DEF Surjection, Entries
  <1>3. IsFiniteSet(Entries(b)) /\ Cardinality(Entries(b)) <= Len(b)
    BY <1>1, <1>2, FS_Surjection
  <1>4. M \in SUBSET Entries(b)
    BY DEF In, Entries
  <1>5. IsFiniteSet(M) /\ Cardinality(M) <= Cardinality(Entries(b))
    BY <1>3, <1>4, FS_Subset
  <1>6. Cardinality(M) \in Nat /\ Cardinality(Entries(b)) \in Nat
    BY <1>3, <1>5, FS_CardinalityType
  <1> HIDE DEF M, S, f
  <1>7. Cardinality(M) <= k
    BY <1>0, <1>3, <1>5, <1>6
  <1> QED
    BY <1>7 DEF M

\* A pipe when the workers are about to be cancelled: rows d in the table, q queued.
Ready(p, d, q) ==
    /\ d \in Items /\ q \in Items /\ Within(d, 1, accepted[p]) /\ Within(q, 0, accepted[p])
    /\ Distinct(d, batch[p], got[p], q, <<>>)
    /\ wpc[p] # "dead" => Covers(accepted[p], d, batch[p], got[p], q, <<>>)
    /\ \A k \in 1..Len(q) : q[k] = None => k = Len(q) /\ p = "metric"
    /\ \A k \in 1..Len(got[p]) : got[p][k] # None
    /\ wpc[p] \notin {"finalFlush", "done", "cancelled"} /\ (p = "audit" => q = <<>>)

\* CancelWorkers and the transaction it may interrupt, seen from pipe p.
CancelPipe(p, d, q) ==
    LET fetch == Swallows(p, q) /\ got[p] = <<>>
        end   == ~Stopped(p) /\ ~Swallows(p, q)
    IN  /\ got'[p] = (IF fetch THEN <<Head(q)>> ELSE got[p])
        /\ queue'[p] = (IF fetch THEN Tail(q) ELSE q)
        /\ wpc'[p] = (IF end THEN "cancelled" ELSE wpc[p])
        /\ batch'[p] = (IF end THEN <<>> ELSE batch[p])
        /\ \/ db'[p] = d
           \/ wpc[p] \in Flushes /\ db'[p] = d \o batch[p]

\* What a cancelled pipe is left with.
Cancelled(p) ==
    /\ queue'[p] \in Items /\ got'[p] \in Items /\ batch'[p] \in Items /\ db'[p] \in Items
    /\ wpc'[p] \in WorkerStates /\ PipeOK(p)' /\ (p = "audit" => queue'[p] = <<>>)
    /\ p = "audit" /\ wpc'[p] = "cancelled" =>
          Cardinality((1..accepted[p]) \ Entries(db'[p])) <= BatchSize[p]

\* The cancellation of a worker keeps its pipe in order, and loses its batch at most.
LEMMA CancelOne ==
    ASSUME IInv, NEW p \in Pipes, NEW d, NEW q, Ready(p, d, q), CancelPipe(p, d, q),
           phase' = "awaitAudit", remaining' = <<>>, UNCHANGED <<accepted, detached>>
    PROVE  Cancelled(p)
  <1>1. /\ Typed /\ Shape(p) /\ got[p] \in Items /\ batch[p] \in Items /\ accepted[p] \in Nat
        /\ d \in Items /\ q \in Items /\ Within(batch[p], 1, accepted[p])
        /\ Within(got[p], 0, accepted[p]) /\ wpc[p] \in WorkerStates
    BY DEF IInv, Typed, Ready, PipeOK, Bounds
  <1>2. /\ phase' \notin Before /\ (Late(p)' <=> p = "metric") /\ Rest(p)' = <<>>
        /\ accepted'[p] = accepted[p] /\ phase' # "failed" /\ detached' = detached
    BY DEF Before, Late, Open, Rest
  <1>3. Ordered(p)'
    BY <1>2 DEF Ordered
  <1>b. BatchSize[p] \in Nat \ {0} /\ Len(batch[p]) \in Nat
    BY <1>1, BatchSizeAssumption DEF Items
  <1>4. CASE Swallows(p, q) /\ got[p] = <<>>
    <2> DEFINE x == Head(q)
               t == Tail(q)
    <2>1. /\ q # <<>> /\ detached /\ wpc[p] = "waiting" /\ got'[p] = <<x>> /\ queue'[p] = t
          /\ wpc'[p] = "waiting" /\ batch'[p] = batch[p] /\ db'[p] = d
      BY <1>4 DEF CancelPipe, Swallows, Stopped, Flushes
    <2>2. /\ x \in Nat /\ t \in Items /\ <<x>> \in Items /\ Len(q) \in Nat /\ Len(q) >= 1
          /\ Len(t) = Len(q) - 1 /\ x = q[1] /\ \A i \in 1..Len(q) - 1 : t[i] = q[i + 1]
          /\ (Len(q) = 1 => Len(t) = 0) /\ Len(<<x>>) = 1 /\ <<x>>[1] = x
      BY <1>1, <2>1, HeadParts, Single
    <2>3. /\ Distinct(d, batch[p], <<x>>, t, <<>>)
          /\ Covers(accepted[p], d, batch[p], <<x>>, t, <<>>)
      BY <1>1, <1>4, <2>1, GetMoves, ApartFacts DEF Ready
    <2>4. \A k \in 1..Len(q) : q[k] = None => k = Len(q) /\ p = "metric"
      BY DEF Ready
    <2>5. (Len(t) = 0 => t = <<>>) /\ Within(q, 0, accepted[p])
      <3>1. \A u \in Items : Len(u) = 0 => u = <<>>
        BY DEF Items
      <3> QED
        BY <2>2, <3>1 DEF Ready
    <2>6. p = "audit" => FALSE
      BY <2>1 DEF Ready
    <2> HIDE DEF x, t
    <2>7. /\ \A k \in 1..Len(t) : t[k] = None => k = Len(t) /\ p = "metric"
          /\ x = None => t = <<>> /\ p = "metric"
      <3>1. ASSUME NEW k \in 1..Len(t), t[k] = None PROVE k = Len(t) /\ p = "metric"
        <4>1. k + 1 \in 1..Len(q) /\ q[k + 1] = None
          BY <2>2, <3>1
        <4>2. k + 1 = Len(q) /\ p = "metric"
          BY <2>4, <4>1
        <4> QED
          BY <2>2, <4>2
      <3>2. ASSUME x = None PROVE t = <<>> /\ p = "metric"
        <4>1. 1 \in 1..Len(q) /\ q[1] = None
          BY <2>2, <3>2
        <4>2. 1 = Len(q) /\ p = "metric"
          BY <2>4, <4>1
        <4> QED
          BY <2>2, <2>5, <4>2
      <3> QED
        BY <3>1, <3>2
    <2>8. Within(<<x>>, 0, accepted[p]) /\ Within(t, 0, accepted[p])
      <3>1. x <= accepted[p] /\ 0 <= x
        BY <2>2, <2>5 DEF Within
      <3>2. Within(<<x>>, 0, accepted[p])
        BY <2>2, <3>1 DEF Within
      <3>3. Within(t, 0, accepted[p])
        BY <2>2, <2>5 DEF Within
      <3> QED
        BY <3>2, <3>3
    <2>9. Shape(p)'
      <3>1. Len(<<x>>) <= 1
        BY <2>2
      <3> QED
        BY <1>1, <1>2, <2>1, <3>1 DEF Shape, Stopped
    <2>10. Sentinel(p)'
      <3>1. \A i \in 1..Len(<<x>>) : <<x>>[i] = None => x = None
        BY <2>2
      <3> QED
        BY <1>2, <2>1, <2>7, <3>1 DEF Sentinel
    <2>11. Bounds(p)'
      BY <1>1, <1>2, <2>1, <2>8, ApartFacts DEF Ready, Bounds
    <2>12. Once(p)' /\ Whole(p)'
      BY <1>2, <2>1, <2>3 DEF Once, Whole
    <2> QED
      BY <1>1, <1>3, <2>1, <2>2, <2>6, <2>9, <2>10, <2>11, <2>12 DEF Cancelled, PipeOK
  <1>5. CASE ~Stopped(p) /\ ~Swallows(p, q)
    <2>1. /\ got[p] = <<>> /\ got'[p] = <<>> /\ queue'[p] = q /\ wpc'[p] = "cancelled"
          /\ batch'[p] = <<>>
      BY <1>1, <1>5 DEF CancelPipe, Swallows, Shape
    <2>2. \/ db'[p] = d
          \/ db'[p] = d \o batch[p]
      BY DEF CancelPipe
    <2>3. d \o batch[p] \in Items /\ Within(d \o batch[p], 1, accepted[p])
      BY <1>1, ConcatParts, ConcatApart DEF Ready
    <2>4. Distinct(d \o batch[p], <<>>, <<>>, q, <<>>) /\ Distinct(d, <<>>, <<>>, q, <<>>)
      BY <1>1, <2>1, FlushMoves, ApartFacts DEF Ready
    <2>5. /\ db'[p] \in Items /\ Within(db'[p], 1, accepted[p])
          /\ Distinct(db'[p], <<>>, <<>>, q, <<>>)
      BY <1>1, <2>2, <2>3, <2>4 DEF Ready
    <2>6. Shape(p)'
      <3>1. Len(<<>>) = 0 /\ 0 <= 1 /\ 0 <= BatchSize[p]
        BY <1>b
      <3> QED
        BY <2>1, <3>1 DEF Shape
    <2>7. Sentinel(p)'
      BY <1>2, <2>1 DEF Sentinel, Ready
    <2>8. Bounds(p)'
      BY <1>1, <1>2, <2>1, <2>5, ApartFacts DEF Bounds, Ready
    <2>9. Once(p)' /\ Whole(p)'
      BY <1>2, <2>1, <2>5 DEF Once, Whole
    <2>10. ASSUME p = "audit"
           PROVE  Cardinality((1..accepted[p]) \ Entries(db'[p])) <= BatchSize[p]
      <3>1. \A e \in 1..accepted[p] : In(e, d) \/ In(e, batch[p])
        <4>1. Covers(accepted[p], d, batch[p], <<>>, <<>>, <<>>)
          BY <1>5, <2>1, <2>10 DEF Ready, Stopped
        <4> QED
          BY <4>1, ApartFacts DEF Covers
      <3>2. \A e \in 1..accepted[p] : In(e, db'[p]) \/ In(e, batch[p])
        <4>1. \A e : In(e, d \o batch[p]) <=> In(e, d) \/ In(e, batch[p])
          BY <1>1, ConcatApart
        <4> QED
          BY <2>2, <3>1, <4>1
      <3>3. Len(batch[p]) <= BatchSize[p]
        BY <1>1 DEF Shape
      <3> QED
        BY <1>1, <1>b, <2>5, <3>2, <3>3, BatchBoundsLoss
    <2> QED
      BY <1>1, <1>3, <2>1, <2>5, <2>6, <2>7, <2>8, <2>9, <2>10, ApartFacts
      DEF Cancelled, PipeOK, Ready, WorkerStates
  <1>6. CASE ~(Swallows(p, q) /\ got[p] = <<>>) /\ ~(~Stopped(p) /\ ~Swallows(p, q))
    <2>1. /\ got'[p] = got[p] /\ queue'[p] = q /\ wpc'[p] = wpc[p] /\ batch'[p] = batch[p]
          /\ db'[p] = d /\ wpc[p] # "cancelled"
      BY <1>6 DEF CancelPipe, Swallows, Stopped, Flushes, Ready
    <2>2. Shape(p)'
      BY <1>1, <1>2, <2>1 DEF Shape, Stopped
    <2>3. Sentinel(p)'
      BY <1>2, <2>1 DEF Sentinel, Ready
    <2>4. Bounds(p)'
      BY <1>1, <1>2, <2>1, ApartFacts DEF Bounds, Ready
    <2>5. Once(p)' /\ Whole(p)'
      BY <1>2, <2>1 DEF Once, Whole, Ready
    <2> QED
      BY <1>1, <1>3, <2>1, <2>2, <2>3, <2>4, <2>5 DEF Cancelled, PipeOK, Ready
  <1> QED
    BY <1>4, <1>5, <1>6

\* So does the whole of CancelWorkers, once both pipes are ready for it.
LEMMA CancelBoth ==
    ASSUME IInv, NEW auditQ, NEW rows \in [Pipes -> Items], CancelWorkers(auditQ),
           db' \in CommittedAfterCancel(rows), remaining' = <<>>, UNCHANGED <<accepted, detached>>,
           Ready("audit", rows["audit"], auditQ),
           Ready("metric", rows["metric"], Append(queue["metric"], None))
    PROVE  IInv'
  <1> DEFINE q == [audit |-> auditQ, metric |-> Append(queue["metric"], None)]
  <1>1. ASSUME NEW p \in Pipes PROVE Ready(p, rows[p], q[p]) /\ CancelPipe(p, rows[p], q[p])
    <2>1. Ready(p, rows[p], q[p])
      <3>1. q["audit"] = auditQ /\ q["metric"] = Append(queue["metric"], None)
        OBVIOUS
      <3> HIDE DEF q
      <3>2. CASE p = "audit"
        BY <3>1, <3>2
      <3>3. CASE p = "metric"
        BY <3>1, <3>3
      <3> QED
        BY <3>2, <3>3 DEF Pipes
    <2>2. PICK C \in SUBSET Interrupted :
            db' = [x \in Pipes |-> IF x \in C THEN rows[x] \o batch[x] ELSE rows[x]]
      BY DEF CommittedAfterCancel
    <2>3. \/ db'[p] = rows[p]
          \/ wpc[p] \in Flushes /\ db'[p] = rows[p] \o batch[p]
      BY <2>2 DEF Interrupted
    <2> QED
      BY <2>1, <2>3 DEF CancelWorkers, CancelPipe
  <1>2. phase' = "awaitAudit"
    BY DEF CancelWorkers
  <1>3. \A p \in Pipes : Cancelled(p)
    BY <1>1, <1>2, CancelOne
  <1>4. Typed'
    <2>1. /\ DOMAIN got' = Pipes /\ DOMAIN queue' = Pipes /\ DOMAIN wpc' = Pipes
          /\ DOMAIN batch' = Pipes /\ DOMAIN db' = Pipes
          /\ got' = [p \in Pipes |-> got'[p]] /\ queue' = [p \in Pipes |-> queue'[p]]
          /\ wpc' = [p \in Pipes |-> wpc'[p]] /\ batch' = [p \in Pipes |-> batch'[p]]
          /\ db' = [p \in Pipes |-> db'[p]]
      BY DEF CancelWorkers, CommittedAfterCancel
    <2>2. /\ got' \in [Pipes -> Items] /\ queue' \in [Pipes -> Items] /\ batch' \in [Pipes -> Items]
          /\ db' \in [Pipes -> Items] /\ wpc' \in [Pipes -> WorkerStates]
      BY <1>3, <2>1 DEF Cancelled
    <2> QED
      BY <1>2, <2>2, ApartFacts DEF IInv, Typed, Phases
  <1>5. LifespanOK' /\ LossOK'
    <2>1. "audit" \in Pipes
      BY DEF Pipes
    <2>2. LifespanOK'
      BY <1>2, <1>3, <2>1 DEF LifespanOK, Before, Open, Cancelled
    <2>3. LossOK'
      BY <1>3, <2>1 DEF LossOK, Missing, Cancelled
    <2> QED
      BY <2>2, <2>3
  <1> QED
    BY <1>3, <1>4, <1>5 DEF IInv, Cancelled

\* The metric pipe is ready: no sentinel was put before this one.
LEMMA MetricReady ==
    ASSUME IInv, phase \in Open
    PROVE  Ready("metric", db["metric"], Append(queue["metric"], None))
  <1> DEFINE p == "metric"
             c == Append(queue[p], None)
  <1>1. /\ p \in Pipes /\ PipeOK(p) /\ ~Late(p) /\ Rest(p) = <<>> /\ phase # "failed"
        /\ queue[p] \in Items /\ got[p] \in Items /\ db[p] \in Items /\ batch[p] \in Items
        /\ accepted[p] \in Nat /\ wpc[p] # "cancelled" /\ None \in Nat
    BY DEF IInv, Typed, Pipes, Late, Rest, Open, Before, LifespanOK, None
  <1>2. /\ \A k \in 1..Len(queue[p]) : queue[p][k] # None
        /\ \A k \in 1..Len(got[p]) : got[p][k] # None
        /\ wpc[p] \notin {"finalFlush", "done"}
    BY <1>1 DEF PipeOK, Sentinel
  <1>3. ~In(None, queue[p]) /\ ~In(None, got[p])
    BY <1>2 DEF In
  <1>4. ~In(None, db[p]) /\ ~In(None, batch[p]) /\ ~In(None, <<>>)
    <2>1. Within(db[p], 1, accepted[p]) /\ Within(batch[p], 1, accepted[p])
      BY <1>1 DEF PipeOK, Bounds
    <2> QED
      BY <2>1, ApartFacts DEF In, Within, None
  <1>5. /\ c \in Items /\ Distinct(db[p], batch[p], got[p], c, <<>>)
        /\ Covers(accepted[p], db[p], batch[p], got[p], queue[p], <<>>)
              => Covers(accepted[p], db[p], batch[p], got[p], c, <<>>)
    BY <1>1, <1>3, <1>4, PutMoves, ApartFacts DEF PipeOK, Once
  <1>6. wpc[p] # "dead" => Covers(accepted[p], db[p], batch[p], got[p], queue[p], <<>>)
    BY <1>1 DEF PipeOK, Whole
  <1>7. c = queue[p] \o <<None>> /\ Len(c) = Len(queue[p]) + 1 /\ <<None>> \in Items
        /\ Len(<<None>>) = 1 /\ <<None>>[1] = None
    BY <1>1, AppendParts, Single
  <1>8. Within(c, 0, accepted[p])
    <2>1. Within(<<None>>, 0, accepted[p])
      BY <1>1, <1>7 DEF Within, None
    <2>2. Within(queue[p], 0, accepted[p])
      BY <1>1 DEF PipeOK, Bounds
    <2> QED
      BY <1>1, <1>7, <2>1, <2>2, ConcatApart
  <1>9. \A k \in 1..Len(c) : c[k] = None => k = Len(c)
    <2>1. \A k \in 1..Len(c) : (k \in 1..Len(queue[p]) /\ c[k] = queue[p][k]) \/ k = Len(c)
      BY <1>1 DEF Items
    <2> QED
      BY <1>2, <2>1
  <1> HIDE DEF c
  <1>10. Ready(p, db[p], c)
    BY <1>1, <1>2, <1>5, <1>6, <1>8, <1>9 DEF Ready, PipeOK, Bounds
  <1> QED
    BY <1>10 DEF c

\* The audit pipe is ready: its queue is empty, and what the drain held is written.
LEMMA AuditReady ==
    ASSUME IInv, phase \in Open, queue["audit"] = <<>>
    PROVE  Ready("audit", db["audit"] \o remaining, <<>>)
  <1> DEFINE p == "audit"
             c == db[p] \o remaining
  <1>1. /\ p \in Pipes /\ PipeOK(p) /\ ~Late(p) /\ Rest(p) = remaining /\ phase # "failed"
        /\ got[p] \in Items /\ db[p] \in Items /\ batch[p] \in Items /\ remaining \in Items
        /\ accepted[p] \in Nat /\ wpc[p] # "cancelled" /\ queue[p] \in Items
    BY DEF IInv, Typed, Pipes, Late, Rest, Open, Before, LifespanOK
  <1>2. /\ \A k \in 1..Len(got[p]) : got[p][k] # None
        /\ wpc[p] \notin {"finalFlush", "done"}
    BY <1>1 DEF PipeOK, Sentinel
  <1>3. c \in Items /\ Within(c, 1, accepted[p])
    BY <1>1, ConcatParts, ConcatApart DEF PipeOK, Bounds
  <1>4. /\ Distinct(c, batch[p], got[p], <<>>, <<>>)
        /\ wpc[p] # "dead" => Covers(accepted[p], c, batch[p], got[p], <<>>, <<>>)
    BY <1>1, FlushMoves DEF PipeOK, Once, Whole
  <1> HIDE DEF c
  <1>5. Ready(p, c, <<>>)
    BY <1>1, <1>2, <1>3, <1>4, ApartFacts DEF Ready
  <1> QED
    BY <1>5 DEF c

\* The lifespan's steps up to the cancellation.
LEMMA DrainStep ==
    ASSUME IInv, UNCHANGED detached, Drain \/ DrainFlushOk
    PROVE  IInv'
  <1>1. /\ Typed /\ db \in [Pipes -> Items] /\ remaining \in Items /\ queue \in [Pipes -> Items]
        /\ "audit" \in Pipes /\ "metric" \in Pipes
    BY DEF IInv, Typed, Pipes
  <1> DEFINE rows == [db EXCEPT !["audit"] = @ \o remaining]
  <1>2. /\ rows \in [Pipes -> Items] /\ rows["audit"] = db["audit"] \o remaining
        /\ rows["metric"] = db["metric"]
    BY <1>1, ConcatParts
  <1>3. CASE Drain /\ queue["audit"] = <<>>
    <2>1. phase = "stopping" /\ remaining = <<>>
      BY <1>3 DEF Drain, IInv, LifespanOK
    <2>2. rows = db
      <3>1. \A s \in Items : s \o <<>> = s
        BY DEF Items
      <3>2. db["audit"] \o remaining = db["audit"]
        BY <1>1, <2>1, <3>1
      <3> QED
        BY <1>1, <3>2
    <2>3. /\ CancelWorkers(<<>>) /\ db' \in CommittedAfterCancel(rows) /\ remaining' = <<>>
          /\ UNCHANGED accepted /\ phase \in Open
      BY <1>3, <2>1, <2>2 DEF Drain, Open, Before
    <2> HIDE DEF rows
    <2> QED
      BY <1>2, <1>3, <2>3, MetricReady, AuditReady, CancelBoth
  <1>4. CASE Drain /\ queue["audit"] # <<>>
    <2>1. /\ phase = "stopping" /\ remaining = <<>> /\ remaining' = queue["audit"]
          /\ queue' = [queue EXCEPT !["audit"] = <<>>] /\ phase' = "draining"
          /\ UNCHANGED <<got, batch, wpc, db, accepted>>
      BY <1>4 DEF Drain, IInv, LifespanOK
    <2>2. Typed'
      BY <1>1, <2>1, ApartFacts DEF Typed, Phases
    <2>3. PipeOK("audit")'
      <3> DEFINE p == "audit"
      <3>1. /\ PipeOK(p) /\ Rest(p) = <<>> /\ Rest(p)' = queue[p] /\ queue'[p] = <<>>
            /\ ~Late(p)' /\ ~Late(p)
        BY <1>1, <2>1 DEF IInv, Rest, Late
      <3>2. \A k \in 1..Len(queue[p]) : queue[p][k] # None
        BY <3>1 DEF PipeOK, Sentinel
      <3>3. Within(queue[p], 1, accepted[p])
        <4>1. \A k \in 1..Len(queue[p]) : queue[p][k] \in Nat
          BY <1>1 DEF Items
        <4> QED
          BY <3>1, <3>2, <4>1 DEF PipeOK, Bounds, Within, None
      <3>4. Shape(p)' /\ Sentinel(p)'
        BY <2>1, <3>1 DEF PipeOK, Shape, Stopped, Sentinel
      <3>5. Bounds(p)'
        BY <2>1, <3>1, <3>3, ApartFacts DEF PipeOK, Bounds
      <3>6. Once(p)' /\ Whole(p)'
        BY <2>1, <3>1, DrainMoves DEF PipeOK, Once, Whole
      <3>7. Ordered(p)'
        BY <2>1 DEF Ordered, Before
      <3> QED
        BY <3>4, <3>5, <3>6, <3>7 DEF PipeOK
    <2>4. PipeOK("metric")'
      <3> DEFINE p == "metric"
      <3>1. /\ PipeOK(p) /\ Rest(p) = <<>> /\ Rest(p)' = <<>> /\ queue'[p] = queue[p]
            /\ ~Late(p)' /\ ~Late(p)
        BY <1>1, <2>1 DEF IInv, Rest, Late, Open, Before
      <3>2. Shape(p)' /\ Sentinel(p)' /\ Bounds(p)' /\ Once(p)' /\ Whole(p)'
        BY <2>1, <3>1 DEF PipeOK, Shape, Stopped, Sentinel, Bounds, Once, Whole
      <3>3. Ordered(p)'
        BY <2>1 DEF Ordered, Before
      <3> QED
        BY <3>2, <3>3 DEF PipeOK
    <2>5. LifespanOK' /\ LossOK'
      <3>1. \A p \in Pipes : wpc[p] # "cancelled"
        BY <2>1 DEF IInv, LifespanOK, Open, Before
      <3>2. queue'["audit"] = <<>>
        BY <1>1, <2>1
      <3> QED
        BY <1>1, <2>1, <3>1, <3>2 DEF LifespanOK, LossOK
    <2> QED
      BY <2>2, <2>3, <2>4, <2>5 DEF IInv, Pipes
  <1>5. CASE DrainFlushOk
    <2>1. phase \in Open /\ queue["audit"] = <<>>
      BY <1>5 DEF DrainFlushOk, Open, Before, IInv, LifespanOK
    <2>2. /\ CancelWorkers(<<>>) /\ db' \in CommittedAfterCancel(rows) /\ remaining' = <<>>
          /\ UNCHANGED accepted
      BY <1>5, <2>1 DEF DrainFlushOk
    <2> HIDE DEF rows
    <2> QED
      BY <1>2, <2>1, <2>2, MetricReady, AuditReady, CancelBoth
  <1> QED
    BY <1>3, <1>4, <1>5

\* The steps that only move the lifespan on, and the drain that fails.
LEMMA PhaseStep ==
    ASSUME IInv, UNCHANGED detached,
           BeginShutdown \/ AwaitAudit \/ AwaitMetric \/ DrainFlushFail
    PROVE  IInv'
  <1>1. /\ Typed /\ db \in [Pipes -> Items] /\ remaining \in Items /\ queue \in [Pipes -> Items]
        /\ "audit" \in Pipes /\ "metric" \in Pipes
    BY DEF IInv, Typed, Pipes
  <1>2. UNCHANGED <<accepted, queue, got, batch, wpc>>
    BY DEF BeginShutdown, AwaitAudit, AwaitMetric, DrainFlushFail
  <1>3. CASE BeginShutdown
    <2>1. UNCHANGED <<remaining, db>> /\ phase = "serving" /\ phase' = "stopping"
      BY <1>3 DEF BeginShutdown
    <2>2. ASSUME NEW p \in Pipes PROVE PipeOK(p)'
      BY <1>2, <2>1 DEF IInv, PipeOK, Shape, Stopped, Sentinel, Late, Open, Before, Bounds, Once,
                        Whole, Ordered, Rest
    <2>3. Typed' /\ LifespanOK' /\ LossOK'
      BY <1>2, <2>1 DEF IInv, Typed, Phases, LifespanOK, Before, Open, LossOK, Missing, Entries
    <2> QED
      BY <2>2, <2>3 DEF IInv
  <1>4. CASE AwaitAudit \/ AwaitMetric
    <2>1. /\ UNCHANGED <<remaining, db>> /\ phase \in {"awaitAudit", "awaitMetric"}
          /\ phase' \in {"awaitMetric", "exited", "failed"}
      BY <1>4 DEF AwaitAudit, AwaitMetric
    <2>2. ASSUME NEW p \in Pipes PROVE PipeOK(p)'
      BY <1>2, <2>1 DEF IInv, PipeOK, Shape, Stopped, Sentinel, Late, Open, Before, Bounds, Once,
                        Whole, Ordered, Rest
    <2>3. phase' # "failed" => wpc["audit"] = "cancelled"
      <3>1. wpc["audit"] # "done"
        BY <1>1 DEF IInv, PipeOK, Sentinel, Late
      <3> QED
        BY <1>4, <3>1 DEF AwaitAudit, AwaitMetric, Stopped, IInv, LifespanOK
    <2>4. Typed' /\ LifespanOK' /\ LossOK'
      BY <1>2, <2>1, <2>3 DEF IInv, Typed, Phases, LifespanOK, Before, Open, LossOK, Missing, Entries
    <2> QED
      BY <2>2, <2>4 DEF IInv
  <1>5. CASE DrainFlushFail
    <2>1. phase = "draining" /\ phase' = "failed" /\ remaining' = <<>>
      BY <1>5 DEF DrainFlushFail
    <2> DEFINE d == db["audit"] \o remaining
    <2>2. d \in Items
      BY <1>1, ConcatParts
    <2>3. PICK e \in {d, db["audit"]} : db' = [db EXCEPT !["audit"] = e]
      <3>1. db = [db EXCEPT !["audit"] = db["audit"]]
        BY <1>1
      <3> QED
        BY <1>5, <3>1 DEF DrainFlushFail
    <2>4. Typed'
      BY <1>1, <1>2, <2>1, <2>2, <2>3, ApartFacts DEF Typed, Phases
    <2>5. PipeOK("audit")'
      <3> DEFINE p == "audit"
      <3>1. /\ PipeOK(p) /\ Rest(p) = remaining /\ Rest(p)' = <<>> /\ queue[p] \in Items
            /\ ~Late(p) /\ ~Late(p)' /\ got[p] \in Items /\ batch[p] \in Items
            /\ accepted[p] \in Nat /\ db'[p] = e /\ db[p] \in Items
        BY <1>1, <2>1, <2>3 DEF IInv, Typed, Rest, Late
      <3>2. Within(d, 1, accepted[p])
        BY <1>1, <3>1, ConcatApart DEF PipeOK, Bounds
      <3>3. Distinct(d, batch[p], got[p], queue[p], <<>>) /\ Distinct(db[p], batch[p], got[p], queue[p], <<>>)
        BY <1>1, <3>1, FlushMoves DEF PipeOK, Once
      <3> HIDE DEF d
      <3>4. Shape(p)' /\ Sentinel(p)'
        BY <1>2, <3>1 DEF PipeOK, Shape, Stopped, Sentinel
      <3>5. Bounds(p)'
        BY <1>2, <2>3, <3>1, <3>2, ApartFacts DEF PipeOK, Bounds
      <3>6. Once(p)' /\ Whole(p)' /\ Ordered(p)'
        BY <1>2, <2>1, <2>3, <3>1, <3>3 DEF Once, Whole, Ordered, Before
      <3> QED
        BY <3>4, <3>5, <3>6 DEF PipeOK
    <2>6. PipeOK("metric")'
      <3> DEFINE p == "metric"
      <3>1. PipeOK(p) /\ Rest(p) = <<>> /\ Rest(p)' = <<>> /\ db'[p] = db[p] /\ Late(p)' /\ ~Late(p)
        BY <1>1, <2>1, <2>3 DEF IInv, Rest, Late, Open, Before
      <3> QED
        BY <1>2, <2>1, <3>1 DEF PipeOK, Shape, Stopped, Sentinel, Bounds, Once, Whole, Ordered, Before
    <2>7. LifespanOK' /\ LossOK'
      <3>1. wpc["audit"] # "cancelled"
        BY <1>1, <2>1 DEF IInv, LifespanOK, Open
      <3> QED
        BY <1>2, <2>1, <3>1 DEF IInv, LifespanOK, LossOK, Before, Open
    <2> QED
      BY <2>4, <2>5, <2>6, <2>7 DEF IInv, Pipes
  <1> QED
    BY <1>3, <1>4, <1>5

\* A step in which nothing happens.
LEMMA StutterKeeps == IInv /\ UNCHANGED allVars => IInv'
  <1> SUFFICES ASSUME IInv, UNCHANGED allVars PROVE IInv'
    OBVIOUS
  <1>1. /\ UNCHANGED <<detached, accepted, queue, got, batch, wpc, remaining, db, phase>>
    BY DEF allVars, vars
  <1>2. Typed' /\ LifespanOK' /\ LossOK'
    BY <1>1 DEF IInv, Typed, LifespanOK, LossOK, Missing, Entries
  <1>3. ASSUME NEW p \in Pipes PROVE PipeOK(p)'
    BY <1>1, SamePipe DEF IInv, Rest
  <1> QED
    BY <1>2, <1>3 DEF IInv

\* Every step keeps the invariant.
LEMMA NextIInv == IInv /\ [Next]_allVars => IInv'
  <1> SUFFICES ASSUME IInv, [Next]_allVars PROVE IInv'
    OBVIOUS
  <1>0. "audit" \in Pipes /\ "metric" \in Pipes
    BY DEF Pipes
  <1>1. CASE (AuditRequest \/ RecordMetric) /\ UNCHANGED detached
    BY <1>0, <1>1, PutStep DEF AuditRequest, RecordMetric
  <1>2. CASE (AuditFlushWorker \/ MetricFlushWorker) /\ UNCHANGED detached
    <2>1. PICK p \in Pipes : WorkerStep(p)
      BY <1>0, <1>2 DEF AuditFlushWorker, MetricFlushWorker
    <2>2. CASE InnerGet(p) \/ Resume(p) \/ DirectGet(p)
      BY <1>2, <2>2, TakeStep
    <2>3. CASE TimerFires(p) \/ HandleTimeout(p) \/ FlushTimesOut(p)
      BY <1>2, <2>3, TimerStep
    <2>4. CASE FlushOk(p) \/ FlushFail(p)
      BY <1>2, <2>4, FlushStep
    <2> QED
      BY <2>1, <2>2, <2>3, <2>4 DEF WorkerStep
  <1>3. CASE Lifespan /\ UNCHANGED detached
    <2>1. CASE Drain \/ DrainFlushOk
      BY <1>3, <2>1, DrainStep
    <2>2. CASE BeginShutdown \/ AwaitAudit \/ AwaitMetric \/ DrainFlushFail
      BY <1>3, <2>2, PhaseStep
    <2> QED
      BY <1>3, <2>1, <2>2 DEF Lifespan
  <1>4. CASE UNCHANGED allVars
    BY <1>4, StutterKeeps
  <1> QED
    BY <1>1, <1>2, <1>3, <1>4 DEF Next

\* The invariant holds throughout.
LEMMA Invariance == Spec => []IInv
  <1>1. Init => IInv
    BY InitIInv
  <1>2. IInv /\ [Next]_allVars => IInv'
    BY NextIInv
  <1> QED
    BY <1>1, <1>2, PTL DEF Spec

-----------------------------------------------------------------------------
(* What is promised of the rows. *)

\* LogIsFaithful, for any batch sizes and any number of entries, failing transactions
\* included: while the server runs and a worker lives, the table followed by what its
\* task holds in memory is every accepted entry once and in order; no entry is ever
\* written twice, although worker and drain write side by side; a worker that ended by
\* itself has written everything.
THEOREM LogFaithful == Spec => []LogIsFaithful
  <1>1. IInv => LogIsFaithful
    <2> SUFFICES ASSUME IInv PROVE LogIsFaithful
      OBVIOUS
    <2>1. \A p \in Pipes :
            /\ PipeOK(p) /\ accepted[p] \in Nat /\ db[p] \in Items /\ batch[p] \in Items
            /\ got[p] \in Items /\ queue[p] \in Items
      BY DEF IInv, Typed
    <2>2. FifoWhileServing
      BY <2>1, ChainWhole DEF FifoWhileServing, InMemory, PipeOK, Ordered, Before
    <2>3. AtMostOnce
      BY <2>1 DEF AtMostOnce, PipeOK, Once, Distinct, Inj
    <2>4. DoneMeansPersisted
      <3> SUFFICES ASSUME NEW p \in Pipes, wpc[p] = "done"
                   PROVE  Entries(db[p]) = 1..accepted[p]
        BY DEF DoneMeansPersisted
      <3>1. /\ batch[p] = <<>> /\ got[p] = <<>> /\ queue[p] = <<>> /\ Rest(p) = <<>> /\ p = "metric"
        BY <2>1 DEF PipeOK, Shape, Stopped, Sentinel, Late, Rest
      <3>2. \A e \in 1..accepted[p] : In(e, db[p])
        BY <2>1, <3>1, ApartFacts DEF PipeOK, Whole, Covers
      <3>3. \A k \in 1..Len(db[p]) : db[p][k] \in 1..accepted[p]
        <4>1. \A k \in 1..Len(db[p]) : db[p][k] \in Nat
          BY <2>1 DEF Items
        <4> QED
          BY <2>1, <4>1 DEF PipeOK, Bounds, Within
      <3> QED
        BY <3>2, <3>3 DEF In, Entries
    <2> QED
      BY <2>2, <2>3, <2>4 DEF LogIsFaithful
  <1> QED
    BY <1>1, Invariance, PTL

\* AuditLossBounded, for any batch size: a shutdown that got past the audit worker has
\* lost at most the one batch that worker had in its local list when it was cancelled.
THEOREM LossBounded == Spec => []AuditLossBounded
  <1>1. IInv => AuditLossBounded
    BY DEF IInv, LifespanOK, LossOK, Missing, AuditLossBounded
  <1> QED
    BY <1>1, Invariance, PTL

\* No queue accepts more than it is offered.
Capped == \A p \in Pipes : accepted[p] <= MaxEntries[p]

\* TypeOK: the shape of every variable; a batch never outgrows the size at which the
\* worker flushes it, and no sentinel gets into a batch or into the table.
THEOREM TypesHold == Spec => []TypeOK
  <1>1. Init => Capped
    BY MaxEntriesAssumption DEF Init, Capped
  <1>2. IInv /\ Capped /\ [Next]_allVars => Capped'
    <2> SUFFICES ASSUME IInv, Capped, [Next]_allVars PROVE Capped'
      OBVIOUS
    <2>1. accepted \in [Pipes -> Nat]
      BY DEF IInv, Typed
    <2>2. \/ UNCHANGED accepted
          \/ \E p \in Pipes : Put(p)
      BY DEF Next, AuditRequest, RecordMetric, AuditFlushWorker, MetricFlushWorker, WorkerStep,
             InnerGet, Resume, DirectGet, TimerFires, HandleTimeout, FlushOk, FlushTimesOut,
             FlushFail, Lifespan, BeginShutdown, Drain, DrainFlushOk, DrainFlushFail, AwaitAudit,
             AwaitMetric, allVars, vars, Pipes
    <2>3. CASE UNCHANGED accepted
      BY <2>3 DEF Capped
    <2>4. ASSUME NEW p \in Pipes, Put(p) PROVE Capped'
      <3> SUFFICES ASSUME NEW q \in Pipes PROVE accepted'[q] <= MaxEntries[q]
        BY DEF Capped
      <3>1. /\ accepted' = [accepted EXCEPT ![p] = accepted[p] + 1] /\ accepted[p] < MaxEntries[p]
            /\ accepted[p] \in Nat /\ MaxEntries[p] \in Nat /\ accepted[q] <= MaxEntries[q]
        BY <2>1, <2>4, MaxEntriesAssumption DEF Put, Capped
      <3>2. CASE q = p
        BY <2>1, <3>1, <3>2
      <3>3. CASE q # p
        BY <2>1, <3>1, <3>3
      <3> QED
        BY <3>2, <3>3
    <2> QED
      BY <2>2, <2>3, <2>4
  <1>3. IInv /\ Capped => TypeOK
    <2> SUFFICES ASSUME IInv, Capped PROVE TypeOK
      OBVIOUS
    <2>1. ASSUME NEW s \in Items, NEW a \in Nat, NEW n \in Nat, Within(s, a, n)
          PROVE  Entries(s) \subseteq a..n
      <3>1. \A k \in 1..Len(s) : s[k] \in Nat
        BY DEF Items
      <3> QED
        BY <2>1, <3>1 DEF Within, Entries
    <2>2. ASSUME NEW p \in Pipes
          PROVE  /\ accepted[p] \in 0..MaxEntries[p]
                 /\ \A s \in {queue[p], got[p]} : Entries(s) \subseteq 0..accepted[p]
                 /\ \A s \in {batch[p], db[p]} : Entries(s) \subseteq 1..accepted[p]
                 /\ Entries(Rest(p)) \subseteq 1..accepted[p]
                 /\ Len(got[p]) <= 1 /\ Len(batch[p]) <= BatchSize[p] /\ wpc[p] \in WorkerStates
      <3>1. /\ accepted[p] \in Nat /\ queue[p] \in Items /\ got[p] \in Items /\ batch[p] \in Items
            /\ db[p] \in Items /\ Rest(p) \in Items /\ wpc[p] \in WorkerStates /\ PipeOK(p)
        BY ApartFacts DEF IInv, Typed, Rest
      <3>2. accepted[p] \in 0..MaxEntries[p]
        BY <3>1, MaxEntriesAssumption DEF Capped
      <3>3. /\ Entries(queue[p]) \subseteq 0..accepted[p] /\ Entries(got[p]) \subseteq 0..accepted[p]
            /\ Entries(batch[p]) \subseteq 1..accepted[p] /\ Entries(db[p]) \subseteq 1..accepted[p]
            /\ Entries(Rest(p)) \subseteq 1..accepted[p]
        BY <2>1, <3>1 DEF PipeOK, Bounds
      <3> QED
        BY <3>1, <3>2, <3>3 DEF PipeOK, Shape
    <2>3. Rest("audit") = remaining /\ "audit" \in Pipes
      BY DEF Rest, Pipes
    <2>4. Entries(remaining) \subseteq 1..accepted["audit"]
      BY <2>2, <2>3
    <2> QED
      BY <2>2, <2>4 DEF TypeOK, IInv, Typed
  <1> QED
    BY <1>1, <1>2, <1>3, Invariance, PTL DEF Spec
=============================================================================
