---------------------------- MODULE ModelPullProofs ----------------------------
(***************************************************************************)
(* Theorems about ModelPull and the reader of headers, for any shards,     *)
(* revisions, entries and architectures, and every bound on faults and     *)
(* edits.  The reader never counts a model's layers wrong.  The types are  *)
(* kept by any number of pulls (PullTypes): an inode has one name, and a   *)
(* new file gets an inode that nothing refers to.  PullInv adds what is    *)
(* true of one pull at a time: its .part holds what went through its hash  *)
(* (Fetching), so that what is renamed is what was verified.               *)
(***************************************************************************)
EXTENDS ModelPull, FiniteSetTheorems, SequenceTheorems, TLAPS

----------------------------------------------------------------------------
(* The reader of headers                                                   *)

\* Division, by what it is.
LEMMA Division ==
  ASSUME NEW n \in Nat, NEW k \in Nat \ {0}
  PROVE  /\ n \div k \in Nat /\ n = k * (n \div k) + (n % k) /\ n % k \in 0 .. k - 1
OBVIOUS

\* A product is divided by either factor.
LEMMA Quotient ==
  ASSUME NEW k \in Nat \ {0}, NEW j \in Nat
  PROVE  (k * j) \div k = j /\ (k * j) % k = 0
<1>. DEFINE q == (k * j) \div k
            r == (k * j) % k
<1>0. k * j \in Nat
  OBVIOUS
<1>1. k * j \in Nat /\ q \in Nat /\ r \in 0 .. k - 1 /\ k * j = k * q + r
  <2>. HIDE DEF q, r
  <2>1. \A n \in Nat : n \div k \in Nat /\ n = k * (n \div k) + (n % k) /\ n % k \in 0 .. k - 1
    BY Division
  <2>. DEFINE n == k * j
  <2>2. n \in Nat
    BY <1>0
  <2>. HIDE DEF n
  <2>3. n \div k \in Nat /\ n = k * (n \div k) + (n % k) /\ n % k \in 0 .. k - 1
    BY <2>1, <2>2
  <2>. QED  BY <1>0, <2>3 DEF n, q, r
<1>. HIDE DEF q, r
<1>2. k * (j - q) = r
  BY <1>1
<1>3. CASE j - q >= 1
  <2>1. k * (j - q) >= k
    BY <1>1, <1>3
  <2>. QED  BY <1>1, <1>2, <2>1
<1>4. CASE j - q <= -1
  <2>1. k * (j - q) <= -k
    BY <1>1, <1>4
  <2>. QED  BY <1>1, <1>2, <2>1
<1>5. q = j /\ r = 0
  BY <1>1, <1>2, <1>3, <1>4
<1>. QED  BY <1>5 DEF q, r

\* Division is monotone, and antitone in its divisor.
LEMMA Divide ==
  ASSUME NEW n \in Nat, NEW k \in Nat \ {0}, NEW j \in Nat
  PROVE  k * j <= n <=> j <= n \div k
<1>. DEFINE q == n \div k
            r == n % k
<1>1. q \in Nat /\ r \in 0 .. k - 1 /\ n = k * q + r
  BY Division
<1>. HIDE DEF q, r
<1>2. CASE j <= q
  <2>1. k * j <= k * q
    BY <1>1, <1>2
  <2>. QED  BY <1>1, <1>2, <2>1 DEF q
<1>3. CASE j >= q + 1
  <2>1. k * j >= k * (q + 1)
    BY <1>1, <1>3
  <2>2. k * (q + 1) = k * q + k
    BY <1>1
  <2>. QED  BY <1>1, <1>3, <2>1, <2>2 DEF q
<1>. QED  BY <1>1, <1>2, <1>3

\* A number divided by its quotient and that by it again is the quotient.
LEMMA QuotientOfQuotient ==
  ASSUME NEW n \in Nat, NEW k \in 1 .. n
  PROVE  n \div k # 0 /\ n \div (n \div k) # 0 /\ n \div (n \div (n \div k)) = n \div k
<1>. DEFINE g == n \div k
            q == n \div g
<1>0. g \in Nat /\ k * 1 <= n
  BY Division
<1>1. g # 0
  <2>1. 1 <= n \div k
    BY <1>0, Divide
  <2>. QED  BY <2>1, <1>0
<1>2. q \in Nat
  BY <1>0, <1>1, Division
<1>3. k * g <= n
  <2>1. n \div k <= n \div k
    BY <1>0
  <2>. QED  BY <1>0, <2>1, Divide
<1>4. k <= q
  <2>1. g * k <= n
    BY <1>0, <1>3
  <2>. HIDE DEF g
  <2>. QED  BY <1>0, <1>1, <2>1, Divide
<1>5. q # 0
  BY <1>2, <1>4
<1>6. g * q <= n
  <2>1. n \div g <= n \div g
    BY <1>2
  <2>. HIDE DEF g
  <2>. QED  BY <1>0, <1>1, <1>2, <2>1, Divide DEF q
<1>7. g <= n \div q
  <2>1. q * g <= n
    BY <1>0, <1>2, <1>6
  <2>. HIDE DEF g, q
  <2>. QED  BY <1>0, <1>2, <1>5, <2>1, Divide
<1>8. n \div q <= g
  <2>. DEFINE m == n \div q
  <2>1. m \in Nat
    BY <1>2, <1>5, Division
  <2>2. q * m <= n
    <3>1. n \div q <= n \div q
      BY <2>1
    <3>. HIDE DEF q, g
    <3>. QED  BY <1>2, <1>5, <2>1, <3>1, Divide DEF m
  <2>. HIDE DEF m, q
  <2>3. k * m <= q * m
    BY <1>2, <1>4, <2>1
  <2>4. k * m <= n
    BY <1>2, <2>1, <2>2, <2>3
  <2>5. m <= n \div k
    BY <2>1, <2>4, Divide
  <2>. QED  BY <2>5 DEF m
<1>. QED
  <2>1. n \div q \in Nat
    BY <1>2, <1>5, Division
  <2>. QED  BY <1>0, <1>1, <1>5, <1>7, <1>8, <2>1

\* There are n \div k multiples of k up to n.
LEMMA Multiples ==
  ASSUME NEW n \in Nat, NEW k \in 1 .. n
  PROVE  LET S == {i \in 1 .. n : i % k = 0} IN IsFiniteSet(S) /\ Cardinality(S) = n \div k
<1>. DEFINE S == {i \in 1 .. n : i % k = 0}
            g == n \div k
            f == [j \in 1 .. g |-> k * j]
<1>0. g \in Nat
  BY Division
<1>. HIDE DEF g
<1>1. \A j \in 1 .. g : k * j \in S
  <2>. SUFFICES ASSUME NEW j \in 1 .. g PROVE k * j \in S
    OBVIOUS
  <2>1. j \in Nat /\ j >= 1 /\ j <= n \div k
    BY <1>0 DEF g
  <2>2. k * j <= n /\ (k * j) % k = 0
    BY <2>1, Divide, Quotient
  <2>3. k * j \in Nat /\ k * j >= 1
    BY <2>1
  <2>. QED  BY <2>2, <2>3
<1>2. \A i \in S : \E j \in 1 .. g : k * j = i
  <2>. SUFFICES ASSUME NEW i \in S PROVE \E j \in 1 .. g : k * j = i
    OBVIOUS
  <2>1. i \in Nat /\ i >= 1 /\ i <= n /\ i % k = 0
    OBVIOUS
  <2>. DEFINE q == i \div k
  <2>2. q \in Nat /\ i = k * q + 0
    BY <2>1, Division
  <2>. HIDE DEF q
  <2>3. q <= g
    <3>1. k * q <= n
      BY <2>1, <2>2
    <3>. QED  BY <2>2, <3>1, Divide DEF g
  <2>4. q # 0
    BY <2>1, <2>2
  <2>. QED  BY <1>0, <2>2, <2>3, <2>4
<1>3. \A j, l \in 1 .. g : k * j = k * l => j = l
  <2>. SUFFICES ASSUME NEW j \in 1 .. g, NEW l \in 1 .. g, k * j = k * l PROVE j = l
    OBVIOUS
  <2>1. (k * j) \div k = j /\ (k * l) \div k = l
    BY <1>0, Quotient
  <2>. QED  BY <2>1
<1>4. f \in Bijection(1 .. g, S)
  BY <1>1, <1>2, <1>3 DEF Bijection, Injection, Surjection, IsInjective
<1>5. IsFiniteSet(1 .. g) /\ Cardinality(1 .. g) = g
  BY <1>0, FS_Interval
<1>6. IsFiniteSet(S) /\ Cardinality(S) = g
  BY <1>4, <1>5, FS_Bijection DEF ExistsBijection
<1>. QED  BY <1>6 DEF g

\* What the reader takes of a model's header, key by key.
LEMMA Layers ==
  ASSUME NEW a, Regular(a)
  PROVE  /\ Len(a.kind) \in Nat /\ DOMAIN a.kind = 1 .. Len(a.kind) /\ DOMAIN a.heads = 1 .. Len(a.kind)
         /\ \A k : LayersOf(a, k) \subseteq 1 .. Len(a.kind) /\ IsFiniteSet(LayersOf(a, k))
         /\ 1 .. Len(a.kind) = LayersOf(a, "grows") \cup LayersOf(a, "window") \cup LayersOf(a, "state")
         /\ LayersOf(a, "grows") \cap LayersOf(a, "window") = {}
         /\ Len(a.kind) >= 1 /\ IsFiniteSet(1 .. Len(a.kind)) /\ Cardinality(1 .. Len(a.kind)) = Len(a.kind)
<1>1. Len(a.kind) \in Nat /\ DOMAIN a.kind = 1 .. Len(a.kind) /\ DOMAIN a.heads = 1 .. Len(a.kind)
  BY DEF Regular
<1>2. \A i \in DOMAIN a.kind : a.kind[i] \in {"grows", "window", "state"}
  BY <1>1 DEF Regular
<1>3. \A k : LayersOf(a, k) \subseteq 1 .. Len(a.kind)
  BY <1>1 DEF LayersOf
<1>4. IsFiniteSet(1 .. Len(a.kind)) /\ (Len(a.kind) >= 1 => Cardinality(1 .. Len(a.kind)) = Len(a.kind))
  BY <1>1, FS_Interval
<1>5. Len(a.kind) >= 1
  <2>1. PICK i : i \in LayersOf(a, "grows")
    BY DEF Regular
  <2>. QED  BY <1>1, <1>3, <2>1
<1>6. \A k : IsFiniteSet(LayersOf(a, k))
  <2>. TAKE k
  <2>1. LayersOf(a, k) \in SUBSET (1 .. Len(a.kind))
    BY <1>3
  <2>. QED  BY <1>4, <2>1, FS_Subset
<1>7. 1 .. Len(a.kind) = LayersOf(a, "grows") \cup LayersOf(a, "window") \cup LayersOf(a, "state")
  BY <1>1, <1>2 DEF LayersOf
<1>8. LayersOf(a, "grows") \cap LayersOf(a, "window") = {}
  BY DEF LayersOf
<1>. QED  BY <1>1, <1>3, <1>4, <1>5, <1>6, <1>7, <1>8

\* The sliding layers are the model's windows.
LEMMA SlidingLayers ==
  ASSUME NEW a, Regular(a)
  PROVE  /\ Sliding(HeaderOf(a)) = LayersOf(a, "window")
         /\ HeaderOf(a).pattern = NoKey <=> LayersOf(a, "window") = {}
         /\ Blocks(HeaderOf(a)) = 1 .. Len(a.kind)
<1>. DEFINE p == [i \in DOMAIN a.kind |-> a.kind[i] = "window"]
<1>1. p \in Seq(BOOLEAN)
  <2>1. Len(a.kind) \in Nat /\ p = [i \in 1 .. Len(a.kind) |-> a.kind[i] = "window"]
    BY Layers
  <2>2. p \in [1 .. Len(a.kind) -> BOOLEAN]
    BY <2>1
  <2>. HIDE DEF p
  <2>. QED  BY <2>1, <2>2, SeqDef
<1>2. p # NoKey
  BY <1>1, HeaderAssumption
<1>3. HeaderOf(a).pattern = IF LayersOf(a, "window") = {} THEN NoKey ELSE p
  BY DEF HeaderOf
<1>4. {i \in DOMAIN p : p[i]} = LayersOf(a, "window")
  BY DEF LayersOf
<1>. HIDE DEF p
<1>5. HeaderOf(a).blocks = Len(a.kind)
  BY DEF HeaderOf
<1>. QED  BY <1>2, <1>3, <1>4, <1>5 DEF Sliding, Blocks

\* The caches that grow are counted, whether the others are windows or states.
LEMMA GrowingLayers ==
  ASSUME NEW a, Regular(a)
  PROVE  KVLayerSet(HeaderOf(a)) = Cardinality(LayersOf(a, "grows"))
<1>. DEFINE h == HeaderOf(a)
            n == Len(a.kind)
            G == LayersOf(a, "grows")
<1>1. h.blocks = n /\ h.interval = IF LayersOf(a, "state") = {} THEN NoKey ELSE n \div Cardinality(G)
  BY DEF HeaderOf
<1>2. CASE LayersOf(a, "window") # {}
  <2>1. h.pattern # NoKey /\ Bearing(h) = 1 .. n \ LayersOf(a, "window")
    BY <1>2, SlidingLayers DEF Bearing
  <2>2. LayersOf(a, "state") = {}
    BY <1>2 DEF Regular
  <2>3. Bearing(h) = G
    BY <2>1, <2>2, Layers
  <2>. QED  BY <2>1, <2>3 DEF KVLayerSet
<1>3. CASE LayersOf(a, "window") = {} /\ LayersOf(a, "state") = {}
  <2>1. h.pattern = NoKey /\ h.interval = NoKey
    BY <1>1, <1>3, SlidingLayers
  <2>2. G = 1 .. n
    BY <1>3, Layers
  <2>3. Cardinality(G) = n
    BY <2>2, Layers
  <2>. QED  BY <1>1, <2>1, <2>3 DEF KVLayerSet
<1>4. CASE LayersOf(a, "state") # {}
  <2>1. LayersOf(a, "window") = {}
    BY <1>4 DEF Regular
  <2>2. PICK k \in 1 .. n : G = {i \in DOMAIN a.kind : i % k = 0}
    BY <1>4 DEF Regular
  <2>3. n \in Nat /\ G = {i \in 1 .. n : i % k = 0}
    BY <2>2, Layers
  <2>4. Cardinality(G) = n \div k
    BY <2>2, <2>3, Multiples
  <2>5. n \div k # 0 /\ n \div (n \div k) # 0 /\ n \div (n \div (n \div k)) = n \div k
    BY <2>2, <2>3, QuotientOfQuotient
  <2>6. n \div k \in Nat /\ n \div (n \div k) \in Nat
    <3>. HIDE DEF n
    <3>1. n \div k \in Nat
      BY <2>2, <2>3, Division
    <3>. DEFINE q == n \div k
    <3>. HIDE DEF q
    <3>2. q \in Nat \ {0}
      BY <2>5, <3>1 DEF q
    <3>3. n \div q \in Nat
      BY <2>3, <3>2, Division
    <3>. QED  BY <3>1, <3>3 DEF q
  <2>7. h.pattern = NoKey /\ h.interval = n \div (n \div k)
    BY <1>1, <1>4, <2>1, <2>4, SlidingLayers
  <2>8. h.interval \notin {NoKey, 0}
    BY <2>5, <2>6, <2>7, HeaderAssumption
  <2>9. KVLayerSet(h) = h.blocks \div h.interval
    BY <2>7, <2>8 DEF KVLayerSet
  <2>. QED  BY <1>1, <2>4, <2>5, <2>7, <2>9
<1>. QED  BY <1>2, <1>3, <1>4

\* A head count is read only of layers that agree on it.
LEMMA AgreedHeads ==
  ASSUME NEW a, Regular(a), NEW S \in SUBSET (1 .. Len(a.kind)), S # {}, NEW n \in KVHeadCount(HeaderOf(a), S),
         NEW T \in SUBSET S, T # {}
  PROVE  n \in HeadsOf(a, T) /\ HeadsOf(a, T) = {n}
<1>. DEFINE h == HeaderOf(a)
            all == HeadsOf(a, DOMAIN a.kind)
<1>0. n \in KVHeadCount(h, S)
  OBVIOUS
<1>1. h.blocks = Len(a.kind) /\ h.heads = IF Cardinality(all) = 1 THEN <<a.heads[1]>> ELSE a.heads
  BY DEF HeaderOf
<1>2. Len(<<a.heads[1]>>) = 1 /\ Len(a.heads) = Len(a.kind)
  BY DEF Regular
<1>3. CASE Cardinality(all) = 1
  <2>1. IsFiniteSet(all)
    <3>. DEFINE f == [i \in 1 .. Len(a.kind) |-> a.heads[i]]
    <3>1. f \in Surjection(1 .. Len(a.kind), all)
      BY Layers DEF Surjection, HeadsOf
    <3>. QED  BY <3>1, Layers, FS_Surjection
  <2>2. PICK x : all = {x}
    BY <1>3, <2>1, FS_Singleton
  <2>3. \A i \in 1 .. Len(a.kind) : a.heads[i] = x
    BY <2>2, Layers DEF HeadsOf
  <2>4. a.heads[1] = x
    BY <2>3, Layers
  <2>5. n = x
    <3>1. CASE h.blocks # 1
      <4>1. KVHeadCount(h, S) = {h.heads[1]}
        BY <1>1, <1>2, <1>3, <3>1 DEF KVHeadCount
      <4>. QED  BY <1>1, <1>3, <2>4, <4>1
    <3>2. CASE h.blocks = 1
      <4>1. 1 .. Len(a.kind) = {1}
        BY <1>1, <3>2
      <4>. HIDE DEF h
      <4>2. KVHeadCount(h, S) = {m \in {h.heads[i] : i \in S} : \A i \in S : h.heads[i] = m}
        BY <3>2 DEF KVHeadCount
      <4>3. S = {1}
        BY <4>1
      <4>. QED  BY <1>0, <1>1, <1>3, <2>4, <4>2, <4>3
    <3>. QED  BY <3>1, <3>2
  <2>. QED  BY <2>3, <2>5 DEF HeadsOf
<1>4. CASE Cardinality(all) # 1
  <2>1. h.heads = a.heads
    BY <1>1, <1>4
  <2>2. ~(Len(h.heads) = 1 /\ h.blocks # 1)
    BY <1>1, <1>2, <2>1
  <2>3. KVHeadCount(h, S) = {m \in {h.heads[i] : i \in S} : \A i \in S : h.heads[i] = m}
    BY <2>2 DEF KVHeadCount
  <2>4. \A i \in S : a.heads[i] = n
    BY <2>1, <2>3
  <2>. QED  BY <2>4 DEF HeadsOf
<1>. QED  BY <1>3, <1>4

\* The key length, given or derived.
LEMMA ReadKeyLength ==
  ASSUME NEW a, Regular(a), NEW k \in KeyLength(HeaderOf(a))
  PROVE  k = a.key
<1>. DEFINE h == HeaderOf(a)
<1>1. h.keyLen = (IF a.derived THEN NoKey ELSE a.key) /\ h.attn = a.attn /\ h.embed = a.key * a.attn
  BY DEF HeaderOf
<1>2. a.key \in Nat /\ a.attn \in Nat \ {0} /\ a.key # NoKey
  BY HeaderAssumption DEF Regular
<1>3. CASE a.derived
  <2>1. KeyLength(h) = {h.embed \div h.attn}
    BY <1>1, <1>2, <1>3 DEF KeyLength
  <2>2. (a.attn * a.key) \div a.attn = a.key
    BY <1>2, Quotient
  <2>3. a.key * a.attn = a.attn * a.key
    BY <1>2
  <2>. QED  BY <1>1, <2>1, <2>2, <2>3
<1>4. CASE ~a.derived
  BY <1>1, <1>2, <1>4 DEF KeyLength
<1>. QED  BY <1>3, <1>4

\* The reader of headers never counts wrongly (internal/gguf): what it takes off the header
\* of a model is the count over the model's layers, or nothing.
THEOREM ReaderCountsRight ==
  ASSUME NEW a, Regular(a)
  PROVE  Geometry(HeaderOf(a)) \subseteq TrueGeometry(a)
<1>. DEFINE h == HeaderOf(a)
            G == LayersOf(a, "grows")
            W == LayersOf(a, "window")
<1>. SUFFICES ASSUME NEW g \in Geometry(h) PROVE g \in TrueGeometry(a)
  OBVIOUS
<1>1. PICK n \in KVHeadCount(h, Bearing(h)), k \in KeyLength(h) :
        \E s \in SlidingWindow(h, k) :
          g = [KVLayers |-> KVLayerSet(h), HeadCountKV |-> n, KeyLength |-> k,
               SWALayers |-> s.layers, SWAHeadCountKV |-> s.heads, SWAKeyLength |-> s.key, SWAWindow |-> s.window]
  BY DEF Geometry
<1>2. PICK s \in SlidingWindow(h, k) :
        g = [KVLayers |-> KVLayerSet(h), HeadCountKV |-> n, KeyLength |-> k,
             SWALayers |-> s.layers, SWAHeadCountKV |-> s.heads, SWAKeyLength |-> s.key, SWAWindow |-> s.window]
  BY <1>1
<1>3. KVLayerSet(h) = Cardinality(G) /\ k = a.key /\ Sliding(h) = W
  BY GrowingLayers, ReadKeyLength, SlidingLayers
<1>4. G # {} /\ G \subseteq Bearing(h) /\ Bearing(h) \subseteq 1 .. Len(a.kind) /\ W \subseteq 1 .. Len(a.kind)
  BY Layers, SlidingLayers DEF Bearing, Regular
<1>5. n \in HeadsOf(a, G) /\ HeadsOf(a, G) = {n}
  BY <1>4, AgreedHeads
<1>. DEFINE Row(x, w) ==
       [KVLayers |-> Cardinality(G), HeadCountKV |-> x, KeyLength |-> a.key, SWALayers |-> Cardinality(W), SWAHeadCountKV |-> w,
        SWAKeyLength |-> IF W = {} THEN 0 ELSE a.swaKey, SWAWindow |-> IF W = {} THEN 0 ELSE a.window]
            Agreed(S) == {x \in HeadsOf(a, S) : HeadsOf(a, S) = {x}}
            Heads == IF W = {} THEN {0} ELSE Agreed(W)
<1>6. TrueGeometry(a) = {Row(x, w) : x \in Agreed(G), w \in Heads}
  BY DEF TrueGeometry
<1>7. n \in Agreed(G)
  BY <1>5
<1>8. CASE W = {}
  <2>1. s = [layers |-> 0, heads |-> 0, key |-> 0, window |-> 0]
    BY <1>3, <1>8 DEF SlidingWindow
  <2>2. Cardinality(W) = 0
    BY <1>8, FS_EmptySet
  <2>3. g = Row(n, 0)
    BY <1>2, <1>3, <1>8, <2>1, <2>2
  <2>. QED  BY <1>6, <1>7, <1>8, <2>3
<1>9. CASE W # {}
  <2>1. PICK m \in KVHeadCount(h, W) :
          s = [layers |-> Cardinality(W), heads |-> m, key |-> IF h.swaKey = NoKey THEN k ELSE h.swaKey, window |-> h.window]
    BY <1>3, <1>9 DEF SlidingWindow
  <2>2. m \in Agreed(W)
    BY <1>4, <1>9, <2>1, AgreedHeads
  <2>3. h.swaKey = (IF a.swaKey = a.key THEN NoKey ELSE a.swaKey) /\ h.window = a.window
    BY <1>9 DEF HeaderOf
  <2>4. s.key = a.swaKey
    BY <1>3, <2>1, <2>3, HeaderAssumption DEF Regular
  <2>5. g = Row(n, m)
    BY <1>2, <1>3, <1>9, <2>1, <2>3, <2>4
  <2>6. m \in Heads
    BY <1>9, <2>2
  <2>. HIDE DEF Row, Agreed, Heads
  <2>. QED  BY <1>6, <1>7, <2>5, <2>6
<1>. QED  BY <1>8, <1>9

----------------------------------------------------------------------------
(* Types                                                                   *)

Texts == Seq(Revs \cup {0})
Numbers == 1 .. Len(Shards) + 1
Plain ==
  [pc : {"shard", "head", "seed", "rename", "geometry"}, verb : Verbs, entry : Entries, at : Numbers]
Getting == [pc : {"get"}, verb : Verbs, entry : Entries, at : Numbers, hash : Texts]
Streaming ==
  [pc : {"stream"}, verb : Verbs, entry : Entries, at : Numbers, hash : Texts, body : Seq(Revs),
   ino : Inodes, append : BOOLEAN]
Pulls == {Idle} \cup Plain \cup Getting \cup Streaming

\* A pull is of an entry that was loaded, and is at one of its shards or past them.
Lawful(w) ==
  w.pc # "idle" =>
    /\ ValidSidecars(w.entry) /\ w.entry.rev \in pinned
    /\ w.at <= Len(AllShards(w.entry)) + 1
    /\ w.pc \notin {"shard", "geometry"} => w.at <= Len(AllShards(w.entry))
    /\ w.pc = "geometry" => w.at > Len(AllShards(w.entry))

Disk ==
  /\ store \in [Inodes -> Texts]
  /\ part \in [Names -> Inodes \cup {0}] /\ final \in [Names -> Inodes \cup {0}]

\* An inode has one name.
OneName ==
  \A s, t \in Names :
    /\ part[s] # 0 => part[s] # final[t] /\ (part[s] = part[t] => s = t)
    /\ final[s] # 0 /\ final[s] = final[t] => s = t

PullTypes ==
  /\ catalog \in [entry : Entries, flawed : BOOLEAN]
  /\ upstream \in [Names -> Revs] /\ pinned \subseteq Revs /\ Load.rev \in pinned
  /\ Disk /\ OneName
  /\ pull \in [Pullers -> Pulls] /\ \A p \in Pullers : Lawful(pull[p])

\* What the constants are.
LEMMA PullFacts ==
  /\ Len(Shards) \in Nat /\ DOMAIN Shards = 1 .. Len(Shards) /\ Weights \in Nat /\ Weights >= 1 /\ Weights <= Len(Shards)
  /\ \A i \in DOMAIN Shards : Shards[i] \in Names
  /\ \A r \in Revs : r \in Nat /\ r # 0 /\ Size[r] \in Nat /\ Size[r] >= 1
  /\ PrimaryFile \in Names
<1>1. Len(Shards) \in Nat /\ DOMAIN Shards = 1 .. Len(Shards)
  BY PullAssumption
<1>2. \A i \in DOMAIN Shards : Shards[i] \in Names
  BY DEF Names
<1>3. \A r \in Revs : r \in Nat /\ r # 0 /\ Size[r] \in Nat \ {0}
  BY PullAssumption DEF Revs
<1>. QED  BY <1>1, <1>2, <1>3, PullAssumption DEF PrimaryFile

\* An entry's shards are the first of the shards.
LEMMA EntryShards ==
  ASSUME NEW e
  PROVE  /\ Len(AllShards(e)) \in Nat /\ Len(AllShards(e)) >= Weights /\ Len(AllShards(e)) <= Len(Shards)
         /\ DOMAIN AllShards(e) = 1 .. Len(AllShards(e))
         /\ e.sidecar /\ e.listed => Len(AllShards(e)) = Len(Shards)
         /\ ~(e.sidecar /\ e.listed) => Len(AllShards(e)) = Weights
<1>1. Shards \in Seq(Names)
  BY PullAssumption
<1>2. SubSeq(Shards, 1, Weights) \in Seq(Names) /\ Len(SubSeq(Shards, 1, Weights)) = Weights
  BY <1>1, PullFacts
<1>3. DOMAIN SubSeq(Shards, 1, Weights) = 1 .. Weights
  BY <1>2
<1>4. AllShards(e) = IF e.sidecar /\ e.listed THEN Shards ELSE SubSeq(Shards, 1, Weights)
  BY DEF AllShards
<1>. HIDE DEF AllShards
<1>5. CASE e.sidecar /\ e.listed
  BY <1>4, <1>5, PullFacts
<1>6. CASE ~(e.sidecar /\ e.listed)
  <2>1. AllShards(e) = SubSeq(Shards, 1, Weights)
    BY <1>4, <1>6, Zenon
  <2>2. Len(AllShards(e)) = Weights /\ DOMAIN AllShards(e) = 1 .. Weights
    BY <1>2, <1>3, <2>1
  <2>3. Weights \in Nat /\ Weights >= Weights /\ Weights <= Len(Shards)
    BY PullFacts
  <2>4. ~(e.sidecar /\ e.listed)
    BY <1>6
  <2>. QED  BY <2>2, <2>3, <2>4, Zenon
<1>. QED  BY <1>5, <1>6

\* The blocks of a revision.
LEMMA Contents ==
  ASSUME NEW r \in Revs
  PROVE  /\ Content(r) \in Seq(Revs) /\ Content(r) \in Texts /\ Len(Content(r)) = Size[r] /\ Content(r) # <<>>
         /\ Content(r)[1] = r /\ DOMAIN Content(r) = 1 .. Size[r] /\ 1 \in DOMAIN Content(r)
<1>1. Size[r] \in Nat /\ Size[r] >= 1
  BY PullFacts
<1>2. Content(r) \in [1 .. Size[r] -> Revs]
  BY DEF Content
<1>3. Content(r) \in Seq(Revs) /\ Len(Content(r)) = Size[r] /\ Content(r) \in Seq(Revs \cup {0})
  BY <1>1, <1>2
<1>4. Content(r)[1] = r
  BY <1>1 DEF Content
<1>. QED  BY <1>1, <1>2, <1>3, <1>4 DEF Texts

\* A block written to a file.
LEMMA Written ==
  ASSUME NEW f \in Texts, NEW off \in Nat, NEW b \in Revs
  PROVE  WriteAt(f, off, b) \in Texts /\ (off = Len(f) => WriteAt(f, off, b) = Append(f, b))
<1>. DEFINE n == IF off + 1 > Len(f) THEN off + 1 ELSE Len(f)
<1>1. Len(f) \in Nat /\ n \in Nat /\ f \in [1 .. Len(f) -> Revs \cup {0}]
  BY DEF Texts
<1>2. WriteAt(f, off, b) \in [1 .. n -> Revs \cup {0}]
  BY <1>1 DEF WriteAt
<1>3. WriteAt(f, off, b) \in Texts
  BY <1>1, <1>2, SeqDef DEF Texts
<1>4. ASSUME off = Len(f) PROVE WriteAt(f, off, b) = Append(f, b)
  <2>1. n = Len(f) + 1
    BY <1>1, <1>4
  <2>2. WriteAt(f, off, b) = [i \in 1 .. Len(f) + 1 |-> IF i = Len(f) + 1 THEN b ELSE IF i > Len(f) THEN 0 ELSE f[i]]
    BY <1>1, <1>4, <2>1 DEF WriteAt
  <2>. DEFINE w == WriteAt(f, off, b)
             v == Append(f, b)
  <2>3. w \in Texts /\ Len(w) = Len(f) + 1 /\ w[Len(f) + 1] = b /\ \A i \in 1 .. Len(f) : w[i] = f[i]
    BY <1>1, <1>3, <2>2 DEF Texts
  <2>4. v \in Texts /\ Len(v) = Len(f) + 1 /\ v[Len(f) + 1] = b /\ \A i \in 1 .. Len(f) : v[i] = f[i]
    BY AppendProperties DEF Texts
  <2>. HIDE DEF w, v
  <2>5. \A i \in 1 .. Len(w) : w[i] = v[i]
    BY <1>1, <2>3, <2>4
  <2>6. w = v
    BY <2>3, <2>4, <2>5, SeqEqual DEF Texts
  <2>. QED  BY <2>6 DEF w, v
<1>. QED  BY <1>3, <1>4

\* What a name or a writer refers to is kept.
LEMMA Reclaimed ==
  ASSUME store \in [Inodes -> Texts], Reclaim
  PROVE  store' \in [Inodes -> Texts] /\ \A n \in Inodes : n \in Used' => store'[n] = store[n]
<1>1. <<>> \in Texts
  BY DEF Texts
<1>. QED  BY <1>1 DEF Reclaim

\* The parts of a pull's record.
LEMMA PullParts ==
  ASSUME PullTypes, NEW p \in Pullers
  PROVE  /\ pull[p] \in Pulls /\ Lawful(pull[p]) /\ Idle \in Pulls /\ Lawful(Idle)
         /\ ~Running(p) => pull[p] = Idle
         /\ pull[p].pc \in {"shard", "head", "seed", "rename", "geometry"} => pull[p] \in Plain
         /\ At(p, "get") => pull[p] \in Getting
         /\ At(p, "stream") => pull[p] \in Streaming
         /\ Running(p) => Entry(p) \in Entries /\ pull[p].verb \in Verbs /\ pull[p].at \in Numbers /\ Entry(p).rev \in Revs
         /\ pull[p].pc \notin {"idle", "shard", "geometry"} => pull[p].at \in DOMAIN Shards /\ Shard(p) \in Names
<1>1. pull[p] \in Pulls /\ Lawful(pull[p])
  BY DEF PullTypes
<1>2. Idle \in Pulls /\ Lawful(Idle)
  BY DEF Pulls, Idle, Lawful
<1>3. /\ ~Running(p) => pull[p] = Idle
      /\ pull[p].pc \in {"shard", "head", "seed", "rename", "geometry"} => pull[p] \in Plain
      /\ At(p, "get") => pull[p] \in Getting
      /\ At(p, "stream") => pull[p] \in Streaming
  BY <1>1 DEF Pulls, Idle, Plain, Getting, Streaming, Running, At
<1>4. Running(p) => Entry(p) \in Entries /\ pull[p].verb \in Verbs /\ pull[p].at \in Numbers
  BY <1>1 DEF Pulls, Idle, Plain, Getting, Streaming, Running, Entry
<1>5. \A e \in Entries : e.rev \in Revs
  BY PullAssumption
<1>6. pull[p].pc \notin {"idle", "shard", "geometry"} => pull[p].at \in 1 .. Len(Shards)
  <2>. SUFFICES ASSUME pull[p].pc \notin {"idle", "shard", "geometry"} PROVE pull[p].at \in 1 .. Len(Shards)
    OBVIOUS
  <2>1. pull[p].at <= Len(AllShards(pull[p].entry))
    BY <1>1 DEF Lawful
  <2>2. pull[p].at \in 1 .. Len(Shards) + 1
    BY <1>4 DEF Running, Numbers
  <2>. DEFINE l == Len(AllShards(pull[p].entry))
  <2>3. l \in Nat /\ l <= Len(Shards) /\ Len(Shards) \in Nat
    BY EntryShards, PullFacts
  <2>4. pull[p].at <= l
    BY <2>1
  <2>. HIDE DEF l
  <2>. QED  BY <2>2, <2>3, <2>4
<1>. QED  BY <1>1, <1>2, <1>3, <1>4, <1>5, <1>6, PullFacts DEF Shard, Running

\* A puller goes on, and nobody else does.
LEMMA Turn ==
  ASSUME PullTypes, NEW p \in Pullers, NEW w \in Pulls, Lawful(w), Goes(p, w), pinned' = pinned
  PROVE  /\ pull' \in [Pullers -> Pulls] /\ (\A q \in Pullers : Lawful(pull[q]))'
         /\ pull'[p] = w /\ \A q \in Pullers \ {p} : pull'[q] = pull[q]
<1>1. pull \in [Pullers -> Pulls] /\ \A q \in Pullers : Lawful(pull[q])
  BY DEF PullTypes
<1>2. pull' \in [Pullers -> Pulls] /\ pull'[p] = w /\ \A q \in Pullers \ {p} : pull'[q] = pull[q]
  BY <1>1 DEF Goes
<1>3. ASSUME NEW q \in Pullers PROVE Lawful(pull[q])'
  <2>1. Lawful(pull'[q])
    BY <1>1, <1>2
  <2>. QED  BY <2>1 DEF Lawful
<1>. QED  BY <1>2, <1>3

\* There is an inode for a .part that does not exist yet.
LEMMA FreshInode ==
  ASSUME PullTypes, NEW s \in Names, part[s] = 0
  PROVE  NewInode \in Inodes /\ NewInode \notin Used
<1>. DEFINE L == Len(Shards)
            c == Cardinality(Pullers)
            N == 2 * L + c
<1>1. c \in Nat /\ L \in Nat /\ N \in Nat /\ ExistsBijection(1 .. c, Pullers)
  BY PullFacts, PullAssumption, FS_CardinalityType
<1>2. PICK b : b \in Bijection(1 .. c, Pullers)
  BY <1>1 DEF ExistsBijection
<1>3. \A p \in Pullers : \E i \in 1 .. c : b[i] = p
  BY <1>2 DEF Bijection, Surjection
<1>. DEFINE g == [i \in 1 .. N |-> IF i <= L THEN part[Shards[i]]
                                   ELSE IF i <= 2 * L THEN final[Shards[i - L]]
                                   ELSE pull[b[i - 2 * L]].ino]
            R == {g[i] : i \in 1 .. N}
<1>4. \A t \in Names : part[t] \in R /\ final[t] \in R
  <2>. SUFFICES ASSUME NEW t \in Names PROVE part[t] \in R /\ final[t] \in R
    OBVIOUS
  <2>1. PICK i \in 1 .. L : t = Shards[i]
    BY PullFacts DEF Names
  <2>2. i \in 1 .. N /\ i + L \in 1 .. N /\ ~(i + L <= L) /\ i + L <= 2 * L /\ (i + L) - L = i
    BY <1>1
  <2>3. g[i] = part[t] /\ g[i + L] = final[t]
    BY <2>1, <2>2
  <2>. HIDE DEF g
  <2>. QED  BY <2>2, <2>3
<1>5. \A p \in Pullers : pull[p].ino \in R
  <2>. SUFFICES ASSUME NEW p \in Pullers PROVE pull[p].ino \in R
    OBVIOUS
  <2>1. PICK i \in 1 .. c : b[i] = p
    BY <1>3
  <2>2. 2 * L + i \in 1 .. N /\ ~(2 * L + i <= L) /\ ~(2 * L + i <= 2 * L) /\ (2 * L + i) - 2 * L = i
    BY <1>1
  <2>3. g[2 * L + i] = pull[p].ino
    BY <2>1, <2>2
  <2>. HIDE DEF g
  <2>. QED  BY <2>2, <2>3
<1>6. Used \subseteq R /\ 0 \in R
  <2>. HIDE DEF R
  <2>. QED  BY <1>4, <1>5 DEF Used
<1>7. IsFiniteSet(R) /\ Cardinality(R) <= N
  <2>1. IsFiniteSet(1 .. N) /\ Cardinality(1 .. N) = N
    <3>. HIDE DEF N
    <3>1. N \in Int /\ 1 \in Int
      BY <1>1
    <3>2. IsFiniteSet(1 .. N) /\ Cardinality(1 .. N) = IF 1 > N THEN 0 ELSE N - 1 + 1
      BY <3>1, FS_Interval
    <3>. QED  BY <1>1, <3>2
  <2>2. g \in Surjection(1 .. N, R)
    <3>. DEFINE h == g
    <3>1. DOMAIN g = 1 .. N
      OBVIOUS
    <3>2. g = [i \in 1 .. N |-> g[i]]
      OBVIOUS
    <3>. HIDE DEF g
    <3>. QED  BY <3>1, <3>2 DEF Surjection
  <2>. QED  BY <2>1, <2>2, FS_Surjection
<1>. HIDE DEF R, g
<1>8. ~(Inodes \subseteq Used)
  <2>. SUFFICES ASSUME Inodes \subseteq Used PROVE FALSE
    OBVIOUS
  <2>1. 0 .. N \subseteq R
    <3>1. 1 .. N \subseteq R
      BY <1>6 DEF Inodes
    <3>. QED  BY <1>1, <1>6, <3>1
  <2>2. Cardinality(0 .. N) = N + 1
    BY <1>1, FS_Interval
  <2>3. Cardinality(0 .. N) <= Cardinality(R) /\ Cardinality(R) \in Nat
    BY <1>7, <2>1, FS_Subset, FS_CardinalityType
  <2>. QED  BY <1>1, <1>7, <2>2, <2>3
<1>9. \E n \in Inodes : n \notin Used
  BY <1>8
<1>. QED  BY <1>9 DEF NewInode

\* What is left to show of a step that is not an edit.
LEMMA PullKeeps ==
  ASSUME PullTypes, UNCHANGED <<catalog, upstream, pinned>>, Disk', OneName',
         NEW p \in Pullers, NEW w \in Pulls, Lawful(w), Goes(p, w)
  PROVE  PullTypes'
<1>1. pull' \in [Pullers -> Pulls] /\ (\A q \in Pullers : Lawful(pull[q]))'
  BY Turn
<1>2. Load' = Load
  BY DEF Load
<1>. QED  BY <1>1, <1>2 DEF PullTypes

\* The disk, when it is left alone, when a name goes, and when a file is written to.
LEMMA DiskKept ==
  ASSUME PullTypes, UNCHANGED disk
  PROVE  Disk' /\ OneName'
BY DEF PullTypes, Disk, OneName, disk

\* A .part without its name: no other name is touched.
LEMMA NameGone ==
  ASSUME PullTypes, NEW s \in Names, part' = [part EXCEPT ![s] = 0] \/ part' = part, final' = final, Reclaim
  PROVE  /\ Disk' /\ OneName' /\ \A n \in Inodes : n \in Used' => store'[n] = store[n]
         /\ \A t \in Names \ {s} : part'[t] = part[t]
<1>1. store' \in [Inodes -> Texts] /\ \A n \in Inodes : n \in Used' => store'[n] = store[n]
  BY Reclaimed DEF PullTypes, Disk
<1>2. part \in [Names -> Inodes \cup {0}] /\ final \in [Names -> Inodes \cup {0}] /\ OneName
  BY DEF PullTypes, Disk
<1>3. part' \in [Names -> Inodes \cup {0}] /\ \A t \in Names : part'[t] \in {part[t], 0}
  BY <1>2
<1>4. OneName'
  BY <1>2, <1>3 DEF OneName
<1>. QED  BY <1>1, <1>2, <1>3, <1>4 DEF Disk

\* The bytes of a file, and the inodes in use.
LEMMA FileBytes ==
  ASSUME PullTypes, NEW s \in Names
  PROVE  /\ Bytes(part, s) \in Texts /\ Bytes(final, s) \in Texts
         /\ part[s] \in Used /\ final[s] \in Used
         /\ part[s] # 0 => part[s] \in Inodes /\ Bytes(part, s) = store[part[s]]
         /\ final[s] # 0 => final[s] \in Inodes /\ Bytes(final, s) = store[final[s]]
         /\ 0 \notin Inodes
<1>1. <<>> \in Texts
  BY DEF Texts
<1>2. 0 \notin Inodes
  BY DEF Inodes
<1>3. Disk
  BY DEF PullTypes
<1>. QED  BY <1>1, <1>2, <1>3 DEF Disk, Bytes, Exists, Used

\* The steps.
LEMMA TakeShardTypes ==
  ASSUME PullTypes, NEW p \in Pullers, TakeShard(p)
  PROVE  PullTypes'
<1>. DEFINE l == Len(AllShards(Entry(p)))
            a == pull[p].at
<1>1. pull[p] \in Plain /\ Lawful(pull[p]) /\ UNCHANGED <<catalog, upstream, pinned>> /\ Disk' /\ OneName'
  BY PullParts, DiskKept DEF TakeShard, At, ghosts
<1>2. l \in Nat /\ l <= Len(Shards) /\ Len(Shards) \in Nat
  BY EntryShards, PullFacts
<1>3. a \in Nat /\ a >= 1 /\ a <= l + 1 /\ ValidSidecars(Entry(p)) /\ Entry(p).rev \in pinned
  BY <1>1 DEF Lawful, Plain, Entry, Numbers, TakeShard, At
<1>4. CASE a > l /\ Goes(p, [pull[p] EXCEPT !.pc = "geometry"])
  <2>1. [pull[p] EXCEPT !.pc = "geometry"] \in Plain
    BY <1>1 DEF Plain
  <2>2. Lawful([pull[p] EXCEPT !.pc = "geometry"])
    BY <1>1, <1>3, <1>4 DEF Lawful, Plain, Entry
  <2>. QED  BY <1>1, <1>4, <2>1, <2>2, PullKeeps DEF Pulls
<1>5. CASE ~(a > l) /\ Goes(p, [pull[p] EXCEPT !.at = @ + 1])
  <2>1. [pull[p] EXCEPT !.at = @ + 1] \in Plain
    <3>1. a + 1 \in Numbers
      BY <1>2, <1>3, <1>5 DEF Numbers
    <3>. QED  BY <1>1, <3>1 DEF Plain
  <2>. DEFINE w == [pull[p] EXCEPT !.at = @ + 1]
  <2>2. Lawful(w)
    <3>1. w.pc = "shard" /\ w.entry = Entry(p) /\ w.at = a + 1
      BY <1>1 DEF Plain, Entry, TakeShard, At
    <3>2. a + 1 <= l + 1
      BY <1>2, <1>3, <1>5
    <3>. HIDE DEF w
    <3>3. Len(AllShards(w.entry)) = l /\ ValidSidecars(w.entry) /\ w.entry.rev \in pinned
      BY <1>3, <3>1
    <3>. HIDE DEF l, a
    <3>. QED  BY <1>2, <1>3, <3>1, <3>2, <3>3 DEF Lawful
  <2>. QED  BY <1>1, <1>5, <2>1, <2>2, PullKeeps DEF Pulls
<1>6. CASE ~(a > l) /\ Goes(p, [pull[p] EXCEPT !.pc = "head"])
  <2>1. [pull[p] EXCEPT !.pc = "head"] \in Plain
    BY <1>1 DEF Plain
  <2>. DEFINE w == [pull[p] EXCEPT !.pc = "head"]
  <2>2. Lawful(w)
    <3>1. w.pc = "head" /\ w.entry = Entry(p) /\ w.at = a
      BY <1>1 DEF Plain, Entry
    <3>2. a <= l
      BY <1>2, <1>3, <1>6
    <3>. HIDE DEF w
    <3>3. Len(AllShards(w.entry)) = l /\ ValidSidecars(w.entry) /\ w.entry.rev \in pinned
      BY <1>3, <3>1
    <3>. HIDE DEF l, a
    <3>. QED  BY <1>2, <1>3, <3>1, <3>2, <3>3 DEF Lawful
  <2>. QED  BY <1>1, <1>6, <2>1, <2>2, PullKeeps DEF Pulls
<1>. QED  BY <1>4, <1>5, <1>6 DEF TakeShard

\* A pull that stands past the choice of its shard goes on to another place of it.
LEMMA SameShard ==
  ASSUME PullTypes, NEW p \in Pullers, pull[p].pc \notin {"idle", "shard", "geometry"},
         NEW w, w.pc \notin {"idle", "shard", "geometry"}, w.entry = Entry(p), w.at = pull[p].at
  PROVE  Lawful(w)
BY PullParts DEF Lawful, Entry

\* The headers end the pull or let it go on.
LEMMA HeadVerifyTypes ==
  ASSUME PullTypes, NEW p \in Pullers, HeadVerify(p)
  PROVE  PullTypes'
<1>1. pull[p] \in Plain /\ UNCHANGED <<catalog, upstream, pinned>> /\ Disk' /\ OneName'
  BY PullParts, DiskKept DEF HeadVerify, At
<1>2. CASE Fail(p)
  BY <1>1, <1>2, PullParts, PullKeeps DEF Fail
<1>3. CASE Goes(p, [pull[p] EXCEPT !.pc = "seed"])
  <2>. DEFINE w == [pull[p] EXCEPT !.pc = "seed"]
  <2>1. w \in Pulls /\ w.pc = "seed" /\ w.entry = Entry(p) /\ w.at = pull[p].at
    BY <1>1 DEF Plain, Pulls, Entry
  <2>. HIDE DEF w
  <2>2. Lawful(w)
    BY <2>1, SameShard DEF HeadVerify, At
  <2>3. Goes(p, w)
    BY <1>3 DEF w
  <2>. QED  BY <1>1, <2>1, <2>2, <2>3, PullKeeps
<1>. QED  BY <1>2, <1>3 DEF HeadVerify

\* What is on disk already is hashed, or its name is given up.
LEMMA SeedHashTypes ==
  ASSUME PullTypes, NEW p \in Pullers, SeedHash(p)
  PROVE  PullTypes'
<1>1. pull[p] \in Plain /\ UNCHANGED <<catalog, upstream, pinned, final>> /\ Shard(p) \in Names /\ Reclaim
  BY PullParts DEF SeedHash, At, ghosts
<1>2. part' = [part EXCEPT ![Shard(p)] = 0] \/ part' = part
  BY DEF SeedHash
<1>3. Disk' /\ OneName'
  BY <1>1, <1>2, NameGone
<1>4. PICK h \in {Bytes(part, Shard(p)), <<>>} :
        Goes(p, [pc |-> "get", verb |-> pull[p].verb, entry |-> Entry(p), at |-> pull[p].at, hash |-> h])
  BY DEF SeedHash
<1>5. h \in Texts
  <2>1. <<>> \in Texts /\ Bytes(part, Shard(p)) \in Texts
    BY <1>1, FileBytes DEF Texts
  <2>. QED  BY <1>4, <2>1
<1>. DEFINE w == [pc |-> "get", verb |-> pull[p].verb, entry |-> Entry(p), at |-> pull[p].at, hash |-> h]
<1>6. w \in Pulls /\ w.pc = "get" /\ w.entry = Entry(p) /\ w.at = pull[p].at
  BY <1>1, <1>5 DEF Plain, Getting, Pulls, Entry
<1>7. Goes(p, w)
  BY <1>4
<1>. HIDE DEF w
<1>8. Lawful(w)
  BY <1>6, SameShard DEF SeedHash, At
<1>. QED  BY <1>1, <1>3, <1>6, <1>7, <1>8, PullKeeps

\* What opening the .part leaves: it is a new file, emptied, or as it was.
LEMMA Opened ==
  ASSUME PullTypes, NEW p \in Pullers, At(p, "get"), NEW body \in Seq(Revs), NEW hash \in Texts, NEW append \in BOOLEAN,
         Streams(p, body, hash, append), UNCHANGED <<catalog, upstream, final, pinned>>
  PROVE  /\ PullTypes'
         /\ part'[Shard(p)] = pull'[p].ino /\ pull'[p].ino \in Inodes
         /\ \A m \in Inodes : m # pull'[p].ino => store'[m] = store[m]
         /\ \A s \in Names : final[s] # pull'[p].ino
         /\ IF append /\ part[Shard(p)] # 0 THEN store' = store /\ part' = part ELSE store'[pull'[p].ino] = <<>>
         /\ pull'[p] \in Streaming /\ pull'[p].hash = hash /\ pull'[p].body = body /\ pull'[p].append = append
         /\ pull'[p].entry = Entry(p) /\ pull'[p].at = pull[p].at /\ pull'[p].verb = pull[p].verb
<1>1. pull[p] \in Getting /\ Shard(p) \in Names /\ Disk /\ OneName
  BY PullParts DEF At, PullTypes
<1>. DEFINE n == IF Exists(part, Shard(p)) THEN part[Shard(p)] ELSE NewInode
            w == [pc |-> "stream", verb |-> pull[p].verb, entry |-> Entry(p), at |-> pull[p].at,
                  hash |-> hash, body |-> body, ino |-> n, append |-> append]
<1>2. /\ part' = [part EXCEPT ![Shard(p)] = n]
      /\ store' = IF append /\ Exists(part, Shard(p)) THEN store ELSE [store EXCEPT ![n] = <<>>]
      /\ Goes(p, w)
  BY DEF Streams
<1>3. n \in Inodes /\ n # 0 /\ \A s \in Names : final[s] # n /\ (part[s] = n => s = Shard(p))
  <2>1. CASE part[Shard(p)] # 0
    BY <1>1, <2>1, FileBytes DEF OneName, Exists
  <2>2. CASE part[Shard(p)] = 0
    <3>1. NewInode \in Inodes /\ NewInode \notin Used
      BY <1>1, <2>2, FreshInode
    <3>. QED  BY <1>1, <2>2, <3>1, FileBytes DEF Exists
  <2>. QED  BY <2>1, <2>2
<1>4. w \in Streaming /\ w.pc = "stream" /\ w.entry = Entry(p) /\ w.at = pull[p].at
  BY <1>1, <1>3 DEF Streaming, Getting, Entry
<1>5. w.hash = hash /\ w.body = body /\ w.append = append /\ w.ino = n /\ w.verb = pull[p].verb
  OBVIOUS
<1>. HIDE DEF w
<1>6. w \in Pulls /\ Lawful(w)
  BY <1>4, SameShard DEF At, Pulls
<1>7. pull'[p] = w
  BY <1>2, <1>6, Turn
<1>. HIDE DEF n
<1>8. store' \in [Inodes -> Texts] /\ \A m \in Inodes : m # n => store'[m] = store[m]
  <2>1. <<>> \in Texts /\ store \in [Inodes -> Texts]
    BY <1>1 DEF Texts, Disk
  <2>. QED  BY <1>2, <2>1
<1>9. part' \in [Names -> Inodes \cup {0}] /\ part'[Shard(p)] = n /\ \A s \in Names \ {Shard(p)} : part'[s] = part[s]
  BY <1>1, <1>2, <1>3 DEF Disk
<1>10. Disk' /\ OneName'
  <2>1. Disk'
    BY <1>1, <1>8, <1>9 DEF Disk
  <2>. QED  BY <1>1, <1>3, <1>9, <2>1 DEF OneName
<1>11. PullTypes'
  BY <1>2, <1>6, <1>10, PullKeeps
<1>12. IF append /\ part[Shard(p)] # 0 THEN store' = store /\ part' = part ELSE store'[n] = <<>>
  <2>1. CASE append /\ part[Shard(p)] # 0
    <3>1. n = part[Shard(p)]
      BY <2>1 DEF n, Exists
    <3>. QED  BY <1>1, <1>2, <2>1, <3>1 DEF Exists, Disk
  <2>2. CASE ~(append /\ part[Shard(p)] # 0)
    BY <1>1, <1>2, <1>3, <2>2 DEF Exists, Disk
  <2>. QED  BY <2>1, <2>2
<1>. QED  BY <1>3, <1>4, <1>5, <1>7, <1>8, <1>9, <1>11, <1>12

\* The rest of a file from a place on.
LEMMA RestOf ==
  ASSUME NEW r \in Revs, NEW k \in Nat, k < Size[r]
  PROVE  SubSeq(Content(r), k + 1, Size[r]) \in Seq(Revs)
<1>1. \A i \in k + 1 .. Size[r] : Content(r)[i] \in Revs
  BY PullFacts DEF Content
<1>2. k + 1 \in Int /\ Size[r] \in Int
  BY PullFacts
<1>. QED  BY <1>1, <1>2, SubSeqProperties

\* The body is the whole file or its rest, into the file opened for it.
LEMMA GetTypes ==
  ASSUME PullTypes, NEW p \in Pullers, Get(p)
  PROVE  PullTypes'
<1>0. pull[p] \in Getting /\ At(p, "get") /\ Shard(p) \in Names /\ UNCHANGED <<catalog, upstream, final, pinned>>
  BY PullParts DEF Get, At
<1>1. upstream[Shard(p)] \in Revs /\ pull[p].hash \in Texts /\ Len(pull[p].hash) \in Nat
  BY <1>0 DEF PullTypes, Getting, Texts
<1>2. CASE GetWhole(p)
  <2>1. Content(upstream[Shard(p)]) \in Seq(Revs) /\ <<>> \in Texts
    BY <1>1, Contents DEF Texts
  <2>. QED  BY <1>0, <1>2, <2>1, Opened DEF GetWhole
<1>3. CASE GetRest(p)
  <2>. DEFINE r == upstream[Shard(p)]
              k == Len(pull[p].hash)
  <2>1. CASE k < Size[r] /\ Streams(p, SubSeq(Content(r), k + 1, Size[r]), pull[p].hash, TRUE)
    <3>1. SubSeq(Content(r), k + 1, Size[r]) \in Seq(Revs)
      BY <1>1, <2>1, RestOf
    <3>. HIDE DEF r, k
    <3>. QED  BY <1>0, <1>1, <2>1, <3>1, Opened
  <2>2. CASE Fail(p) /\ UNCHANGED <<store, part>>
    BY <1>0, <2>2, DiskKept, PullParts, PullKeeps DEF Fail, disk
  <2>. QED  BY <1>3, <2>1, <2>2 DEF GetRest
<1>. QED  BY <1>2, <1>3 DEF Get

\* One block goes into the file of the pull, and into its hash.
LEMMA StreamTypes ==
  ASSUME PullTypes, NEW p \in Pullers, StreamToPart(p)
  PROVE  /\ PullTypes'
         /\ \A m \in Inodes : m # pull[p].ino => store'[m] = store[m]
         /\ pull'[p] \in Streaming /\ pull'[p].ino = pull[p].ino /\ pull'[p].entry = Entry(p)
         /\ pull'[p].at = pull[p].at /\ pull'[p].verb = pull[p].verb
         /\ \E b \in Revs :
              /\ pull'[p].hash = Append(pull[p].hash, b)
              /\ pull[p].ino \in Inodes /\ pull[p].hash \in Texts
              /\ store[pull[p].ino] = pull[p].hash => store'[pull[p].ino] = Append(pull[p].hash, b)
<1>. DEFINE b == Head(pull[p].body)
            n == pull[p].ino
            off == IF pull[p].append THEN Len(store[n]) ELSE Len(pull[p].hash)
            w == [pull[p] EXCEPT !.body = Tail(@), !.hash = Append(@, b)]
<1>0. pull[p] \in Streaming /\ At(p, "stream") /\ UNCHANGED <<catalog, upstream, part, final, pinned>> /\ Disk /\ OneName
  BY PullParts DEF StreamToPart, ghosts, PullTypes
<1>1. b \in Revs /\ Tail(pull[p].body) \in Seq(Revs)
  <2>1. pull[p].body \in Seq(Revs) /\ pull[p].body # <<>>
    BY <1>0 DEF Streaming, StreamToPart
  <2>. QED  BY <2>1, HeadTailProperties
<1>2. n \in Inodes /\ pull[p].hash \in Texts /\ store[n] \in Texts
  BY <1>0 DEF Streaming, Disk
<1>3. off \in Nat
  BY <1>2 DEF Texts
<1>4. store' = [store EXCEPT ![n] = WriteAt(store[n], off, b)] /\ Goes(p, w)
  BY <1>0, <1>2 DEF StreamToPart, Disk
<1>5. WriteAt(store[n], off, b) \in Texts /\ (off = Len(store[n]) => WriteAt(store[n], off, b) = Append(store[n], b))
  BY <1>1, <1>2, <1>3, Written
<1>6. Append(pull[p].hash, b) \in Texts
  BY <1>1, <1>2, AppendProperties DEF Texts
<1>7. w \in Streaming /\ w.pc = "stream" /\ w.entry = Entry(p) /\ w.at = pull[p].at
      /\ w.hash = Append(pull[p].hash, b) /\ w.ino = n /\ w.verb = pull[p].verb
  <2>. HIDE DEF b
  <2>. QED  BY <1>0, <1>1, <1>6 DEF Streaming, Entry
<1>. HIDE DEF w, b
<1>8. w \in Pulls /\ Lawful(w)
  BY <1>0, <1>7, SameShard DEF Pulls, At
<1>9. pull'[p] = w
  BY <1>0, <1>4, <1>8, Turn
<1>10. store' \in [Inodes -> Texts] /\ \A m \in Inodes : m # n => store'[m] = store[m]
  BY <1>0, <1>2, <1>4, <1>5 DEF Disk
<1>11. Disk' /\ OneName'
  BY <1>0, <1>10 DEF Disk, OneName
<1>12. PullTypes'
  BY <1>0, <1>4, <1>8, <1>11, PullKeeps
<1>13. store[n] = pull[p].hash => store'[n] = Append(pull[p].hash, b)
  <2>. SUFFICES ASSUME store[n] = pull[p].hash PROVE store'[n] = Append(pull[p].hash, b)
    OBVIOUS
  <2>1. off = Len(store[n])
    OBVIOUS
  <2>2. store'[n] = WriteAt(store[n], off, b)
    BY <1>0, <1>2, <1>4 DEF Disk
  <2>. QED  BY <1>5, <2>1, <2>2
<1>. QED  BY <1>1, <1>2, <1>7, <1>9, <1>10, <1>12, <1>13

\* What is verified is renamed next, what is not loses its name.
LEMMA VerifyTypes ==
  ASSUME PullTypes, NEW p \in Pullers, Verify(p)
  PROVE  PullTypes'
<1>1. pull[p] \in Streaming /\ UNCHANGED <<catalog, upstream, pinned, final>> /\ Shard(p) \in Names /\ Reclaim
  BY PullParts DEF Verify, At
<1>2. part' = [part EXCEPT ![Shard(p)] = 0] \/ part' = part
  BY DEF Verify, RemovePart
<1>3. Disk' /\ OneName'
  BY <1>1, <1>2, NameGone
<1>4. CASE Fail(p)
  BY <1>1, <1>3, <1>4, PullParts, PullKeeps DEF Fail
<1>. DEFINE w == [pc |-> "rename", verb |-> pull[p].verb, entry |-> Entry(p), at |-> pull[p].at]
<1>5. CASE Goes(p, w)
  <2>1. w \in Pulls /\ w.pc = "rename" /\ w.entry = Entry(p) /\ w.at = pull[p].at
    BY <1>1 DEF Plain, Streaming, Pulls, Entry
  <2>. HIDE DEF w
  <2>2. Lawful(w)
    BY <2>1, SameShard DEF Verify, At
  <2>. QED  BY <1>1, <1>3, <1>5, <2>1, <2>2, PullKeeps
<1>. QED  BY <1>4, <1>5 DEF Verify

\* The inode goes from one name to the other.
LEMMA RenameTypes ==
  ASSUME PullTypes, NEW p \in Pullers, RenamePart(p)
  PROVE  PullTypes'
<1>. DEFINE s == Shard(p)
            w == [pull[p] EXCEPT !.pc = "shard", !.at = @ + 1]
<1>1. pull[p] \in Plain /\ UNCHANGED <<catalog, upstream, pinned>> /\ s \in Names /\ Reclaim /\ Disk /\ OneName
  BY PullParts DEF RenamePart, At, PullTypes
<1>. HIDE DEF s
<1>2. CASE RemovePart(p) /\ Fail(p) /\ UNCHANGED final
  <2>1. Disk' /\ OneName'
    BY <1>1, <1>2, NameGone DEF RemovePart, s
  <2>. QED  BY <1>1, <1>2, <2>1, PullParts, PullKeeps DEF Fail
<1>3. CASE Exists(part, s) /\ final' = [final EXCEPT ![s] = part[s]] /\ RemovePart(p) /\ Goes(p, w)
  <2>1. part' = [part EXCEPT ![s] = 0] /\ part[s] # 0
    BY <1>3 DEF RemovePart, Exists, s
  <2>2. part' \in [Names -> Inodes \cup {0}] /\ final' \in [Names -> Inodes \cup {0}]
    BY <1>1, <1>3, <2>1 DEF Disk
  <2>3. OneName'
    BY <1>1, <1>3, <2>1 DEF OneName, Disk
  <2>4. Disk'
    BY <1>1, <2>2, Reclaimed DEF Disk
  <2>5. w \in Plain /\ w.pc = "shard" /\ w.entry = Entry(p) /\ w.at = pull[p].at + 1
    <3>1. pull[p].at \in DOMAIN Shards
      BY PullParts DEF RenamePart, At
    <3>2. pull[p].at + 1 \in Numbers
      BY <3>1, PullFacts DEF Numbers
    <3>. QED  BY <1>1, <3>2 DEF Plain, Entry
  <2>6. Lawful(w)
    <3>. DEFINE l == Len(AllShards(Entry(p)))
    <3>1. Lawful(pull[p]) /\ pull[p].pc = "rename" /\ pull[p].at \in Numbers /\ pull[p].entry = Entry(p)
      BY <1>1, PullParts DEF RenamePart, At, Plain, Entry
    <3>2. l \in Nat /\ pull[p].at <= l /\ ValidSidecars(Entry(p)) /\ Entry(p).rev \in pinned
      BY <3>1, EntryShards DEF Lawful
    <3>3. w.at <= l + 1
      <4>. HIDE DEF l, w
      <4>. QED  BY <2>5, <3>1, <3>2 DEF Numbers
    <3>. HIDE DEF w
    <3>. QED  BY <2>5, <3>2, <3>3 DEF Lawful
  <2>. HIDE DEF w
  <2>. QED  BY <1>1, <1>3, <2>3, <2>4, <2>5, <2>6, PullKeeps DEF Pulls
<1>. QED  BY <1>2, <1>3 DEF RenamePart, s

\* A pull ends, or is cut.
LEMMA EndTypes ==
  ASSUME PullTypes, NEW p \in Pullers, VerifyGeometry(p) \/ Cut(p) \/ Die(p)
  PROVE  PullTypes' /\ pull'[p] = Idle /\ UNCHANGED <<catalog, upstream, disk, pinned>>
<1>1. Goes(p, Idle) /\ UNCHANGED <<catalog, upstream, disk, pinned>>
  BY DEF VerifyGeometry, Cut, Die, Done, Fail, ghosts
<1>. QED  BY <1>1, DiskKept, PullParts, PullKeeps, Turn

\* What a verb loads is an entry there is, with its sidecar's files if it has one.
LEMMA Loaded ==
  ASSUME PullTypes
  PROVE  Load \in Entries /\ ValidSidecars(Load) /\ Load.rev \in pinned
BY SeedAssumption DEF PullTypes, Load

\* A pull begins at the first shard of the entry that is loaded.
LEMMA StartTypes ==
  ASSUME PullTypes, NEW p \in Pullers, NEW verb \in Verbs, Start(p, verb)
  PROVE  PullTypes'
<1>. DEFINE w == [pc |-> "shard", verb |-> verb, entry |-> Load, at |-> 1]
<1>1. UNCHANGED <<catalog, upstream, pinned>> /\ Disk' /\ OneName'
  BY DiskKept DEF Start
<1>2. Goes(p, Idle) \/ Goes(p, w)
  BY DEF Start, Done
<1>3. w \in Plain
  <2>1. 1 \in Numbers
    BY PullFacts DEF Numbers
  <2>. QED  BY <2>1, Loaded DEF Plain
<1>4. Lawful(w)
  <2>. DEFINE l == Len(AllShards(Load))
  <2>1. l \in Nat
    BY EntryShards
  <2>2. w.pc = "shard" /\ w.entry = Load /\ w.at = 1 /\ 1 <= l + 1
    BY <2>1
  <2>. HIDE DEF w
  <2>. QED  BY <2>2, Loaded DEF Lawful
<1>. HIDE DEF w
<1>. QED  BY <1>1, <1>2, <1>3, <1>4, PullParts, PullKeeps DEF Pulls

\* Another upload, another catalog.
LEMMA EditTypes ==
  ASSUME PullTypes, (\E s \in Names : Reupload(s)) \/ NewCatalog
  PROVE  PullTypes' /\ UNCHANGED <<disk, pull, pulled, serving>> /\ pinned \subseteq pinned'
<1>1. CASE \E s \in Names : Reupload(s)
  <2>1. PICK s \in Names : Reupload(s)
    BY <1>1
  <2>2. upstream' \in [Names -> Revs]
    BY <2>1 DEF Reupload, PullTypes
  <2>3. UNCHANGED <<catalog, disk, pull, ghosts>>
    BY <2>1 DEF Reupload
  <2>. QED  BY <2>2, <2>3 DEF PullTypes, Disk, OneName, disk, ghosts, Load, Lawful
<1>2. CASE NewCatalog
  <2>1. PICK e \in Entries, flawed \in BOOLEAN : catalog' = [entry |-> e, flawed |-> flawed]
    BY <1>2 DEF NewCatalog
  <2>2. catalog' \in [entry : Entries, flawed : BOOLEAN]
    BY <2>1
  <2>3. Load' \in Entries
    BY <2>2, SeedAssumption DEF Load
  <2>4. pinned' = pinned \cup {Load'.rev} /\ UNCHANGED <<upstream, disk, pull, pulled, serving>>
    BY <1>2 DEF NewCatalog
  <2>5. Load'.rev \in Revs
    BY <2>3, PullAssumption
  <2>6. pinned' \subseteq Revs /\ (Load.rev \in pinned)'
    BY <2>4, <2>5 DEF PullTypes
  <2>7. \A p \in Pullers : Lawful(pull[p])'
    BY <2>4 DEF PullTypes, Lawful
  <2>8. Disk' /\ OneName'
    BY <2>4, DiskKept
  <2>. QED  BY <2>2, <2>4, <2>6, <2>7, <2>8 DEF PullTypes
<1>. QED  BY <1>1, <1>2

\* The types hold at first and through every step.
LEMMA PullTypesInit == Init => PullTypes
<1>. SUFFICES ASSUME Init PROVE PullTypes
  OBVIOUS
<1>1. Load \in Entries /\ Load.rev \in Revs /\ catalog \in [entry : Entries, flawed : BOOLEAN]
  <2>1. catalog = [entry |-> Seed, flawed |-> FALSE]
    BY DEF Init
  <2>2. catalog \in [entry : Entries, flawed : BOOLEAN] /\ Load \in Entries
    BY <2>1, SeedAssumption DEF Load
  <2>. QED  BY <2>2, PullAssumption
<1>2. Disk /\ OneName
  BY DEF Init, Disk, OneName, Texts
<1>3. pull \in [Pullers -> Pulls] /\ \A p \in Pullers : Lawful(pull[p])
  BY DEF Init, Pulls, Idle, Lawful
<1>. QED  BY <1>1, <1>2, <1>3 DEF Init, PullTypes

\* However many pull at once.
LEMMA PullTypesStep == PullTypes /\ [Next]_vars => PullTypes'
<1>. SUFFICES ASSUME PullTypes, [Next]_vars PROVE PullTypes'
  OBVIOUS
<1>1. CASE UNCHANGED vars
  BY <1>1 DEF vars, disk, ghosts, PullTypes, Disk, OneName, Load, Lawful
<1>2. ASSUME NEW p \in Pullers, NEW v \in Verbs, Start(p, v) PROVE PullTypes'
  BY <1>2, StartTypes
<1>3. ASSUME NEW p \in Pullers, Step(p) PROVE PullTypes'
  BY <1>3, TakeShardTypes, HeadVerifyTypes, SeedHashTypes, GetTypes, StreamTypes, VerifyTypes, RenameTypes, EndTypes
     DEF Step
<1>4. ASSUME NEW p \in Pullers, Cut(p) \/ Die(p) PROVE PullTypes'
  BY <1>4, EndTypes
<1>. QED  BY <1>1, <1>2, <1>3, <1>4, EditTypes DEF Next

\* Inodes have one name and a puller's record is of its shard, for any number of pulls of
\* one model at once (internal/download, the .part and the rename).
THEOREM PullTyped == Spec => []TypeOK
<1>1. PullTypes => TypeOK
  <2>. SUFFICES ASSUME PullTypes PROVE TypeOK
    OBVIOUS
  <2>1. catalog.entry \in Entries /\ catalog.flawed \in BOOLEAN /\ upstream \in [Names -> Revs] /\ pinned \subseteq Revs
    BY DEF PullTypes
  <2>2. \A n \in Inodes : \A i \in DOMAIN store[n] : store[n][i] \in Revs \cup {0}
    BY DEF PullTypes, Disk, Texts
  <2>3. \A f \in {part, final} : f \in [Names -> Inodes \cup {0}]
    BY DEF PullTypes, Disk
  <2>4. \A s, t \in Names :
          /\ Exists(part, s) => part[s] # final[t] /\ (part[s] = part[t] => s = t)
          /\ Exists(final, s) /\ final[s] = final[t] => s = t
    BY DEF PullTypes, OneName, Exists
  <2>5. \A p \in Pullers : Running(p) => pull[p].verb \in Verbs /\ pull[p].at \in 1 .. Len(Shards) + 1
    BY PullParts DEF Numbers
  <2>. QED  BY <2>1, <2>2, <2>3, <2>4, <2>5 DEF TypeOK
<1>. QED  BY <1>1, PullTypesInit, PullTypesStep, PTL DEF Spec

----------------------------------------------------------------------------
(* One pull at a time                                                      *)

\* The .part is what went through the hash, and is whole when it is renamed; the shards
\* behind the pull are there.
Fetching(p) ==
  /\ Running(p) => \A i \in DOMAIN Shards : i < pull[p].at => final[Shards[i]] # 0
  /\ At(p, "get") => pull[p].hash = Bytes(part, Shard(p))
  /\ At(p, "stream") => part[Shard(p)] = pull[p].ino /\ store[pull[p].ino] = pull[p].hash
  /\ At(p, "rename") => part[Shard(p)] # 0 /\ Bytes(part, Shard(p)) = Content(Entry(p).rev)
PullInv == PullTypes /\ PulledIsPinned /\ \A p \in Pullers : Fetching(p)
OnePull == \A p, q \in Pullers : p = q

\* A step that leaves the files as they are, and has not got to streaming.
LEMMA FilesKept ==
  ASSUME OnePull, PullInv, PullTypes', UNCHANGED disk, pinned \subseteq pinned',
         NEW p \in Pullers, Fetching(p)'
  PROVE  PullInv'
<1>1. PulledIsPinned'
  BY DEF PullInv, PulledIsPinned, Exists, Bytes, disk
<1>2. \A q \in Pullers : q = p
  BY DEF OnePull
<1>. QED  BY <1>1, <1>2 DEF PullInv

\* A file that has its name keeps its bytes while another file is written to.
LEMMA FinalsKept ==
  ASSUME PullInv, PullTypes', UNCHANGED <<final, pinned>>,
         \A s \in Names : final[s] # 0 => store'[final[s]] = store[final[s]]
  PROVE  PulledIsPinned'
BY DEF PullInv, PulledIsPinned, Exists, Bytes

\* Who pulls nothing owes nothing.
LEMMA IdleFetches ==
  ASSUME NEW p \in Pullers, pull[p] = Idle
  PROVE  Fetching(p)
BY DEF Fetching, Idle, Running, At

\* The steps.
LEMMA TakeShardInv ==
  ASSUME OnePull, PullInv, NEW p \in Pullers, TakeShard(p)
  PROVE  PullInv'
<1>1. PullTypes /\ PullTypes' /\ pull[p] \in Plain /\ pull[p].pc = "shard" /\ Fetching(p) /\ pull[p].at \in Numbers
  BY TakeShardTypes, PullParts DEF PullInv, TakeShard, At, Running
<1>2. UNCHANGED <<disk, pinned>> /\ UNCHANGED <<part, final, store>>
  BY DEF TakeShard, ghosts, disk
<1>3. pull \in [Pullers -> Pulls]
  BY <1>1 DEF PullTypes
<1>. DEFINE a == pull[p].at
<1>4. /\ pull'[p].pc \in {"geometry", "shard", "head"}
      /\ pull'[p].at = a \/ (pull'[p].at = a + 1 /\ Exists(final, Shard(p)))
  <2>1. CASE Goes(p, [pull[p] EXCEPT !.pc = "geometry"])
    BY <1>1, <1>3, <2>1 DEF Goes, Plain
  <2>2. CASE Goes(p, [pull[p] EXCEPT !.at = @ + 1]) /\ OnDisk(p)
    BY <1>1, <1>3, <2>2 DEF Goes, Plain, OnDisk
  <2>3. CASE Goes(p, [pull[p] EXCEPT !.pc = "head"])
    BY <1>1, <1>3, <2>3 DEF Goes, Plain
  <2>. QED  BY <2>1, <2>2, <2>3 DEF TakeShard
<1>5. Fetching(p)'
  <2>1. ASSUME NEW i \in DOMAIN Shards, i < pull'[p].at PROVE final[Shards[i]] # 0
    <3>1. CASE i < a
      BY <1>1, <3>1 DEF Fetching, Running
    <3>2. CASE i = a /\ Exists(final, Shard(p))
      BY <3>2 DEF Exists, Shard
    <3>. QED  BY <1>1, <1>4, <2>1, <3>1, <3>2, PullFacts DEF Numbers
  <2>. QED  BY <1>2, <1>4, <2>1 DEF Fetching, At
<1>. QED  BY <1>1, <1>2, <1>5, FilesKept

\* The headers touch no file.
LEMMA HeadVerifyInv ==
  ASSUME OnePull, PullInv, NEW p \in Pullers, HeadVerify(p)
  PROVE  PullInv'
<1>1. PullTypes /\ PullTypes' /\ pull[p] \in Plain /\ pull[p].pc = "head" /\ Fetching(p)
  BY HeadVerifyTypes, PullParts DEF PullInv, HeadVerify, At
<1>2. UNCHANGED <<disk, pinned>> /\ UNCHANGED <<part, final, store>>
  BY DEF HeadVerify, disk
<1>3. pull \in [Pullers -> Pulls]
  BY <1>1 DEF PullTypes
<1>4. CASE Fail(p)
  <2>1. pull'[p] = Idle
    BY <1>3, <1>4 DEF Fail, Goes
  <2>2. Fetching(p)'
    BY <2>1 DEF Fetching, Idle, Running, At
  <2>. QED  BY <1>1, <1>2, <2>2, FilesKept
<1>5. CASE Goes(p, [pull[p] EXCEPT !.pc = "seed"])
  <2>1. pull'[p].pc = "seed" /\ pull'[p].at = pull[p].at
    BY <1>1, <1>3, <1>5 DEF Goes, Plain
  <2>2. Fetching(p)'
    BY <1>1, <1>2, <2>1 DEF Fetching, Running, At
  <2>. QED  BY <1>1, <1>2, <2>2, FilesKept
<1>. QED  BY <1>4, <1>5 DEF HeadVerify

\* The hash starts from what the .part holds.
LEMMA SeedHashInv ==
  ASSUME OnePull, PullInv, NEW p \in Pullers, SeedHash(p)
  PROVE  PullInv'
<1>. DEFINE s == Shard(p)
<1>1. PullTypes /\ PullTypes' /\ pull[p] \in Plain /\ pull[p].pc = "seed" /\ Fetching(p) /\ s \in Names
  BY SeedHashTypes, PullParts DEF PullInv, SeedHash, At
<1>2. UNCHANGED <<final, pinned>> /\ Reclaim
  BY DEF SeedHash, ghosts
<1>3. pull \in [Pullers -> Pulls] /\ part \in [Names -> Inodes \cup {0}]
  BY <1>1 DEF PullTypes, Disk
<1>4. \A n \in Inodes : n \in Used' => store'[n] = store[n]
  BY <1>1, <1>2, Reclaimed DEF PullTypes, Disk
<1>5. PICK h \in {Bytes(part, s), <<>>} :
        /\ Goes(p, [pc |-> "get", verb |-> pull[p].verb, entry |-> Entry(p), at |-> pull[p].at, hash |-> h])
        /\ (h = Bytes(part, s) /\ UNCHANGED part) \/ (h = <<>> /\ part' = [part EXCEPT ![s] = 0])
  BY DEF SeedHash
<1>6. pull'[p].pc = "get" /\ pull'[p].at = pull[p].at /\ pull'[p].hash = h
  BY <1>3, <1>5 DEF Goes
<1>7. Shard(p)' = s
  BY <1>6 DEF Shard
<1>8. h = IF part'[s] # 0 THEN store'[part'[s]] ELSE <<>>
  <2>1. CASE h = <<>> /\ part' = [part EXCEPT ![s] = 0]
    BY <1>1, <1>3, <2>1 DEF Bytes, Exists
  <2>2. CASE h = Bytes(part, s) /\ UNCHANGED part
    <3>1. part[s] # 0 => part[s] \in Inodes /\ part[s] \in Used'
      BY <1>1, <2>2, FileBytes DEF Used
    <3>. QED  BY <1>1, <1>4, <2>2, <3>1 DEF Bytes, Exists
  <2>. QED  BY <1>5, <2>1, <2>2
<1>9. Fetching(p)'
  <2>1. h = Bytes(part, Shard(p))'
    BY <1>7, <1>8 DEF Bytes, Exists
  <2>. HIDE DEF s
  <2>. QED  BY <1>1, <1>2, <1>6, <2>1 DEF Fetching, Running, At
<1>10. PulledIsPinned'
  <2>1. \A t \in Names : final[t] # 0 => final[t] \in Inodes /\ final[t] \in Used'
    BY <1>1, <1>2, FileBytes DEF Used
  <2>. QED  BY <1>1, <1>2, <1>4, <2>1, FinalsKept
<1>. QED  BY <1>1, <1>9, <1>10 DEF PullInv, OnePull

\* What a reply will be appended to is what the hash starts from.
LEMMA GetInv ==
  ASSUME OnePull, PullInv, NEW p \in Pullers, Get(p)
  PROVE  PullInv'
<1>. DEFINE s == Shard(p)
            r == upstream[Shard(p)]
            k == Len(pull[p].hash)
<1>1. PullTypes /\ PullTypes' /\ pull[p] \in Getting /\ At(p, "get") /\ Fetching(p) /\ s \in Names
  BY GetTypes, PullParts DEF PullInv, Get, At
<1>2. UNCHANGED <<catalog, upstream, final, pinned>>
  BY DEF Get
<1>3. pull \in [Pullers -> Pulls] /\ r \in Revs /\ pull[p].hash \in Texts /\ k \in Nat
  BY <1>1 DEF PullTypes, Getting, Texts
<1>4. ASSUME NEW body \in Seq(Revs), NEW hash \in Texts, NEW append \in BOOLEAN, Streams(p, body, hash, append),
             hash = IF append /\ part[s] # 0 THEN store[part[s]] ELSE <<>>
      PROVE  PullInv'
  <2>1. /\ part'[s] = pull'[p].ino /\ pull'[p].ino \in Inodes
        /\ \A m \in Inodes : m # pull'[p].ino => store'[m] = store[m]
        /\ \A t \in Names : final[t] # pull'[p].ino
        /\ IF append /\ part[s] # 0 THEN store' = store /\ part' = part ELSE store'[pull'[p].ino] = <<>>
        /\ pull'[p] \in Streaming /\ pull'[p].hash = hash /\ pull'[p].at = pull[p].at
    BY <1>1, <1>2, <1>4, Opened
  <2>2. pull'[p].pc = "stream" /\ Shard(p)' = s
    BY <2>1 DEF Streaming, Shard
  <2>3. store'[pull'[p].ino] = hash
    BY <1>4, <2>1
  <2>4. Fetching(p)'
    BY <1>1, <1>2, <2>1, <2>2, <2>3 DEF Fetching, At, Running
  <2>5. \A t \in Names : final[t] # 0 => store'[final[t]] = store[final[t]]
    BY <1>1, <2>1, FileBytes
  <2>6. PulledIsPinned'
    BY <1>1, <1>2, <2>5, FinalsKept
  <2>. QED  BY <1>1, <2>4, <2>6 DEF PullInv, OnePull
<1>5. CASE GetWhole(p)
  <2>1. Content(r) \in Seq(Revs) /\ <<>> \in Texts
    BY <1>3, Contents DEF Texts
  <2>. QED  BY <1>4, <1>5, <2>1 DEF GetWhole
<1>6. CASE GetRest(p)
  <2>1. k > 0 /\ (\/ k < Size[r] /\ Streams(p, SubSeq(Content(r), k + 1, Size[r]), pull[p].hash, TRUE)
                  \/ Fail(p) /\ UNCHANGED <<store, part>>)
    BY <1>6 DEF GetRest
  <2>2. CASE k < Size[r] /\ Streams(p, SubSeq(Content(r), k + 1, Size[r]), pull[p].hash, TRUE)
    <3>1. SubSeq(Content(r), k + 1, Size[r]) \in Seq(Revs)
      BY <1>3, <2>2, RestOf
    <3>2. pull[p].hash # <<>> /\ pull[p].hash = Bytes(part, s)
      BY <1>1, <2>1 DEF Fetching
    <3>3. part[s] # 0 /\ pull[p].hash = store[part[s]]
      BY <3>2 DEF Bytes, Exists
    <3>. HIDE DEF r, k
    <3>. QED  BY <1>3, <1>4, <2>2, <3>1, <3>3
  <2>3. CASE Fail(p) /\ UNCHANGED <<store, part>>
    <3>1. pull'[p] = Idle
      BY <1>3, <2>3 DEF Fail, Goes
    <3>2. Fetching(p)'
      BY <3>1 DEF Fetching, Idle, Running, At
    <3>3. UNCHANGED disk
      BY <1>2, <2>3 DEF disk
    <3>. QED  BY <1>1, <1>2, <3>2, <3>3, FilesKept
  <2>. QED  BY <2>1, <2>2, <2>3
<1>. QED  BY <1>5, <1>6 DEF Get

\* File and hash take the same block, and no file with its name is this one.
LEMMA StreamInv ==
  ASSUME OnePull, PullInv, NEW p \in Pullers, StreamToPart(p)
  PROVE  PullInv'
<1>. DEFINE n == pull[p].ino
<1>1. PullTypes /\ PullTypes' /\ pull[p] \in Streaming /\ At(p, "stream") /\ Fetching(p) /\ Shard(p) \in Names /\ n \in Inodes
  <2>1. PullTypes /\ PullTypes' /\ At(p, "stream") /\ Fetching(p)
    <3>1. PullTypes /\ Fetching(p)
      BY DEF PullInv
    <3>2. PullTypes'
      BY <3>1, StreamTypes
    <3>3. At(p, "stream")
      BY DEF StreamToPart
    <3>. QED  BY <3>1, <3>2, <3>3
  <2>2. pull[p] \in Streaming /\ Shard(p) \in Names
    BY <2>1, PullParts DEF At
  <2>. QED  BY <2>1, <2>2 DEF Streaming
<1>2. UNCHANGED <<final, part, pinned>>
  BY DEF StreamToPart, ghosts
<1>3. /\ \A m \in Inodes : m # n => store'[m] = store[m]
      /\ pull'[p] \in Streaming /\ pull'[p].ino = n /\ pull'[p].at = pull[p].at
      /\ \E b \in Revs : /\ pull'[p].hash = Append(pull[p].hash, b)
                         /\ store[n] = pull[p].hash => store'[n] = Append(pull[p].hash, b)
  BY <1>1, StreamTypes
<1>4. part[Shard(p)] = n /\ store[n] = pull[p].hash
  BY <1>1 DEF Fetching
<1>5. Shard(p)' = Shard(p) /\ pull'[p].pc = "stream"
  BY <1>3 DEF Shard, Streaming
<1>6. Fetching(p)'
  BY <1>1, <1>2, <1>3, <1>4, <1>5 DEF Fetching, At, Running
<1>7. \A t \in Names : final[t] # 0 => final[t] \in Inodes /\ final[t] # n
  <2>1. 0 \notin Inodes /\ OneName /\ \A t \in Names : final[t] # 0 => final[t] \in Inodes
    BY <1>1, FileBytes DEF PullTypes
  <2>. QED  BY <1>1, <1>4, <2>1 DEF OneName
<1>8. PulledIsPinned'
  BY <1>1, <1>2, <1>3, <1>7, FinalsKept
<1>. QED  BY <1>1, <1>6, <1>8 DEF PullInv, OnePull

\* What is to be renamed is what the hash was compared to.
LEMMA VerifyInv ==
  ASSUME OnePull, PullInv, NEW p \in Pullers, Verify(p)
  PROVE  PullInv'
<1>. DEFINE s == Shard(p)
            w == [pc |-> "rename", verb |-> pull[p].verb, entry |-> Entry(p), at |-> pull[p].at]
<1>1. PullTypes /\ PullTypes' /\ pull[p] \in Streaming /\ At(p, "stream") /\ Fetching(p) /\ s \in Names
  BY VerifyTypes, PullParts DEF PullInv, Verify, At
<1>2. UNCHANGED <<final, pinned>> /\ Reclaim
  BY DEF Verify
<1>3. pull \in [Pullers -> Pulls] /\ \A n \in Inodes : n \in Used' => store'[n] = store[n]
  BY <1>1, <1>2, Reclaimed DEF PullTypes, Disk
<1>4. PulledIsPinned'
  <2>1. \A t \in Names : final[t] # 0 => final[t] \in Inodes /\ final[t] \in Used'
    BY <1>1, <1>2, FileBytes DEF Used
  <2>. QED  BY <1>1, <1>2, <1>3, <2>1, FinalsKept
<1>5. CASE Fail(p)
  <2>1. pull'[p] = Idle
    BY <1>3, <1>5 DEF Fail, Goes
  <2>2. Fetching(p)'
    BY <2>1 DEF Fetching, Idle, Running, At
  <2>. QED  BY <1>1, <1>4, <2>2 DEF PullInv, OnePull
<1>6. CASE Verified(p) /\ Goes(p, w) /\ UNCHANGED part
  <2>1. pull'[p] = w
    BY <1>3, <1>6 DEF Goes
  <2>2. Shard(p)' = s /\ Entry(p)' = Entry(p) /\ pull'[p].pc = "rename" /\ pull'[p].at = pull[p].at
    BY <2>1 DEF Shard, Entry
  <2>. HIDE DEF w
  <2>3. part[s] = pull[p].ino /\ store[part[s]] = Content(Entry(p).rev) /\ part[s] \in Inodes /\ part[s] # 0
    BY <1>1, <1>6, FileBytes DEF Fetching, Verified, Streaming
  <2>4. store'[part[s]] = store[part[s]]
    BY <1>1, <1>3, <1>6, <2>3 DEF Used
  <2>5. Bytes(part, Shard(p))' = Content(Entry(p).rev) /\ (part[Shard(p)] # 0)'
    BY <1>6, <2>2, <2>3, <2>4 DEF Bytes, Exists
  <2>. HIDE DEF s
  <2>6. Fetching(p)'
    BY <1>1, <1>2, <2>2, <2>5 DEF Fetching, At, Running
  <2>. QED  BY <1>1, <1>4, <2>6 DEF PullInv, OnePull
<1>. QED  BY <1>5, <1>6 DEF Verify

\* The file that gets its name is whole, and is the one of the shard.
LEMMA RenameInv ==
  ASSUME OnePull, PullInv, NEW p \in Pullers, RenamePart(p)
  PROVE  PullInv'
<1>. DEFINE s == Shard(p)
            a == pull[p].at
            w == [pull[p] EXCEPT !.pc = "shard", !.at = @ + 1]
<1>1. /\ PullTypes /\ PullTypes' /\ pull[p] \in Plain /\ pull[p].pc = "rename" /\ Fetching(p) /\ s \in Names
      /\ a \in DOMAIN Shards /\ Entry(p).rev \in pinned
  <2>1. PullTypes /\ PullTypes' /\ pull[p].pc = "rename" /\ Fetching(p)
    <3>1. PullTypes /\ Fetching(p)
      BY DEF PullInv
    <3>2. PullTypes'
      BY <3>1, RenameTypes
    <3>3. pull[p].pc = "rename"
      BY DEF RenamePart, At
    <3>. QED  BY <3>1, <3>2, <3>3
  <2>2. pull[p] \in Plain /\ s \in Names /\ a \in DOMAIN Shards /\ Lawful(pull[p])
    BY <2>1, PullParts
  <2>. QED  BY <2>1, <2>2 DEF Lawful, Entry
<1>2. UNCHANGED pinned /\ Reclaim
  BY DEF RenamePart
<1>3. /\ pull \in [Pullers -> Pulls] /\ final \in [Names -> Inodes \cup {0}] /\ part \in [Names -> Inodes \cup {0}]
      /\ \A n \in Inodes : n \in Used' => store'[n] = store[n]
  BY <1>1, <1>2, Reclaimed DEF PullTypes, Disk
<1>4. CASE Fail(p) /\ UNCHANGED final
  <2>1. pull'[p] = Idle
    BY <1>3, <1>4 DEF Fail, Goes
  <2>2. Fetching(p)'
    BY <2>1 DEF Fetching, Idle, Running, At
  <2>3. \A t \in Names : final[t] # 0 => final[t] \in Inodes /\ final[t] \in Used'
    BY <1>1, <1>4, FileBytes DEF Used
  <2>4. PulledIsPinned'
    BY <1>1, <1>2, <1>3, <1>4, <2>3, FinalsKept
  <2>. QED  BY <1>1, <2>2, <2>4 DEF PullInv, OnePull
<1>5. CASE Exists(part, s) /\ final' = [final EXCEPT ![s] = part[s]] /\ Goes(p, w)
  <2>1. pull'[p] = w /\ w.pc = "shard" /\ w.at = a + 1
    BY <1>1, <1>3, <1>5 DEF Goes, Plain
  <2>. HIDE DEF w
  <2>2. part[s] # 0 /\ part[s] \in Inodes /\ store[part[s]] = Content(Entry(p).rev)
    BY <1>1, <1>5, FileBytes DEF Fetching, Exists, At
  <2>3. \A t \in Names : final'[t] = IF t = s THEN part[s] ELSE final[t]
    BY <1>1, <1>3, <1>5
  <2>4. \A t \in Names : final'[t] # 0 => final'[t] \in Inodes /\ store'[final'[t]] = store[final'[t]]
    <3>1. \A t \in Names : final'[t] \in Used'
      BY DEF Used
    <3>. QED  BY <1>1, <1>3, <2>2, <2>3, <3>1
  <2>5. PulledIsPinned'
    <3>. SUFFICES ASSUME NEW t \in Names, final'[t] # 0 PROVE store'[final'[t]] \in {Content(r) : r \in pinned}
      BY <1>2 DEF PulledIsPinned, Exists, Bytes
    <3>1. CASE t = s
      BY <1>1, <2>2, <2>3, <2>4, <3>1
    <3>2. CASE t # s
      <4>1. final[t] # 0 /\ store[final[t]] \in {Content(r) : r \in pinned}
        BY <2>3, <3>2 DEF PullInv, PulledIsPinned, Exists, Bytes
      <4>. QED  BY <2>3, <2>4, <3>2, <4>1
    <3>. QED  BY <3>1, <3>2
  <2>6. ASSUME NEW i \in DOMAIN Shards, i < a + 1 PROVE final'[Shards[i]] # 0
    <3>1. Shards[i] \in Names
      BY PullFacts
    <3>2. CASE i = a
      BY <2>2, <2>3, <3>1, <3>2 DEF Shard
    <3>3. CASE i < a
      BY <1>1, <2>2, <2>3, <3>1, <3>3 DEF Fetching, Running
    <3>. QED  BY <1>1, <2>6, <3>2, <3>3, PullFacts
  <2>7. Fetching(p)'
    BY <2>1, <2>6 DEF Fetching, At, Running
  <2>. QED  BY <1>1, <2>5, <2>7 DEF PullInv, OnePull
<1>. QED  BY <1>4, <1>5 DEF RenamePart

\* An ended pull leaves the files.
LEMMA EndInv ==
  ASSUME OnePull, PullInv, NEW p \in Pullers, VerifyGeometry(p) \/ Cut(p) \/ Die(p)
  PROVE  PullInv'
<1>1. PullTypes' /\ pull'[p] = Idle /\ UNCHANGED <<disk, pinned>>
  BY EndTypes DEF PullInv
<1>2. Fetching(p)'
  BY <1>1 DEF Fetching, Idle, Running, At
<1>. QED  BY <1>1, <1>2, FilesKept

\* Nor does one that begins.
LEMMA StartInv ==
  ASSUME OnePull, PullInv, NEW p \in Pullers, NEW verb \in Verbs, Start(p, verb)
  PROVE  PullInv'
<1>1. PullTypes /\ PullTypes' /\ UNCHANGED <<disk, pinned>>
  BY StartTypes DEF PullInv, Start
<1>2. pull'[p] = Idle \/ pull'[p] = [pc |-> "shard", verb |-> verb, entry |-> Load, at |-> 1]
  BY <1>1 DEF PullTypes, Start, Done, Goes
<1>3. pull'[p].pc = "idle" \/ (pull'[p].pc = "shard" /\ pull'[p].at = 1)
  BY <1>2 DEF Idle
<1>4. \A i \in DOMAIN Shards : ~(i < 1)
  BY PullFacts
<1>5. Fetching(p)'
  BY <1>3, <1>4 DEF Fetching, Running, At
<1>. QED  BY <1>1, <1>5, FilesKept

\* Uploads and catalogs leave the files; what was pinned stays so.
LEMMA EditInv ==
  ASSUME PullInv, (\E s \in Names : Reupload(s)) \/ NewCatalog
  PROVE  PullInv'
<1>1. PullTypes' /\ UNCHANGED <<disk, pull>> /\ pinned \subseteq pinned'
  BY EditTypes DEF PullInv
<1>2. UNCHANGED <<store, part, final>>
  BY <1>1 DEF disk
<1>3. PulledIsPinned'
  BY <1>1, <1>2 DEF PullInv, PulledIsPinned, Exists, Bytes
<1>4. \A p \in Pullers : Fetching(p)'
  BY <1>1, <1>2 DEF PullInv, Fetching, Running, At, Shard, Entry, Bytes, Exists
<1>. QED  BY <1>1, <1>3, <1>4 DEF PullInv

\* The invariant holds at first and through every step.
LEMMA PullInvInit == Init => PullInv
BY PullTypesInit, IdleFetches DEF Init, PullInv, PulledIsPinned, Exists

\* One puller at a time, for which OnePull is needed: two have one .part.
LEMMA PullInvStep == OnePull /\ PullInv /\ [Next]_vars => PullInv'
<1>. SUFFICES ASSUME OnePull, PullInv, [Next]_vars PROVE PullInv'
  OBVIOUS
<1>1. CASE UNCHANGED vars
  <2>1. PullTypes'
    BY <1>1, PullTypesStep DEF PullInv
  <2>2. UNCHANGED <<store, part, final, pull, pinned>>
    BY <1>1 DEF vars, disk, ghosts
  <2>. QED  BY <2>1, <2>2 DEF PullInv, PulledIsPinned, Fetching, Running, At, Shard, Entry, Bytes, Exists
<1>2. ASSUME NEW p \in Pullers, NEW v \in Verbs, Start(p, v) PROVE PullInv'
  BY <1>2, StartInv
<1>3. ASSUME NEW p \in Pullers, Step(p) PROVE PullInv'
  BY <1>3, TakeShardInv, HeadVerifyInv, SeedHashInv, GetInv, StreamInv, VerifyInv, RenameInv, EndInv DEF Step
<1>4. ASSUME NEW p \in Pullers, Cut(p) \/ Die(p) PROVE PullInv'
  BY <1>4, EndInv
<1>. QED  BY <1>1, <1>2, <1>3, <1>4, EditInv DEF Next

\* A file with its final name is whole and of a revision a catalog in use pinned, whatever
\* was cut, resumed or uploaded on the way (internal/download, "the final path appears
\* only after SHA256 + size both verify").  Two pulls of one shard write one .part, so
\* the theorem is of one pull at a time.
THEOREM FilesArePinned ==
  ASSUME OnePull
  PROVE  Spec => []PulledIsPinned
<1>1. PullInv => PulledIsPinned
  BY DEF PullInv
<1>2. PullInv /\ [Next]_vars => PullInv'
  BY PullInvStep
<1>. QED  BY <1>1, <1>2, PullInvInit, PTL DEF Spec

----------------------------------------------------------------------------
(* What is put in service                                                  *)

\* A model has one count of its layers.
LEMMA OneGeometry ==
  ASSUME NEW a, NEW x \in TrueGeometry(a), NEW y \in TrueGeometry(a)
  PROVE  x = y
<1>. DEFINE Agreed(S) == {h \in HeadsOf(a, S) : HeadsOf(a, S) = {h}}
            W == LayersOf(a, "window")
            G == LayersOf(a, "grows")
            Heads == IF W = {} THEN {0} ELSE Agreed(W)
            Row(g, w) ==
              [KVLayers |-> Cardinality(G), HeadCountKV |-> g, KeyLength |-> a.key, SWALayers |-> Cardinality(W), SWAHeadCountKV |-> w,
               SWAKeyLength |-> IF W = {} THEN 0 ELSE a.swaKey, SWAWindow |-> IF W = {} THEN 0 ELSE a.window]
<1>1. TrueGeometry(a) = {Row(g, w) : g \in Agreed(G), w \in Heads}
  BY DEF TrueGeometry
<1>2. \A S : \A g, h \in Agreed(S) : g = h
  OBVIOUS
<1>3. \A g, h \in Heads : g = h
  BY <1>2
<1>. HIDE DEF Row, Agreed, Heads
<1>4. PICK g1 \in Agreed(G), w1 \in Heads : x = Row(g1, w1)
  BY <1>1
<1>5. PICK g2 \in Agreed(G), w2 \in Heads : y = Row(g2, w2)
  BY <1>1
<1>. QED  BY <1>2, <1>3, <1>4, <1>5

\* A verb that found or fetched its files serves them whole: a resident slot has one, any
\* other has the entry's.
LEMMA FoundIsWhole ==
  ASSUME PullInv, Weights = 1, NEW verb \in Verbs, NEW e \in Entries, ValidSidecars(e),
         \/ verb = "resident" /\ final[PrimaryFile] # 0
         \/ \A i \in 1 .. Len(AllShards(e)) : final[Shards[i]] # 0
  PROVE  Whole(Needed(verb, e))
<1>1. \A t \in Names : final[t] # 0 => Exists(final, t) /\ Bytes(final, t) \in {Content(r) : r \in pinned}
  BY DEF PullInv, PulledIsPinned, Exists
<1>. DEFINE l == Len(AllShards(e))
<1>2. /\ l \in Nat /\ l >= 1 /\ l <= Len(Shards)
      /\ e.sidecar => l = Len(Shards)
  BY EntryShards, PullFacts DEF ValidSidecars
<1>3. final[Shards[1]] # 0
  BY <1>2 DEF PrimaryFile
<1>4. {Shards[i] : i \in 1 .. Weights} = {Shards[1]}
  OBVIOUS
<1>5. e.sidecar /\ verb # "resident" => \A t \in Names : final[t] # 0
  BY <1>2, PullFacts DEF Names
<1>6. \A t \in Needed(verb, e) : t \in Names /\ final[t] # 0
  <2>1. Shards[1] \in Names
    BY PullFacts DEF PrimaryFile
  <2>. HIDE DEF l
  <2>2. CASE verb = "resident"
    BY <1>3, <1>4, <2>1, <2>2 DEF Needed
  <2>3. CASE verb = "pull"
    BY <2>3 DEF Needed
  <2>4. CASE verb \notin {"pull", "resident"}
    <3>1. Needed(verb, e) = {Shards[1]} \cup (IF e.sidecar THEN Names ELSE {})
      BY <1>4, <2>4 DEF Needed
    <3>. QED  BY <1>3, <1>5, <2>1, <2>4, <3>1
  <2>. QED  BY <2>2, <2>3, <2>4
<1>. QED  BY <1>1, <1>6 DEF Whole

\* A geometry that the header agrees with is that of the model on disk.
LEMMA HeaderConfirms ==
  ASSUME PullInv, NEW e \in Entries, final[PrimaryFile] # 0, HeaderAgrees(e.geometry, Bytes(final, PrimaryFile))
  PROVE  Confirmed(e) # "otherwise"
<1>. DEFINE f == Bytes(final, PrimaryFile)
            a == Arch[f[1]]
<1>1. CASE e.geometry = NoGeometry
  BY <1>1 DEF Confirmed
<1>2. CASE e.geometry # NoGeometry
  <2>1. PICK r \in pinned : f = Content(r)
    BY PullFacts DEF PullInv, PulledIsPinned, Exists
  <2>2. r \in Revs /\ f[1] = r
    BY <2>1, Contents DEF PullInv, PullTypes
  <2>3. PICK h \in ReadHeader(f) : Geometry(h) = {e.geometry}
    BY <1>2 DEF HeaderAgrees
  <2>4. h = HeaderOf(a) /\ Regular(a)
    BY <2>2, <2>3, PullAssumption DEF ReadHeader
  <2>. HIDE DEF a, f
  <2>5. e.geometry \in TrueGeometry(a)
    BY <2>3, <2>4, ReaderCountsRight
  <2>6. TrueGeometry(a) = {e.geometry}
    BY <2>5, OneGeometry
  <2>. QED  BY <1>2, <2>6 DEF Confirmed, a, f
<1>. QED  BY <1>1, <1>2

ServedInv == serving # "torn" /\ pulled # "otherwise"

\* Only a pull's start and its end put a model in service.
LEMMA ServedStep ==
  ASSUME OnePull, Weights = 1, PullInv, ServedInv, [Next]_vars
  PROVE  ServedInv'
<1>0. PullTypes
  BY DEF PullInv
<1>1. ASSUME NEW p \in Pullers, NEW verb \in Verbs, Start(p, verb) PROVE ServedInv'
  <2>1. ~Running(p) /\ ((Present(verb, Load) /\ Done(p, verb, Load)) \/ UNCHANGED <<pulled, serving>>)
    BY <1>1 DEF Start
  <2>2. CASE Present(verb, Load) /\ Done(p, verb, Load)
    <3>1. pulled' = pulled
      BY <2>1, <2>2 DEF Done
    <3>2. verb # "pull" => serving' = IF Whole(Needed(verb, Load)) THEN "whole" ELSE "torn"
      BY <2>2 DEF Done
    <3>3. verb # "pull"
      BY <2>2 DEF Present
    <3>4. \/ verb = "resident" /\ final[PrimaryFile] # 0
          \/ \A i \in 1 .. Len(AllShards(Load)) : final[Shards[i]] # 0
      BY <2>2, <3>3, EntryShards DEF Present, ModelFilesPresent, FilesIntact, Exists, Verbs
    <3>5. Whole(Needed(verb, Load))
      BY <1>0, <3>4, Loaded, FoundIsWhole
    <3>. QED  BY <3>1, <3>2, <3>3, <3>5 DEF ServedInv
  <2>3. CASE UNCHANGED <<pulled, serving>>
    BY <2>3 DEF ServedInv
  <2>. QED  BY <2>1, <2>2, <2>3
<1>2. ASSUME NEW p \in Pullers, VerifyGeometry(p) PROVE ServedInv'
  <2>. DEFINE e == Entry(p)
              verb == pull[p].verb
  <2>1. e \in Entries /\ verb \in Verbs /\ ValidSidecars(e) /\ pull[p].at > Len(AllShards(e)) /\ Running(p) /\ Fetching(p)
    BY <1>0, <1>2, PullParts DEF VerifyGeometry, At, Running, Lawful, Entry, PullInv
  <2>2. CASE Fail(p)
    BY <2>2 DEF Fail, ServedInv
  <2>3. CASE HeaderAgrees(Declared(verb, e), Bytes(final, PrimaryFile)) /\ Done(p, verb, e)
    <3>. DEFINE l == Len(AllShards(e))
    <3>1. l \in Nat /\ l >= 1 /\ l <= Len(Shards) /\ pull[p].at \in Nat /\ Len(Shards) \in Nat
      <4>1. l \in Nat /\ l >= Weights /\ l <= Len(Shards)
        BY EntryShards
      <4>2. pull[p].at \in Numbers
        BY <1>0, <2>1, PullParts
      <4>. HIDE DEF l
      <4>. QED  BY <4>1, <4>2, PullFacts DEF Numbers
    <3>2. \A i \in 1 .. l : i \in DOMAIN Shards /\ i < pull[p].at
      <4>1. pull[p].at > l
        BY <2>1
      <4>. HIDE DEF l
      <4>. QED  BY <3>1, <4>1, PullFacts
    <3>3. \A i \in 1 .. l : final[Shards[i]] # 0
      BY <2>1, <3>2 DEF Fetching
    <3>4. Whole(Needed(verb, e))
      BY <2>1, <3>3, FoundIsWhole
    <3>5. final[PrimaryFile] # 0
      <4>. HIDE DEF l
      <4>. QED  BY <3>1, <3>3 DEF PrimaryFile
    <3>6. verb # "prestage" => Confirmed(e) # "otherwise"
      BY <2>1, <2>3, <3>5, HeaderConfirms DEF Declared
    <3>7. pulled' # "otherwise"
      BY <2>1, <2>3, <3>6 DEF Done, ServedInv
    <3>8. serving' # "torn"
      BY <2>3, <3>4 DEF Done, ServedInv
    <3>. QED  BY <3>7, <3>8 DEF ServedInv
  <2>. QED  BY <1>2, <2>2, <2>3 DEF VerifyGeometry
<1>3. ASSUME NEW p \in Pullers,
             TakeShard(p) \/ HeadVerify(p) \/ SeedHash(p) \/ Get(p) \/ StreamToPart(p) \/ Verify(p) \/ RenamePart(p)
               \/ Cut(p) \/ Die(p)
      PROVE  ServedInv'
  BY <1>3 DEF TakeShard, HeadVerify, SeedHash, Get, GetWhole, GetRest, StreamToPart, Verify, RenamePart, Cut, Die, Fail,
     ghosts, ServedInv
<1>4. CASE (\E s \in Names : Reupload(s)) \/ NewCatalog
  BY <1>0, <1>4, EditTypes DEF ServedInv
<1>5. CASE UNCHANGED vars
  BY <1>5 DEF vars, ghosts, ServedInv
<1>. QED  BY <1>1, <1>2, <1>3, <1>4, <1>5 DEF Next, Step

\* What villa says of the files it pulled is so, in their bytes, in the files that a served
\* model's unit names, and in the dimensions its fit is computed from (internal/download,
\* internal/gguf, cmd/villa modelFilesPresent).  For one pull at a time, and a model of one
\* file and its sidecar: resident add and coding mode look for the first file only.
THEOREM PullsTrue ==
  ASSUME OnePull, Weights = 1
  PROVE  Spec => []PullsAreTrue
<1>1. ReaderCounts
  BY ReaderCountsRight, PullAssumption DEF ReaderCounts
<1>2. PullInv /\ ServedInv => PullsAreTrue
  BY <1>1 DEF PullInv, ServedInv, PullsAreTrue, ServedIsWhole
<1>3. Init => ServedInv
  BY DEF Init, ServedInv
<1>4. PullInv /\ [Next]_vars => PullInv'
  BY PullInvStep
<1>5. PullInv /\ ServedInv /\ [Next]_vars => ServedInv'
  BY ServedStep
<1>. QED  BY <1>2, <1>3, <1>4, <1>5, PullInvInit, PTL DEF Spec
=============================================================================
