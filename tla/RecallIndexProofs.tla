--------------------------- MODULE RecallIndexProofs ---------------------------
(***************************************************************************)
(* Theorems about RecallIndex, for every finite set of chats, every set of *)
(* models and of embedding models, and every bound on faults and edits:    *)
(* what the state file, `villa recall status` and a complete stamp say of  *)
(* the collection is so.                                                   *)
(*                                                                         *)
(* A run works for a long time on what it read once: a list of chats, its  *)
(* copy of the state, a version it fetched, a file it has uploaded and not *)
(* recorded.  The invariant says of each what is left of it while chats go *)
(* on being written and deleted, and what a cut may leave behind.          *)
(***************************************************************************)
EXTENDS RecallIndex, FiniteSetTheorems, SequenceTheorems, WellFoundedInduction, TLAPS

----------------------------------------------------------------------------
(* Sets of chats in their order                                             *)

\* The least of a set of numbers.
Below == {ss \in Nat \X Nat : ss[1] < ss[2]}
LEMMA BelowWellFounded == IsWellFoundedOn(Below, Nat)
  BY NatLessThanWellFounded, Zenon DEF OpToRel, Below

LEMMA LeastNatural ==
  ASSUME NEW T \in SUBSET Nat, T # {}
  PROVE  \E x \in T : \A y \in T : x <= y
<1>1. PICK x \in T : \A y \in T : <<y, x>> \notin Below
  BY BelowWellFounded, WFMin, Zenon
<1>2. \A y \in T : ~ (y < x)
  BY <1>1 DEF Below
<1>. QED  BY <1>2, SMT

\* What has an order, and everything does.
Ordered(q, S) ==
  /\ q \in [1 .. Cardinality(S) -> S]
  /\ \A i, j \in 1 .. Cardinality(S) : i < j => q[i] < q[j]

\* A set is ordered by putting its least in front of the rest in order.
LEMMA OrderGrows ==
  ASSUME NEW S \in SUBSET Nat, IsFiniteSet(S), NEW m \in S, \A x \in S : m <= x,
         NEW q, Ordered(q, S \ {m})
  PROVE  \E r : Ordered(r, S)
<1>. DEFINE k == Cardinality(S \ {m})
           r == [i \in 1 .. k + 1 |-> IF i = 1 THEN m ELSE q[i - 1]]
<1>1. k \in Nat /\ Cardinality(S) = k + 1
  <2>1. Cardinality(S) \in Nat /\ IsFiniteSet(S \ {m}) /\ k = Cardinality(S) - 1
    BY FS_CardinalityType, FS_RemoveElement
  <2>2. k \in Nat
    BY <2>1, FS_CardinalityType
  <2>. QED  BY <2>1, <2>2
<1>2. /\ q \in [1 .. k -> S \ {m}]
      /\ \A i, j \in 1 .. k : i < j => q[i] < q[j]
  BY DEF Ordered
<1>. HIDE DEF k
<1>3. \A i \in 1 .. k : q[i] \in S /\ q[i] \in Nat /\ m < q[i]
  <2>. TAKE i \in 1 .. k
  <2>1. q[i] \in S \ {m}
    BY <1>2
  <2>2. q[i] \in Nat /\ m \in Nat /\ m <= q[i] /\ q[i] # m
    BY <2>1
  <2>. QED  BY <2>1, <2>2, SMT
<1>4. r \in [1 .. k + 1 -> S]
  <2>. SUFFICES ASSUME NEW i \in 1 .. k + 1 PROVE (IF i = 1 THEN m ELSE q[i - 1]) \in S
    OBVIOUS
  <2>1. CASE i = 1
    BY <2>1
  <2>2. CASE i # 1
    <3>1. i - 1 \in 1 .. k
      BY <1>1, <2>2, SMT
    <3>. QED  BY <1>3, <2>2, <3>1
  <2>. QED  BY <2>1, <2>2
<1>5. ASSUME NEW i \in 1 .. k + 1, NEW j \in 1 .. k + 1, i < j
      PROVE  r[i] < r[j]
  <2>1. j - 1 \in 1 .. k /\ r[j] = q[j - 1]
    BY <1>1, <1>5, SMT
  <2>2. CASE i = 1
    BY <1>3, <2>1, <2>2
  <2>3. CASE i # 1
    <3>1. i - 1 \in 1 .. k /\ r[i] = q[i - 1] /\ i - 1 < j - 1
      BY <1>1, <1>5, <2>3, SMT
    <3>. QED  BY <1>2, <2>1, <3>1
  <2>. QED  BY <2>2, <2>3
<1>6. Ordered(r, S)
  <2>. HIDE DEF r
  <2>. QED  BY <1>1, <1>4, <1>5 DEF Ordered
<1>. QED  BY <1>6

\* So every finite set of numbers has an order: one without, of least size, would not.
LEMMA OrderExists ==
  ASSUME NEW S \in SUBSET Nat, IsFiniteSet(S)
  PROVE  \E q : Ordered(q, S)
<1>. DEFINE Bad == {T \in SUBSET S : ~ \E q : Ordered(q, T)}
           Sizes == {Cardinality(T) : T \in Bad}
<1>1. \A T \in SUBSET S : IsFiniteSet(T) /\ Cardinality(T) \in Nat
  BY FS_Subset, FS_CardinalityType
<1>2. SUFFICES ASSUME Bad # {} PROVE FALSE
  OBVIOUS
<1>3. Sizes \in SUBSET Nat /\ Sizes # {}
  BY <1>1, <1>2
<1>4. PICK n \in Sizes : \A k \in Sizes : n <= k
  <2>. HIDE DEF Sizes
  <2>. QED  BY <1>3, LeastNatural
<1>5. PICK T \in Bad : Cardinality(T) = n
  OBVIOUS
<1>6. T \in SUBSET Nat /\ IsFiniteSet(T) /\ T \in SUBSET S /\ n \in Nat
  BY <1>1, <1>5
<1>7. CASE T = {}
  <2>1. Cardinality(T) = 0
    BY <1>7, FS_EmptySet
  <2>2. Ordered([i \in 1 .. 0 |-> i], T)
    BY <2>1, <1>7, SMT DEF Ordered
  <2>. QED  BY <1>5, <2>2
<1>8. CASE T # {}
  <2>1. PICK m \in T : \A x \in T : m <= x
    BY <1>6, <1>8, LeastNatural
  <2>2. Cardinality(T \ {m}) = n - 1 /\ T \ {m} \in SUBSET S
    BY <1>5, <1>6, <2>1, FS_RemoveElement
  <2>3. T \ {m} \notin Bad
    <3>. SUFFICES ASSUME T \ {m} \in Bad PROVE FALSE
      OBVIOUS
    <3>1. Cardinality(T \ {m}) \in Sizes
      OBVIOUS
    <3>2. n <= n - 1
      BY <1>4, <2>2, <3>1
    <3>. QED  BY <1>6, <3>2, SMT
  <2>4. PICK q : Ordered(q, T \ {m})
    BY <2>2, <2>3
  <2>5. \E r : Ordered(r, T)
    BY <1>6, <2>1, <2>4, OrderGrows
  <2>. QED  BY <1>5, <2>5
<1>. QED  BY <1>7, <1>8

\* The order of a set of chats names each of them, once.
LEMMA InOrderNames ==
  ASSUME NEW S \in SUBSET Chats
  PROVE  /\ InOrder(S) \in Seq(S) /\ Len(InOrder(S)) = Cardinality(S)
         /\ \A i, j \in 1 .. Len(InOrder(S)) : InOrder(S)[i] = InOrder(S)[j] => i = j
         /\ \A c \in S : \E i \in 1 .. Len(InOrder(S)) : InOrder(S)[i] = c
<1>. DEFINE n == Cardinality(S)
           q == InOrder(S)
<1>1. IsFiniteSet(S) /\ S \in SUBSET Nat /\ n \in Nat
  BY RecallAssumption, FS_Subset, FS_CardinalityType DEF RecallAssumption
<1>2. \E r \in [1 .. n -> S] : \A i, j \in 1 .. n : i < j => r[i] < r[j]
  BY <1>1, OrderExists DEF Ordered
<1>3. q \in [1 .. n -> S] /\ \A i, j \in 1 .. n : i < j => q[i] < q[j]
  BY <1>2, Zenon DEF InOrder
<1>. HIDE DEF q, n
<1>4. q \in Seq(S) /\ Len(q) = n
  BY <1>1, <1>3
<1>5. ASSUME NEW i \in 1 .. n, NEW j \in 1 .. n, q[i] = q[j]
      PROVE  i = j
  <2>1. /\ q[i] \in S /\ q[j] \in S
        /\ q[i] \in Nat /\ q[j] \in Nat /\ i \in Nat /\ j \in Nat
    <3>1. q[i] \in S /\ q[j] \in S
      BY <1>3
    <3>2. q[i] \in Nat /\ q[j] \in Nat
      BY <1>1, <3>1, Zenon
    <3>3. i \in Nat /\ j \in Nat
      BY <1>1, SMT
    <3>. QED  BY <3>1, <3>2, <3>3
  <2>2. ~(i < j) /\ ~(j < i)
    BY <1>3, <1>5, <2>1, SMT
  <2>. QED  BY <2>1, <2>2, SMT
<1>6. q \in Injection(1 .. n, S)
  BY <1>3, <1>5 DEF Injection, IsInjective
<1>7. Cardinality(1 .. n) = n
  BY <1>1, FS_Interval, SMT
<1>8. q \in Surjection(1 .. n, S)
  BY <1>1, <1>6, <1>7, FS_Injection DEF n
<1>. QED  BY <1>4, <1>5, <1>8 DEF Surjection, q, n

\* A list of work is made of that work, and names each of those chats once.
Item == [kind : {"delete", "update", "add"}, chat : Chats]
Names(s, G, S) ==
  /\ s \in Seq(G)
  /\ \A i \in 1 .. Len(s) : s[i].chat \in S
  /\ \A i, j \in 1 .. Len(s) : s[i].chat = s[j].chat => i = j
  /\ \A c \in S : \E i \in 1 .. Len(s) : s[i].chat = c

LEMMA WorkNames ==
  ASSUME NEW kind \in {"delete", "update", "add"}, NEW S \in SUBSET Chats,
         NEW G, \A c \in S : [kind |-> kind, chat |-> c] \in G
  PROVE  Names(Work(kind, S), G, S)
<1>. DEFINE q == InOrder(S)
           n == Len(q)
           s == [i \in 1 .. n |-> [kind |-> kind, chat |-> q[i]]]
<1>1. /\ q \in Seq(S) /\ n \in Nat /\ DOMAIN q = 1 .. n
      /\ \A i, j \in 1 .. n : q[i] = q[j] => i = j
      /\ \A c \in S : \E i \in 1 .. n : q[i] = c
  BY InOrderNames, LenProperties
<1>2. Work(kind, S) = s
  BY <1>1 DEF Work
<1>. HIDE DEF q, n
<1>3. \A i \in 1 .. n : q[i] \in S
  BY <1>1, ElementOfSeq DEF n
<1>4. s \in [1 .. n -> G]
  BY <1>3
<1>5. s \in Seq(G) /\ Len(s) = n
  BY <1>1, <1>4
<1>6. \A i \in 1 .. n : s[i].chat = q[i]
  OBVIOUS
<1>. HIDE DEF s
<1>. QED  BY <1>1, <1>2, <1>3, <1>5, <1>6 DEF Names

LEMMA JoinedNames ==
  ASSUME NEW G, NEW S, NEW T, S \cap T = {}, NEW s, Names(s, G, S), NEW t, Names(t, G, T)
  PROVE  Names(s \o t, G, S \cup T)
<1>. DEFINE a == Len(s)
           b == Len(t)
           r == s \o t
<1>0. s \in Seq(G) /\ t \in Seq(G)
  BY DEF Names
<1>1. /\ a \in Nat /\ b \in Nat /\ r \in Seq(G) /\ Len(r) = a + b
      /\ \A i \in 1 .. a + b : r[i] = IF i <= a THEN s[i] ELSE t[i - a]
  BY <1>0, ConcatProperties, LenProperties
<1>2. /\ \A i \in 1 .. a : s[i].chat \in S
      /\ \A i, j \in 1 .. a : s[i].chat = s[j].chat => i = j
      /\ \A c \in S : \E i \in 1 .. a : s[i].chat = c
      /\ \A i \in 1 .. b : t[i].chat \in T
      /\ \A i, j \in 1 .. b : t[i].chat = t[j].chat => i = j
      /\ \A c \in T : \E i \in 1 .. b : t[i].chat = c
  BY DEF Names
<1>. HIDE DEF a, b, r
<1>3. \A i \in 1 .. a : i \in 1 .. a + b /\ r[i] = s[i]
  BY <1>1
<1>4. \A i \in 1 .. b : a + i \in 1 .. a + b /\ r[a + i] = t[i]
  <2>. TAKE i \in 1 .. b
  <2>1. a + i \in 1 .. a + b /\ ~(a + i <= a) /\ (a + i) - a = i
    BY <1>1, SMT
  <2>2. r[a + i] = t[(a + i) - a]
    BY <1>1, <2>1, Zenon
  <2>. QED  BY <2>1, <2>2
<1>5. \A i \in 1 .. a + b :
        \/ i \in 1 .. a /\ r[i] = s[i]
        \/ i - a \in 1 .. b /\ r[i] = t[i - a] /\ i \notin 1 .. a
  <2>. TAKE i \in 1 .. a + b
  <2>1. CASE i <= a
    BY <1>1, <2>1
  <2>2. CASE ~(i <= a)
    <3>1. i - a \in 1 .. b /\ i \notin 1 .. a
      BY <1>1, <2>2, SMT
    <3>. QED  BY <1>1, <2>2, <3>1, Zenon
  <2>. QED  BY <2>1, <2>2
<1>6. ASSUME NEW i \in 1 .. a + b, NEW j \in 1 .. a + b, r[i].chat = r[j].chat
      PROVE  i = j
  <2>1. CASE i \in 1 .. a /\ j \in 1 .. a
    BY <1>2, <1>3, <1>6, <2>1
  <2>2. CASE i \notin 1 .. a /\ j \notin 1 .. a
    <3>1. i - a \in 1 .. b /\ j - a \in 1 .. b /\ t[i - a].chat = t[j - a].chat
      BY <1>5, <1>6, <2>2
    <3>2. i - a = j - a
      BY <1>2, <3>1
    <3>. QED  BY <1>1, <3>2, SMT
  <2>3. CASE i \in 1 .. a /\ j \notin 1 .. a
    BY <1>2, <1>5, <1>6, <2>3
  <2>4. CASE i \notin 1 .. a /\ j \in 1 .. a
    BY <1>2, <1>5, <1>6, <2>4
  <2>. QED  BY <2>1, <2>2, <2>3, <2>4
<1>7. \A i \in 1 .. a + b : r[i].chat \in S \cup T
  BY <1>2, <1>5
<1>8. \A c \in S \cup T : \E i \in 1 .. a + b : r[i].chat = c
  BY <1>2, <1>3, <1>4
<1>. QED  BY <1>1, <1>6, <1>7, <1>8 DEF Names, r

\* The plan of a list and of what is recorded.
Planned(listed, known) ==
  {w \in Item :
     /\ w.kind = "delete" => w.chat \in DOMAIN known \ DOMAIN listed
     /\ w.kind = "update" => w.chat \in Changed(listed, known)
     /\ w.kind = "add" => w.chat \in DOMAIN listed \ DOMAIN known}
Todo(listed, known) ==
  ((DOMAIN known \ DOMAIN listed) \cup Changed(listed, known)) \cup (DOMAIN listed \ DOMAIN known)

\* recall.Plan: every chat to remove, update or add is in the plan once, with its kind.
LEMMA PlanNames ==
  ASSUME NEW listed, DOMAIN listed \in SUBSET Chats, NEW known, DOMAIN known \in SUBSET Chats
  PROVE  Names(Plan(listed, known), Planned(listed, known), Todo(listed, known))
<1>. DEFINE D == DOMAIN known \ DOMAIN listed
           U == Changed(listed, known)
           A == DOMAIN listed \ DOMAIN known
           G == Planned(listed, known)
<1>1. /\ D \in SUBSET Chats /\ U \in SUBSET Chats /\ A \in SUBSET Chats
      /\ D \cap U = {} /\ (D \cup U) \cap A = {}
  BY DEF Changed
<1>2. /\ \A c \in D : [kind |-> "delete", chat |-> c] \in G
      /\ \A c \in U : [kind |-> "update", chat |-> c] \in G
      /\ \A c \in A : [kind |-> "add", chat |-> c] \in G
  BY <1>1 DEF Planned, Item
<1>3. /\ Names(Work("delete", D), G, D) /\ Names(Work("update", U), G, U)
      /\ Names(Work("add", A), G, A)
  <2>. HIDE DEF D, U, A, G
  <2>. QED  BY <1>1, <1>2, WorkNames
<1>. DEFINE w == Work("delete", D) \o Work("update", U)
<1>4. Names(w, G, D \cup U)
  <2>. HIDE DEF D, U, A, G
  <2>. QED  BY <1>1, <1>3, JoinedNames
<1>5. Names(w \o Work("add", A), G, (D \cup U) \cup A)
  <2>. HIDE DEF D, U, A, G, w
  <2>. QED  BY <1>1, <1>3, <1>4, JoinedNames
<1>6. Plan(listed, known) = w \o Work("add", A) /\ Todo(listed, known) = (D \cup U) \cup A
  BY Zenon DEF Plan, Todo
<1>. QED  BY <1>5, <1>6, Zenon

\* Nothing to do.
LEMMA EmptyPlan ==
  ASSUME NEW listed, DOMAIN listed \in SUBSET Chats, NEW known, DOMAIN known \in SUBSET Chats,
         Plan(listed, known) = <<>>
  PROVE  DOMAIN known = DOMAIN listed /\ Changed(listed, known) = {}
<1>. DEFINE p == Plan(listed, known)
<1>0. Names(p, Planned(listed, known), Todo(listed, known)) /\ p = <<>>
  BY PlanNames
<1>1. \A c \in Todo(listed, known) : \E i \in 1 .. Len(p) : p[i].chat = c
  <2>. HIDE DEF p
  <2>. QED  BY <1>0, Zenon DEF Names
<1>2. 1 .. Len(<<>>) = {}
  BY EmptySeq, SMT
<1>3. Todo(listed, known) = {}
  BY <1>0, <1>1, <1>2, Zenon
<1>. QED  BY <1>3 DEF Todo

----------------------------------------------------------------------------
(* Records                                                                  *)

Entry == [file : Nat, at : Nat]
Records == UNION {[D -> Entry] : D \in SUBSET Chats}

LEMMA RecordsAre ==
  ASSUME NEW f
  PROVE  f \in Records <=> DOMAIN f \in SUBSET Chats /\ f \in [DOMAIN f -> Entry]
  BY DEF Records

LEMMA NoRecords ==
  /\ <<>> \in Records /\ DOMAIN <<>> = {}
  /\ \A f \in Records : DOMAIN f = {} => f = <<>>
<1>1. DOMAIN <<>> = {} /\ <<>> \in [{} -> Entry]
  BY SMT
<1>2. ASSUME NEW f \in Records, DOMAIN f = {}
      PROVE  f = <<>>
  <2>1. f \in [1 .. 0 -> Entry]
    BY <1>2, RecordsAre, SMT
  <2>2. f \in Seq(Entry) /\ Len(f) = 0
    BY <2>1, SMT
  <2>. QED  BY <2>2, EmptySeq
<1>. QED  BY <1>1, <1>2, RecordsAre

LEMMA WithRecord ==
  ASSUME NEW f \in Records, NEW c \in Chats, NEW e \in Entry
  PROVE  /\ With(f, c, e) \in Records /\ DOMAIN With(f, c, e) = DOMAIN f \cup {c}
         /\ With(f, c, e)[c] = e
         /\ \A d \in DOMAIN f \ {c} : With(f, c, e)[d] = f[d]
<1>1. DOMAIN f \in SUBSET Chats /\ \A d \in DOMAIN f : f[d] \in Entry
  BY RecordsAre
<1>2. With(f, c, e) \in [DOMAIN f \cup {c} -> Entry]
  BY <1>1 DEF With
<1>. QED  BY <1>1, <1>2, RecordsAre DEF With

LEMMA PartialRecord ==
  ASSUME NEW f \in Records, NEW c
  PROVE  /\ Partial(f, c) \in Records /\ DOMAIN Partial(f, c) = DOMAIN f \ {c}
         /\ \A d \in DOMAIN f \ {c} : Partial(f, c)[d] = f[d]
<1>1. DOMAIN f \in SUBSET Chats /\ \A d \in DOMAIN f : f[d] \in Entry
  BY RecordsAre
<1>2. Partial(f, c) \in [DOMAIN f \ {c} -> Entry]
  BY <1>1 DEF Partial
<1>. QED  BY <1>1, <1>2, RecordsAre DEF Partial

LEMMA ClearedRecord ==
  ASSUME NEW f \in Records, NEW c, NEW e \in Entry
  PROVE  /\ [f EXCEPT ![c] = e] \in Records /\ DOMAIN [f EXCEPT ![c] = e] = DOMAIN f
         /\ c \in DOMAIN f => [f EXCEPT ![c] = e][c] = e
         /\ \A d \in DOMAIN f \ {c} : [f EXCEPT ![c] = e][d] = f[d]
<1>1. DOMAIN f \in SUBSET Chats /\ f \in [DOMAIN f -> Entry]
  BY RecordsAre
<1>2. [f EXCEPT ![c] = e] \in [DOMAIN f -> Entry]
  BY <1>1
<1>. QED  BY <1>1, <1>2, RecordsAre

\* A new file is a new one.
LEMMA NewFileIsNew ==
  ASSUME IsFiniteSet(Used)
  PROVE  NewFile \in Nat /\ NewFile # 0 /\ NewFile \notin Used
<1>. DEFINE k == Cardinality(Used)
<1>1. k \in Nat
  BY FS_CardinalityType
<1>2. \E n \in 1 .. k + 1 : n \notin Used
  <2>. SUFFICES ASSUME 1 .. k + 1 \in SUBSET Used PROVE FALSE
    OBVIOUS
  <2>1. Cardinality(1 .. k + 1) <= k
    BY FS_Subset
  <2>2. Cardinality(1 .. k + 1) = k + 1
    BY <1>1, FS_Interval, SMT
  <2>. QED  BY <1>1, <2>1, <2>2, SMT
<1>3. NewFile \in 1 .. k + 1 /\ NewFile \notin Used
  BY <1>2, Zenon DEF NewFile
<1>. QED  BY <1>1, <1>3, SMT
----------------------------------------------------------------------------
(* The invariant *)

\* What the state file, a run, a file of the collection and a chat are.
State == [kb : Nat, emb : Embeddings \cup {NoEmbedding}, pass : {"never", "partial", "complete"}, chats : Records]
Lists == UNION {[D -> Nat] : D \in SUBSET Chats}

Before == {"reset", "ensure", "begin"}
OnChat == {"removed", "fetch", "skip", "join", "record"}
Working == {"next", "attach", "stamp"} \cup OnChat
During == {"list"} \cup Working
Run == [pc : Before \cup During, st : State, listed : Lists, todo : Seq(Item),
        skipped : SUBSET Chats, at : Nat, file : Nat, model : Models]
FileRec == [id : Nat, chat : Chats, at : Nat, emb : Embeddings]
Chat == [is : {"unborn", "live", "gone"}, at : Nat, text : BOOLEAN]

WorldType ==
  /\ chats \in [Chats -> Chat]
  /\ kb \in [id : Nat, last : Nat, files : SUBSET FileRec]
  /\ attached \subseteq Models \X Nat /\ served \in Models
  /\ {config, embedder} \subseteq Embeddings
  /\ faults \in Nat /\ edits \in 0 .. MaxEdits
  /\ emptied \in BOOLEAN /\ drifted \in BOOLEAN
RunType == disk \in State /\ run \in {Idle} \cup Run

\* Only edits give a chat another version.
ChatsOK == \A c \in Chats : chats[c].at >= 1 /\ chats[c].at <= edits + 1

\* A file of the collection is one version of its chat, and has an id of its own.
Kept ==
  /\ kb.id \in {0, kb.last} /\ (kb.id = 0 => kb.files = {})
  /\ \A f \in kb.files : f.id # 0 /\ f.at >= 1 /\ f.at <= chats[f.chat].at
  /\ \A f, g \in kb.files : f.id = g.id => f = g
Wired == \A a \in attached : a[2] >= 1 /\ a[2] <= kb.last

\* What is recorded of a chat is a version it had, and no two chats share a file.
SoundState(st) ==
  /\ st.kb <= kb.last
  /\ \A c \in DOMAIN st.chats : chats[c].is # "unborn" /\ st.chats[c].at <= chats[c].at
  /\ \A c, d \in DOMAIN st.chats : st.chats[c].file = st.chats[d].file /\ st.chats[c].file # 0 => c = d
Sound == SoundState(disk) /\ (run.pc # "idle" => SoundState(run.st))

\* What is recorded is of a collection and of an embedding model, and while nothing
\* emptied it the collection is the present one.
Bound ==
  /\ disk.kb = 0 => disk.chats = <<>>
  /\ disk.emb = NoEmbedding => disk.chats = <<>>
  /\ ~emptied /\ disk.kb # 0 => disk.kb = kb.id

\* Before the state file is replaced the run's copy has the records of the file, or
\* none; in the second case, past the reset, no file of the collection has a record left.
Prepared == run.pc \in Before =>
  /\ run.st.emb \in Embeddings /\ run.st.pass = "partial"
  /\ run.st.chats = <<>> \/ (run.st.chats = disk.chats /\ disk.emb \in {NoEmbedding, run.st.emb})
  /\ run.pc \in {"reset", "ensure"} => run.st.kb = disk.kb
  /\ run.pc = "reset" => run.st.chats = <<>> /\ run.st.kb # 0
  /\ run.pc \in {"ensure", "begin"} /\ run.st.chats = <<>> => \A f \in kb.files : f.id \in stray
  /\ run.pc = "begin" => run.st.kb # 0 /\ (~emptied => run.st.kb = kb.id)

\* From then on the state file and the run's copy of it are the same, and partial.
Saved == run.pc \in During =>
  disk = run.st /\ run.st.pass = "partial" /\ run.st.kb # 0 /\ run.st.emb \in Embeddings

\* The recorded model is the one that embeds.
Aligned == run.pc # "idle" /\ ~drifted => run.st.emb = embedder

Old(c) == c \in DOMAIN run.st.chats

\* A listed version is one the chat had; it may have a newer one, or be gone.
Listed == run.pc \in Working =>
  \A c \in DOMAIN run.listed : 1 <= run.listed[c] /\ run.listed[c] <= chats[c].at /\ chats[c].is # "unborn"

\* The work that is left fits what is recorded, and takes each chat once.
Chore(w) ==
  /\ w.kind = "delete" => chats[w.chat].is = "gone" /\ w.chat \notin DOMAIN run.listed
  /\ w.kind = "update" => w.chat \in DOMAIN run.listed /\ (Old(w.chat) => run.st.chats[w.chat].at < run.listed[w.chat])
  /\ w.kind = "add" => w.chat \in DOMAIN run.listed /\ ~Old(w.chat)
Chores == run.pc \in Working =>
  /\ \A i \in DOMAIN run.todo : Chore(run.todo[i])
  /\ \A i, j \in DOMAIN run.todo : run.todo[i].chat = run.todo[j].chat => i = j

\* Every listed chat was skipped, is still to do or is in the collection at that
\* version or later; every recorded chat that is not listed is still to do.
Due(c) == \E i \in DOMAIN run.todo : run.todo[i].chat = c
Held(c) == Old(c) /\ \E f \in kb.files : f.id = run.st.chats[c].file /\ f.chat = c /\ f.at >= run.listed[c]
Covered == run.pc \in Working =>
  /\ \A c \in DOMAIN run.st.chats : c \in DOMAIN run.listed \/ Due(c)
  /\ ~emptied => \A c \in DOMAIN run.listed : c \in run.skipped \/ Due(c) \/ Held(c)

\* The chat in hand: its old file is gone before its new one is made, and what was
\* fetched is the listed version or a later one.
InHand ==
  /\ run.pc \in OnChat => run.todo # <<>>
  /\ run.pc \in {"attach", "stamp"} => run.todo = <<>>
  /\ run.pc = "removed" => This.kind # "add" /\ \A f \in kb.files : f.id # Known
  /\ run.pc \in {"fetch", "skip", "join", "record"} => This.kind # "delete" /\ Known = 0
  /\ run.pc \in {"join", "record"} => run.listed[This.chat] <= run.at /\ run.at <= chats[This.chat].at
  /\ run.pc = "stamp" => <<run.model, run.st.kb>> \in attached

\* The file that was uploaded and is not recorded yet.
Uploaded == run.pc = "record" =>
  /\ run.file # 0
  /\ \A c \in DOMAIN run.st.chats : run.st.chats[c].file # run.file
  /\ \A f \in kb.files : f.id = run.file => f.chat = This.chat /\ f.at = run.at /\ (~drifted => f.emb = run.st.emb)
  /\ ~emptied => \E f \in kb.files : f.id = run.file

\* What the state file says is so: the first three parts of StateIsTrue.
Truth ==
  /\ ~emptied => RecordedIsThere
  /\ NothingElse
  /\ ~drifted => OneEmbedding

Types == WorldType /\ RunType
Books == ChatsOK /\ Kept /\ Wired /\ Sound /\ Bound /\ Prepared /\ Saved /\ Aligned
Pass == Listed /\ Chores /\ Covered /\ InHand /\ Uploaded
Indexed == Types /\ Books /\ Pass /\ Truth /\ IsFiniteSet(Used)
----------------------------------------------------------------------------
(* Types                                                                    *)

LEMMA RunIs ==
  ASSUME RunType
  PROVE  /\ run.pc = "idle" <=> run = Idle
         /\ run.pc # "idle" => run \in Run /\ run.pc \in Before \cup During
  BY SMT DEF RunType, Run, Idle, Before, During, Working, OnChat

LEMMA ThisIs ==
  ASSUME run \in Run, run.todo # <<>>
  PROVE  /\ This \in Item /\ This = run.todo[1] /\ 1 \in 1 .. Len(run.todo)
         /\ Tail(run.todo) \in Seq(Item)
         /\ \A i \in 1 .. Len(Tail(run.todo)) : i + 1 \in 1 .. Len(run.todo) /\ Tail(run.todo)[i] = run.todo[i + 1]
         /\ \A i \in 1 .. Len(run.todo) : i = 1 \/
              (i - 1 \in 1 .. Len(Tail(run.todo)) /\ Tail(run.todo)[i - 1] = run.todo[i])
<1>1. run.todo \in Seq(Item)
  BY DEF Run
<1>2. Len(run.todo) \in Nat \ {0}
  BY <1>1, EmptySeq
<1>3. /\ Tail(run.todo) \in Seq(Item) /\ Len(Tail(run.todo)) = Len(run.todo) - 1
      /\ \A i \in 1 .. Len(Tail(run.todo)) : Tail(run.todo)[i] = run.todo[i + 1]
  BY <1>1, HeadTailProperties
<1>4. This = run.todo[1] /\ run.todo[1] \in Item
  <2>1. Head(run.todo) \in Item
    BY <1>1, HeadTailProperties
  <2>2. Head(run.todo) = run.todo[1]
    BY <1>1, <1>2, SMT
  <2>. QED  BY <2>1, <2>2 DEF This
<1>5. \A i \in 1 .. Len(run.todo) : i = 1 \/
              (i - 1 \in 1 .. Len(Tail(run.todo)) /\ Tail(run.todo)[i - 1] = run.todo[i])
  <2>. SUFFICES ASSUME NEW i \in 1 .. Len(run.todo), i # 1
                PROVE  i - 1 \in 1 .. Len(Tail(run.todo)) /\ Tail(run.todo)[i - 1] = run.todo[i]
    OBVIOUS
  <2>1. i - 1 \in 1 .. Len(Tail(run.todo)) /\ (i - 1) + 1 = i
    BY <1>2, <1>3, SMT
  <2>. QED  BY <1>3, <2>1
<1>6. \A i \in 1 .. Len(Tail(run.todo)) : i + 1 \in 1 .. Len(run.todo)
  BY <1>2, <1>3, SMT
<1>. QED  BY <1>2, <1>3, <1>4, <1>5, <1>6

LEMMA ListsAre ==
  ASSUME NEW f
  PROVE  f \in Lists <=> DOMAIN f \in SUBSET Chats /\ f \in [DOMAIN f -> Nat]
  BY DEF Lists

\* The item in hand.
InHandIs == run.todo # <<>> /\ (This.kind # "delete" => This.chat \in DOMAIN run.listed)

LEMMA StatesAre ==
  ASSUME NEW st \in State, run \in Run, run.todo # <<>>
  PROVE  /\ Dropped(st) \in State /\ Dropped(st).chats = Partial(st.chats, This.chat)
         /\ Dropped(st).kb = st.kb /\ Dropped(st).emb = st.emb /\ Dropped(st).pass = st.pass
         /\ Cleared(st) \in State /\ Cleared(st).chats = [st.chats EXCEPT ![This.chat] = [file |-> 0, at |-> 0]]
         /\ Cleared(st).kb = st.kb /\ Cleared(st).emb = st.emb /\ Cleared(st).pass = st.pass
         /\ This.chat \in DOMAIN run.listed =>
              /\ Recorded(st) \in State
              /\ Recorded(st).chats = With(st.chats, This.chat, [file |-> run.file, at |-> run.listed[This.chat]])
              /\ Recorded(st).kb = st.kb /\ Recorded(st).emb = st.emb /\ Recorded(st).pass = st.pass
<1>1. This.chat \in Chats
  BY ThisIs DEF Item
<1>2. st.chats \in Records
  BY DEF State
<1>3. [file |-> 0, at |-> 0] \in Entry
  BY DEF Entry
<1>4. This.chat \in DOMAIN run.listed => [file |-> run.file, at |-> run.listed[This.chat]] \in Entry
  <2>1. run.listed \in [DOMAIN run.listed -> Nat] /\ run.file \in Nat
    BY ListsAre DEF Run
  <2>. QED  BY <2>1 DEF Entry
<1>5. /\ Partial(st.chats, This.chat) \in Records
      /\ [st.chats EXCEPT ![This.chat] = [file |-> 0, at |-> 0]] \in Records
      /\ This.chat \in DOMAIN run.listed =>
           With(st.chats, This.chat, [file |-> run.file, at |-> run.listed[This.chat]]) \in Records
  <2>1. Partial(st.chats, This.chat) \in Records
    BY <1>2, PartialRecord
  <2>2. [st.chats EXCEPT ![This.chat] = [file |-> 0, at |-> 0]] \in Records
    BY <1>2, <1>3, ClearedRecord
  <2>3. This.chat \in DOMAIN run.listed =>
           With(st.chats, This.chat, [file |-> run.file, at |-> run.listed[This.chat]]) \in Records
    BY <1>1, <1>2, <1>4, WithRecord
  <2>. QED  BY <2>1, <2>2, <2>3
<1>6. st = [kb |-> st.kb, emb |-> st.emb, pass |-> st.pass, chats |-> st.chats]
  BY DEF State
<1>7. \A g \in Records : [st EXCEPT !.chats = g] \in State /\ [st EXCEPT !.chats = g].chats = g
         /\ [st EXCEPT !.chats = g].kb = st.kb /\ [st EXCEPT !.chats = g].emb = st.emb /\ [st EXCEPT !.chats = g].pass = st.pass
  BY DEF State
<1>8. Cleared(st) = [st EXCEPT !.chats = [st.chats EXCEPT ![This.chat] = [file |-> 0, at |-> 0]]]
  BY DEF Cleared, State
<1>9. /\ Dropped(st) = [st EXCEPT !.chats = Partial(st.chats, This.chat)]
      /\ Recorded(st) = [st EXCEPT !.chats = With(st.chats, This.chat, [file |-> run.file, at |-> run.listed[This.chat]])]
  BY DEF Dropped, Recorded, State
<1>10. Dropped(st) \in State /\ Dropped(st).chats = Partial(st.chats, This.chat)
         /\ Dropped(st).kb = st.kb /\ Dropped(st).emb = st.emb /\ Dropped(st).pass = st.pass
  <2>. DEFINE g == Partial(st.chats, This.chat)
  <2>1. g \in Records /\ Dropped(st) = [st EXCEPT !.chats = g]
    BY <1>5, <1>9, Zenon
  <2>. HIDE DEF g
  <2>2. /\ Dropped(st) \in State /\ Dropped(st).chats = g
        /\ Dropped(st).kb = st.kb /\ Dropped(st).emb = st.emb /\ Dropped(st).pass = st.pass
    BY <1>7, <2>1
  <2>. QED  BY <2>2 DEF g
<1>11. Cleared(st) \in State /\ Cleared(st).chats = [st.chats EXCEPT ![This.chat] = [file |-> 0, at |-> 0]]
         /\ Cleared(st).kb = st.kb /\ Cleared(st).emb = st.emb /\ Cleared(st).pass = st.pass
  BY <1>5, <1>7, <1>8, Zenon
<1>12. This.chat \in DOMAIN run.listed =>
              /\ Recorded(st) \in State
              /\ Recorded(st).chats = With(st.chats, This.chat, [file |-> run.file, at |-> run.listed[This.chat]])
              /\ Recorded(st).kb = st.kb /\ Recorded(st).emb = st.emb /\ Recorded(st).pass = st.pass
  <2>. DEFINE g == With(st.chats, This.chat, [file |-> run.file, at |-> run.listed[This.chat]])
  <2>1. This.chat \in DOMAIN run.listed => g \in Records
    BY <1>5, Zenon
  <2>2. Recorded(st) = [st EXCEPT !.chats = g]
    BY <1>9, Zenon
  <2>. HIDE DEF g
  <2>3. g \in Records =>
          /\ Recorded(st) \in State /\ Recorded(st).chats = g
          /\ Recorded(st).kb = st.kb /\ Recorded(st).emb = st.emb /\ Recorded(st).pass = st.pass
    BY <1>7, <2>2
  <2>. QED  BY <2>1, <2>3 DEF g
<1>. QED  BY <1>10, <1>11, <1>12, Zenon

----------------------------------------------------------------------------
(* What each step of a run does                                             *)

\* It ends there, or goes on as it was but for what is named.
Ends == run' = Idle
SameHand == run'.at = run.at /\ run'.file = run.file
SameList == run'.listed = run.listed /\ run'.model = run.model
SamePlan == SameList /\ run'.todo = run.todo /\ run'.skipped = run.skipped

LEMMA ThisChore ==
  ASSUME Types, Chores, run.pc \in Working, run.todo # <<>>
  PROVE  run \in Run /\ run.st \in State /\ This \in Item /\ Chore(This)
         /\ (This.kind # "delete" => This.chat \in DOMAIN run.listed)
<1>1. run \in Run
  BY RunIs, SMT DEF Types, Working, OnChat
<1>2. /\ This \in Item /\ This = run.todo[1] /\ 1 \in 1 .. Len(run.todo)
  BY <1>1, ThisIs
<1>3. DOMAIN run.todo = 1 .. Len(run.todo)
  BY <1>1, LenProperties DEF Run
<1>4. Chore(This)
  BY <1>2, <1>3, Zenon DEF Chores
<1>5. This.kind \in {"delete", "update", "add"}
  BY <1>2 DEF Item
<1>6. run.st \in State
  BY <1>1 DEF Run
<1>. QED  BY <1>1, <1>2, <1>4, <1>5, <1>6 DEF Chore

\* A step of a run is one of a run.
LEMMA Running ==
  ASSUME Types, run.pc # "idle"
  PROVE  /\ run \in Run /\ run.st \in State /\ run.pc \in Before \cup During
         /\ run.listed \in Lists /\ run.todo \in Seq(Item)
         /\ \A r \in Run : r # Idle /\ r.pc # "idle"
<1>1. run \in Run /\ run.pc \in Before \cup During
  BY RunIs DEF Types
<1>. QED  BY <1>1, SMT DEF Run, Idle, Before, During, Working, OnChat

\* A run is its fields.
LEMMA RunFields ==
  ASSUME run \in Run
  PROVE  /\ run = [pc |-> run.pc, st |-> run.st, listed |-> run.listed, todo |-> run.todo,
                   skipped |-> run.skipped, at |-> run.at, file |-> run.file, model |-> run.model]
         /\ run.pc \in Before \cup During /\ run.st \in State /\ run.listed \in Lists /\ run.todo \in Seq(Item)
         /\ run.skipped \in SUBSET Chats /\ run.at \in Nat /\ run.file \in Nat /\ run.model \in Models
  BY DEF Run

\* A run goes on with another state, its list, the rest of its work or a version.
ToState(pc, st) == run' = [run EXCEPT !.pc = pc, !.st = st]
ToList(pc, l, w) == run' = [run EXCEPT !.pc = pc, !.listed = l, !.todo = w]
ToRest(pc, st, w) == run' = [run EXCEPT !.pc = pc, !.st = st, !.todo = w]
ToSkip(pc, st, w, k) == run' = [run EXCEPT !.pc = pc, !.st = st, !.todo = w, !.skipped = k]
ToVersion(pc, v) == run' = [run EXCEPT !.pc = pc, !.at = v]
ToFile(pc, v) == run' = [run EXCEPT !.pc = pc, !.file = v]
ToModel(pc, m) == run' = [run EXCEPT !.pc = pc, !.model = m]
ToPlace(pc) == run' = [run EXCEPT !.pc = pc]

\* The forms of a record that goes on: only what is named changes.
LEMMA ToStateIs ==
  ASSUME run \in Run, NEW pc \in During \cup Before, NEW st \in State, ToState(pc, st)
  PROVE  run' \in Run /\ run'.pc = pc /\ run'.st = st /\ SamePlan /\ SameHand
<1>1. run' = [pc |-> pc, st |-> st, listed |-> run.listed, todo |-> run.todo,
              skipped |-> run.skipped, at |-> run.at, file |-> run.file, model |-> run.model]
  BY RunFields DEF ToState
<1>2. run' \in Run
  BY <1>1, RunFields DEF Run
<1>. QED  BY <1>1, <1>2 DEF SameHand, SameList, SamePlan

LEMMA ToListIs ==
  ASSUME run \in Run, NEW pc \in During \cup Before, NEW l \in Lists, NEW w \in Seq(Item), ToList(pc, l, w)
  PROVE  run' \in Run /\ run'.pc = pc /\ run'.listed = l /\ run'.todo = w /\ run'.st = run.st /\ run'.skipped = run.skipped
         /\ run'.model = run.model /\ SameHand
<1>1. run' = [pc |-> pc, st |-> run.st, listed |-> l, todo |-> w,
              skipped |-> run.skipped, at |-> run.at, file |-> run.file, model |-> run.model]
  BY RunFields DEF ToList
<1>2. run' \in Run
  BY <1>1, RunFields DEF Run
<1>. QED  BY <1>1, <1>2 DEF SameHand, SameList, SamePlan

LEMMA ToRestIs ==
  ASSUME run \in Run, NEW pc \in During \cup Before, NEW st \in State, NEW w \in Seq(Item), ToRest(pc, st, w)
  PROVE  run' \in Run /\ run'.pc = pc /\ run'.st = st /\ run'.todo = w /\ run'.skipped = run.skipped /\ SameList /\ SameHand
<1>1. run' = [pc |-> pc, st |-> st, listed |-> run.listed, todo |-> w,
              skipped |-> run.skipped, at |-> run.at, file |-> run.file, model |-> run.model]
  BY RunFields DEF ToRest
<1>2. run' \in Run
  BY <1>1, RunFields DEF Run
<1>. QED  BY <1>1, <1>2 DEF SameHand, SameList, SamePlan

LEMMA ToSkipIs ==
  ASSUME run \in Run, NEW pc \in During \cup Before, NEW st \in State, NEW w \in Seq(Item), NEW k \in SUBSET Chats, ToSkip(pc, st, w, k)
  PROVE  run' \in Run /\ run'.pc = pc /\ run'.st = st /\ run'.todo = w /\ run'.skipped = k /\ SameList /\ SameHand
<1>1. run' = [pc |-> pc, st |-> st, listed |-> run.listed, todo |-> w,
              skipped |-> k, at |-> run.at, file |-> run.file, model |-> run.model]
  BY RunFields DEF ToSkip
<1>2. run' \in Run
  BY <1>1, RunFields DEF Run
<1>. QED  BY <1>1, <1>2 DEF SameHand, SameList, SamePlan

LEMMA ToVersionIs ==
  ASSUME run \in Run, NEW pc \in During \cup Before, NEW v \in Nat, ToVersion(pc, v)
  PROVE  run' \in Run /\ run'.pc = pc /\ run'.at = v /\ run'.st = run.st /\ SamePlan /\ run'.file = run.file
<1>1. run' = [pc |-> pc, st |-> run.st, listed |-> run.listed, todo |-> run.todo,
              skipped |-> run.skipped, at |-> v, file |-> run.file, model |-> run.model]
  BY RunFields DEF ToVersion
<1>2. run' \in Run
  BY <1>1, RunFields DEF Run
<1>. QED  BY <1>1, <1>2 DEF SameHand, SameList, SamePlan

LEMMA ToFileIs ==
  ASSUME run \in Run, NEW pc \in During \cup Before, NEW v \in Nat, ToFile(pc, v)
  PROVE  run' \in Run /\ run'.pc = pc /\ run'.file = v /\ run'.st = run.st /\ SamePlan /\ run'.at = run.at
<1>1. run' = [pc |-> pc, st |-> run.st, listed |-> run.listed, todo |-> run.todo,
              skipped |-> run.skipped, at |-> run.at, file |-> v, model |-> run.model]
  BY RunFields DEF ToFile
<1>2. run' \in Run
  BY <1>1, RunFields DEF Run
<1>. QED  BY <1>1, <1>2 DEF SameHand, SameList, SamePlan

LEMMA ToModelIs ==
  ASSUME run \in Run, NEW pc \in During \cup Before, NEW m \in Models, ToModel(pc, m)
  PROVE  run' \in Run /\ run'.pc = pc /\ run'.model = m /\ run'.st = run.st /\ run'.listed = run.listed /\ run'.todo = run.todo
         /\ run'.skipped = run.skipped /\ SameHand
<1>1. run' = [pc |-> pc, st |-> run.st, listed |-> run.listed, todo |-> run.todo,
              skipped |-> run.skipped, at |-> run.at, file |-> run.file, model |-> m]
  BY RunFields DEF ToModel
<1>2. run' \in Run
  BY <1>1, RunFields DEF Run
<1>. QED  BY <1>1, <1>2 DEF SameHand, SameList, SamePlan

LEMMA ToPlaceIs ==
  ASSUME run \in Run, NEW pc \in During \cup Before, ToPlace(pc)
  PROVE  run' \in Run /\ run'.pc = pc /\ run'.st = run.st /\ SamePlan /\ SameHand
<1>1. run' = [pc |-> pc, st |-> run.st, listed |-> run.listed, todo |-> run.todo,
              skipped |-> run.skipped, at |-> run.at, file |-> run.file, model |-> run.model]
  BY RunFields DEF ToPlace
<1>2. run' \in Run
  BY <1>1, RunFields DEF Run
<1>. QED  BY <1>1, <1>2 DEF SameHand, SameList, SamePlan

\* The steps of a run, one by one.
LEMMA ResetIs ==
  ASSUME Types, ResetKnowledge
  PROVE  /\ run.pc = "reset" /\ run \in Run
         /\ disk' = disk /\ chats' = chats /\ attached' = attached /\ host' = host /\ edits' = edits /\ drifted' = drifted
         /\ kb'.id = kb.id /\ kb'.last = kb.last
         /\ \/ /\ kb' = [kb EXCEPT !.files = {}] /\ kb'.files = {} /\ emptied' /\ stray' = {}
               /\ Ends \/ (run' \in Run /\ run'.pc = "ensure" /\ run'.st = run.st /\ SamePlan /\ SameHand)
            \/ kb' = kb /\ emptied' = emptied /\ stray' = stray /\ Ends
<1>1. run.pc = "reset"
  BY DEF ResetKnowledge, At
<1>2. run \in Run /\ run.st \in State
  BY <1>1, Running
<1>3. ToPlace("ensure") => run' \in Run /\ run'.pc = "ensure" /\ run'.st = run.st /\ SamePlan /\ SameHand
  BY <1>2, ToPlaceIs DEF Before
<1>4. kb = [id |-> kb.id, last |-> kb.last, files |-> kb.files]
  BY DEF Types, WorldType
<1>. QED  BY <1>1, <1>2, <1>3, <1>4, SMT DEF ResetKnowledge, host, Goes, Then, Fails, Ends, ToPlace

LEMMA EnsureIs ==
  ASSUME Types, EnsureKnowledge
  PROVE  /\ run.pc = "ensure" /\ run \in Run
         /\ disk' = disk /\ chats' = chats /\ attached' = attached /\ host' = host /\ edits' = edits /\ drifted' = drifted
         /\ emptied' = emptied /\ stray' = stray
         /\ kb'.id \in Nat /\ kb'.last \in Nat
         /\ kb.id # 0 => kb' = kb
         /\ kb.id = 0 => kb' = [id |-> kb.last + 1, last |-> kb.last + 1, files |-> {}]
         /\ Ends \/ (/\ run' \in Run /\ run'.pc = "begin" /\ SamePlan /\ SameHand
                     /\ run'.st \in State /\ run'.st = [run.st EXCEPT !.kb = kb'.id]
                     /\ run'.st.kb = kb'.id /\ run'.st.emb = run.st.emb
                     /\ run'.st.chats = run.st.chats /\ run'.st.pass = run.st.pass)
<1>1. run.pc = "ensure"
  BY DEF EnsureKnowledge, At
<1>2. run \in Run /\ run.st \in State
  BY <1>1, Running
<1>3. kb.id \in Nat /\ kb.last \in Nat
  BY DEF Types, WorldType
<1>4. kb' = IF kb.id # 0 THEN kb ELSE [id |-> kb.last + 1, last |-> kb.last + 1, files |-> {}]
  BY DEF EnsureKnowledge
<1>5. kb'.id \in Nat /\ kb'.last \in Nat
  BY <1>3, <1>4
<1>. DEFINE st == [run.st EXCEPT !.kb = kb'.id]
<1>6. /\ st \in State /\ st.kb = kb'.id /\ st.emb = run.st.emb
      /\ st.chats = run.st.chats /\ st.pass = run.st.pass
  BY <1>2, <1>5 DEF State
<1>7. [run EXCEPT !.pc = "begin", !.st.kb = kb'.id] = [run EXCEPT !.pc = "begin", !.st = st]
  BY <1>2 DEF Run
<1>. HIDE DEF st
<1>8. Then([run EXCEPT !.pc = "begin", !.st = st])
  BY <1>7 DEF EnsureKnowledge
<1>9. ToState("begin", st) \/ Ends
  BY <1>8 DEF Then, Ends, ToState
<1>10. Ends \/ (run' \in Run /\ run'.pc = "begin" /\ SamePlan /\ SameHand /\ run'.st = st)
  BY <1>2, <1>6, <1>9, ToStateIs DEF Before
<1>11. /\ disk' = disk /\ chats' = chats /\ attached' = attached /\ host' = host /\ edits' = edits /\ drifted' = drifted
       /\ emptied' = emptied /\ stray' = stray
  BY DEF EnsureKnowledge, host
<1>12. (kb.id # 0 => kb' = kb) /\ (kb.id = 0 => kb' = [id |-> kb.last + 1, last |-> kb.last + 1, files |-> {}])
  BY <1>4
<1>. QED  BY <1>1, <1>2, <1>5, <1>6, <1>10, <1>11, <1>12, Zenon DEF st

LEMMA SaveBegunIs ==
  ASSUME Types, SaveBegun
  PROVE  /\ run.pc = "begin" /\ run \in Run /\ run.st \in State
         /\ disk' = run.st /\ chats' = chats /\ kb' = kb /\ attached' = attached /\ host' = host
         /\ edits' = edits /\ drifted' = drifted /\ stray' = stray
         /\ emptied' = (emptied /\ (run.st.chats # <<>> \/ run.st.kb # kb.id))
         /\ Ends \/ (run' \in Run /\ run'.pc = "list" /\ run'.st = run.st /\ SamePlan /\ SameHand)
<1>1. run.pc = "begin"
  BY DEF SaveBegun, At
<1>2. run \in Run /\ run.st \in State
  BY <1>1, Running
<1>3. ToPlace("list") => run' \in Run /\ run'.pc = "list" /\ run'.st = run.st /\ SamePlan /\ SameHand
  BY <1>2, ToPlaceIs DEF During
<1>. QED  BY <1>1, <1>2, <1>3, SMT DEF SaveBegun, Save, owui, host, Goes, Then, Ends, ToPlace

LEMMA RecallChatsIs ==
  ASSUME Types, RecallChats
  PROVE  /\ run.pc = "list" /\ run \in Run /\ run.st \in State
         /\ disk' = disk /\ chats' = chats /\ kb' = kb /\ attached' = attached /\ host' = host
         /\ edits' = edits /\ drifted' = drifted /\ stray' = stray /\ emptied' = emptied
         /\ Ends \/ (/\ run' \in Run /\ run'.pc = "next" /\ run'.st = run.st
                     /\ run'.skipped = run.skipped /\ run'.model = run.model /\ SameHand
                     /\ DOMAIN run'.listed = Live /\ \A c \in Live : run'.listed[c] = chats[c].at
                     /\ Names(run'.todo, Planned(run'.listed, run.st.chats), Todo(run'.listed, run.st.chats)))
<1>1. run.pc = "list"
  BY DEF RecallChats, At
<1>2. run \in Run /\ run.st \in State
  BY <1>1, Running
<1>. DEFINE l == [c \in Live |-> chats[c].at]
           w == Plan(l, run.st.chats)
<1>3. DOMAIN l = Live /\ Live \in SUBSET Chats /\ l \in Lists /\ \A c \in Live : l[c] = chats[c].at
  <2>1. \A c \in Chats : chats[c].at \in Nat
    BY DEF Types, WorldType, Chat
  <2>2. l \in [Live -> Nat] /\ Live \in SUBSET Chats
    BY <2>1 DEF Live
  <2>. QED  BY <2>2 DEF Lists
<1>4. DOMAIN run.st.chats \in SUBSET Chats
  BY <1>2, RecordsAre DEF State
<1>5. ToList("next", l, w) \/ Ends
  BY DEF RecallChats, Then, Ends, ToList
<1>. HIDE DEF l
<1>6. Names(w, Planned(l, run.st.chats), Todo(l, run.st.chats))
  BY <1>3, <1>4, PlanNames
<1>. HIDE DEF w
<1>7. w \in Seq(Item)
  <2>1. w \in Seq(Planned(l, run.st.chats)) /\ Planned(l, run.st.chats) \subseteq Item
    BY <1>6 DEF Names, Planned
  <2>. QED  BY <2>1, SeqMonotonic
<1>9. Ends \/ (/\ run' \in Run /\ run'.pc = "next" /\ run'.st = run.st /\ run'.skipped = run.skipped /\ run'.model = run.model /\ SameHand
               /\ run'.listed = l /\ run'.todo = w)
  BY <1>2, <1>3, <1>5, <1>7, ToListIs DEF During, Working
<1>10. Ends \/ (/\ DOMAIN run'.listed = Live /\ \A c \in Live : run'.listed[c] = chats[c].at
               /\ Names(run'.todo, Planned(run'.listed, run.st.chats), Todo(run'.listed, run.st.chats)))
  BY <1>3, <1>6, <1>9, Zenon
<1>11. /\ disk' = disk /\ chats' = chats /\ kb' = kb /\ attached' = attached /\ host' = host
       /\ edits' = edits /\ drifted' = drifted /\ stray' = stray /\ emptied' = emptied
  BY DEF RecallChats, owui, host
<1>. QED  BY <1>1, <1>2, <1>9, <1>10, <1>11, Zenon

LEMMA RemoveIs ==
  ASSUME Types, Chores, RemoveKnowledgeFile
  PROVE  /\ run.pc = "next" /\ run \in Run /\ run.st \in State /\ run.todo # <<>> /\ HasOld
         /\ disk' = disk /\ chats' = chats /\ attached' = attached /\ host' = host
         /\ edits' = edits /\ drifted' = drifted /\ stray' = stray /\ emptied' = emptied
         /\ kb'.id = kb.id /\ kb'.last = kb.last
         /\ \/ /\ kb' = [kb EXCEPT !.files = {f \in kb.files : f.id # Known}]
               /\ kb'.files = {f \in kb.files : f.id # Known}
               /\ Ends \/ (run' \in Run /\ run'.pc = "removed" /\ run'.st = run.st /\ SamePlan /\ SameHand)
            \/ kb' = kb /\ Ends
<1>1. run.pc = "next"
  BY DEF RemoveKnowledgeFile, At
<1>2. run \in Run /\ run.st \in State
  BY <1>1, Running
<1>4. kb = [id |-> kb.id, last |-> kb.last, files |-> kb.files]
  BY DEF Types, WorldType
<1>5. \/ /\ kb' = [kb EXCEPT !.files = {f \in kb.files : f.id # Known}]
         /\ Ends \/ ToPlace("removed")
      \/ kb' = kb /\ Ends
  BY Zenon DEF RemoveKnowledgeFile, Goes, Then, Fails, Ends, ToPlace
<1>6. ToPlace("removed") => run' \in Run /\ run'.pc = "removed" /\ run'.st = run.st /\ SamePlan /\ SameHand
  BY <1>2, ToPlaceIs DEF During, Working, OnChat
<1>7. kb' = [kb EXCEPT !.files = {f \in kb.files : f.id # Known}] =>
        kb'.files = {f \in kb.files : f.id # Known} /\ kb'.id = kb.id /\ kb'.last = kb.last
  BY <1>4
<1>8. /\ disk' = disk /\ chats' = chats /\ attached' = attached /\ host' = host
      /\ edits' = edits /\ drifted' = drifted /\ stray' = stray /\ emptied' = emptied
      /\ run.todo # <<>> /\ HasOld
  BY DEF RemoveKnowledgeFile, host
<1>. QED  BY <1>1, <1>2, <1>5, <1>6, <1>7, <1>8, Zenon

\* A step that saves the state st, and leaves everything else as it is.
Saves(st) ==
  /\ disk' = st /\ chats' = chats /\ kb' = kb /\ attached' = attached /\ host' = host
  /\ edits' = edits /\ drifted' = drifted /\ stray' = stray /\ emptied' = emptied
Quiet ==
  /\ disk' = disk /\ chats' = chats /\ kb' = kb /\ attached' = attached /\ host' = host
  /\ edits' = edits /\ drifted' = drifted /\ stray' = stray /\ emptied' = emptied

LEMMA ClearIs ==
  ASSUME Types, Chores, InHand, ClearEntry
  PROVE  /\ run.pc = "removed" /\ run \in Run /\ run.st \in State /\ run.todo # <<>> /\ This.kind = "update"
         /\ Saves(Cleared(run.st)) /\ Cleared(run.st) \in State
         /\ Ends \/ (/\ run' \in Run /\ run'.pc = "fetch" /\ run'.st = Cleared(run.st)
                     /\ SamePlan /\ SameHand)
<1>1. run.pc = "removed" /\ This.kind = "update"
  BY DEF ClearEntry, At
<1>2. run \in Run /\ run.st \in State /\ run.todo # <<>>
  BY <1>1, Running DEF InHand, OnChat
<1>. DEFINE st == Cleared(run.st)
<1>3. st \in State
  BY <1>2, StatesAre
<1>4. Saves(st) /\ (Ends \/ ToState("fetch", st))
  BY DEF ClearEntry, Save, Then, Ends, Saves, owui, host, ToState
<1>. HIDE DEF st
<1>6. Ends \/ (/\ run' \in Run /\ run'.pc = "fetch" /\ run'.st = st /\ SamePlan /\ SameHand)
  BY <1>2, <1>3, <1>4, ToStateIs DEF During, Working, OnChat
<1>. QED  BY <1>1, <1>2, <1>3, <1>4, <1>6, Zenon DEF st

LEMMA DropIs ==
  ASSUME Types, Chores, InHand, DropEntry
  PROVE  /\ run.pc \in {"removed", "next"} /\ run \in Run /\ run.st \in State /\ run.todo # <<>>
         /\ This.kind = "delete" /\ (run.pc = "next" => Known = 0)
         /\ Saves(Dropped(run.st)) /\ Dropped(run.st) \in State
         /\ Ends \/ (/\ run' \in Run /\ run'.pc = "next" /\ run'.st = Dropped(run.st)
                     /\ run'.todo = Tail(run.todo) /\ run'.skipped = run.skipped /\ SameList /\ SameHand)
<1>1. run.pc \in {"removed", "next"} /\ This.kind = "delete" /\ (run.pc = "next" => Known = 0)
  BY DEF DropEntry, At, HasOld
<1>2. run \in Run /\ run.st \in State /\ run.todo # <<>>
  BY <1>1, Running DEF InHand, OnChat, DropEntry, At
<1>. DEFINE st == Dropped(run.st)
           rest == Tail(run.todo)
<1>3. st \in State /\ rest \in Seq(Item)
  BY <1>2, StatesAre, ThisIs
<1>4. Saves(st) /\ (Ends \/ ToRest("next", st, rest))
  BY DEF DropEntry, Next0, Save, Then, Ends, Saves, owui, host, ToRest
<1>. HIDE DEF st, rest
<1>6. Ends \/ (/\ run' \in Run /\ run'.pc = "next" /\ run'.st = st /\ run'.todo = rest
               /\ run'.skipped = run.skipped /\ SameList /\ SameHand)
  BY <1>2, <1>3, <1>4, ToRestIs DEF During, Working
<1>. QED  BY <1>1, <1>2, <1>3, <1>4, <1>6, Zenon DEF st, rest

LEMMA SkipIs ==
  ASSUME Types, Chores, InHand, SkipChat
  PROVE  /\ run.pc = "skip" /\ run \in Run /\ run.st \in State /\ run.todo # <<>>
         /\ Saves(Dropped(run.st)) /\ Dropped(run.st) \in State
         /\ Ends \/ (/\ run' \in Run /\ run'.pc = "next" /\ run'.st = Dropped(run.st)
                     /\ run'.todo = Tail(run.todo) /\ run'.skipped = run.skipped \cup {This.chat}
                     /\ SameList /\ SameHand)
<1>1. run.pc = "skip"
  BY DEF SkipChat, At
<1>2. run \in Run /\ run.st \in State /\ run.todo # <<>>
  BY <1>1, Running DEF InHand, OnChat
<1>. DEFINE st == Dropped(run.st)
           rest == Tail(run.todo)
           c == This.chat
<1>3. st \in State /\ rest \in Seq(Item) /\ c \in Chats
  BY <1>2, StatesAre, ThisIs DEF Item
<1>4. Saves(st) /\ (Ends \/ run' = [[run EXCEPT !.pc = "next", !.st = st, !.todo = rest] EXCEPT !.skipped = @ \cup {c}])
  BY DEF SkipChat, Next0, Save, Then, Ends, Saves, owui, host
<1>. HIDE DEF st, rest, c
<1>5. run.skipped \cup {c} \in SUBSET Chats
  BY <1>2, <1>3 DEF Run
<1>6. Ends \/ ToSkip("next", st, rest, run.skipped \cup {c})
  <2>1. run' = [[run EXCEPT !.pc = "next", !.st = st, !.todo = rest] EXCEPT !.skipped = @ \cup {c}]
          => ToSkip("next", st, rest, run.skipped \cup {c})
    BY <1>2, RunFields DEF ToSkip
  <2>. QED  BY <1>4, <2>1
<1>7. Ends \/ (/\ run' \in Run /\ run'.pc = "next" /\ run'.st = st /\ run'.todo = rest
               /\ run'.skipped = run.skipped \cup {c} /\ SameList /\ SameHand)
  BY <1>2, <1>3, <1>5, <1>6, ToSkipIs DEF During, Working
<1>. QED  BY <1>1, <1>2, <1>3, <1>4, <1>7, Zenon DEF st, rest, c

LEMMA RecordIs ==
  ASSUME Types, Chores, InHand, RecordChat
  PROVE  /\ run.pc = "record" /\ run \in Run /\ run.st \in State /\ run.todo # <<>> /\ This.kind # "delete"
         /\ This.chat \in DOMAIN run.listed
         /\ Saves(Recorded(run.st)) /\ Recorded(run.st) \in State
         /\ Ends \/ (/\ run' \in Run /\ run'.pc = "next" /\ run'.st = Recorded(run.st)
                     /\ run'.todo = Tail(run.todo) /\ run'.skipped = run.skipped /\ SameList /\ SameHand)
<1>1. run.pc = "record"
  BY DEF RecordChat, At
<1>2. run \in Run /\ run.st \in State /\ run.todo # <<>> /\ This.kind # "delete"
  BY <1>1, Running DEF InHand, OnChat
<1>0. This.chat \in DOMAIN run.listed
  BY <1>1, <1>2, ThisChore DEF Working, OnChat
<1>. DEFINE st == Recorded(run.st)
           rest == Tail(run.todo)
<1>3. st \in State /\ rest \in Seq(Item)
  BY <1>0, <1>2, StatesAre, ThisIs
<1>4. Saves(st) /\ (Ends \/ ToRest("next", st, rest))
  BY DEF RecordChat, Next0, Save, Then, Ends, Saves, owui, host, ToRest
<1>. HIDE DEF st, rest
<1>6. Ends \/ (/\ run' \in Run /\ run'.pc = "next" /\ run'.st = st /\ run'.todo = rest
               /\ run'.skipped = run.skipped /\ SameList /\ SameHand)
  BY <1>2, <1>3, <1>4, ToRestIs DEF During, Working
<1>. QED  BY <1>0, <1>1, <1>2, <1>3, <1>4, <1>6, Zenon DEF st, rest

LEMMA GetChatIs ==
  ASSUME Types, Chores, InHand, GetChat
  PROVE  /\ run.pc \in {"fetch", "next"} /\ run \in Run /\ run.st \in State /\ run.todo # <<>>
         /\ This.kind # "delete" /\ This.chat \in DOMAIN run.listed
         /\ (run.pc = "next" => ~HasOld)
         /\ Quiet
         /\ Ends \/ (/\ run' \in Run /\ run'.pc \in {"join", "skip"} /\ This.chat \in Live /\ run'.at = chats[This.chat].at
                     /\ run'.st = run.st /\ SamePlan /\ run'.file = run.file)
<1>1. run.pc \in {"fetch", "next"} /\ (run.pc = "next" => run.todo # <<>> /\ This.kind # "delete" /\ ~HasOld)
  BY DEF GetChat, At
<1>2. run \in Run /\ run.st \in State /\ run.todo # <<>> /\ This.kind # "delete"
  BY <1>1, Running DEF InHand, OnChat
<1>0. This.chat \in DOMAIN run.listed /\ This \in Item
  BY <1>1, <1>2, ThisChore DEF Working, OnChat
<1>. DEFINE c == This.chat
           pc == IF chats[c].text THEN "join" ELSE "skip"
           v == chats[c].at
<1>3. c \in Chats
  BY <1>0 DEF Item
<1>4. v \in Nat
  BY <1>3 DEF Types, WorldType, Chat
<1>5. Ends \/ (c \in Live /\ ToVersion(pc, v))
  BY DEF GetChat, Then, Fails, Ends, ToVersion
<1>6. pc \in {"join", "skip"}
  OBVIOUS
<1>. HIDE DEF pc, v, c
<1>8. Ends \/ (/\ run' \in Run /\ run'.pc = pc /\ c \in Live /\ run'.at = v /\ run'.st = run.st /\ SamePlan /\ run'.file = run.file)
  BY <1>2, <1>4, <1>5, <1>6, ToVersionIs DEF During, Working, OnChat
<1>9. Quiet
  BY DEF GetChat, Quiet, owui, host
<1>. QED  BY <1>0, <1>1, <1>2, <1>6, <1>8, <1>9, Zenon DEF v, c

LEMMA UploadIs ==
  ASSUME Types, Chores, InHand, IsFiniteSet(Used), UploadToKnowledge
  PROVE  /\ run.pc = "join" /\ run \in Run /\ run.st \in State /\ run.todo # <<>>
         /\ This \in Item /\ This.chat \in DOMAIN run.listed /\ This.kind # "delete"
         /\ disk' = disk /\ chats' = chats /\ attached' = attached /\ host' = host
         /\ edits' = edits /\ drifted' = drifted /\ emptied' = emptied
         /\ kb'.id = kb.id /\ kb'.last = kb.last
         /\ \/ \E n \in Nat \ (Used \cup {0}) :
                 /\ run.st.kb = kb.id
                 /\ kb'.files = kb.files \cup {[id |-> n, chat |-> This.chat, at |-> run.at, emb |-> embedder]}
                 /\ kb' = [kb EXCEPT !.files = kb'.files]
                 /\ \/ Ends /\ stray' = stray \cup {n}
                    \/ /\ run' \in Run /\ run'.pc = "record" /\ run'.file = n /\ stray' = stray
                       /\ run'.st = run.st /\ SamePlan /\ run'.at = run.at
            \/ kb' = kb /\ stray' = stray /\ Ends
<1>1. run.pc = "join"
  BY DEF UploadToKnowledge, At
<1>2. run \in Run /\ run.st \in State /\ run.todo # <<>> /\ This.kind # "delete"
  BY <1>1, Running DEF InHand, OnChat
<1>3. This \in Item /\ This.chat \in DOMAIN run.listed
  BY <1>1, <1>2, ThisChore DEF Working, OnChat
<1>. DEFINE n == NewFile
           more == kb.files \cup {[id |-> n, chat |-> This.chat, at |-> run.at, emb |-> embedder]}
<1>4. n \in Nat \ (Used \cup {0})
  BY NewFileIsNew
<1>5. kb = [id |-> kb.id, last |-> kb.last, files |-> kb.files]
  BY DEF Types, WorldType
<1>6. \/ /\ run.st.kb = kb.id /\ kb' = [kb EXCEPT !.files = more]
         /\ ToFile("record", n) \/ Ends
         /\ stray' = IF Ends THEN stray \cup {n} ELSE stray
      \/ kb' = kb /\ stray' = stray /\ Ends
  BY DEF UploadToKnowledge, Then, Fails, Ends, ToFile
<1>7. kb' = [kb EXCEPT !.files = more] =>
        kb'.files = more /\ kb'.id = kb.id /\ kb'.last = kb.last /\ kb' = [kb EXCEPT !.files = kb'.files]
  <2>. HIDE DEF more
  <2>. QED  BY <1>5
<1>8. ToFile("record", n) => /\ run' \in Run /\ run'.pc = "record" /\ run'.file = n
                             /\ run'.st = run.st /\ SamePlan /\ run'.at = run.at
  <2>. HIDE DEF n
  <2>. QED  BY <1>2, <1>4, ToFileIs DEF During, Working, OnChat
<1>9. /\ disk' = disk /\ chats' = chats /\ attached' = attached /\ host' = host
      /\ edits' = edits /\ drifted' = drifted /\ emptied' = emptied
  BY DEF UploadToKnowledge, host
<1>10. CASE kb' = kb /\ stray' = stray /\ Ends
  BY <1>1, <1>2, <1>3, <1>9, <1>10, Zenon
<1>11. CASE /\ run.st.kb = kb.id /\ kb' = [kb EXCEPT !.files = more]
            /\ ToFile("record", n) \/ Ends
            /\ stray' = IF Ends THEN stray \cup {n} ELSE stray
  <2>1. \/ Ends /\ stray' = stray \cup {n}
        \/ ToFile("record", n) /\ stray' = stray
    BY <1>11
  <2>. HIDE DEF n
  <2>. QED  BY <1>1, <1>2, <1>3, <1>4, <1>7, <1>8, <1>9, <1>11, <2>1, Zenon
<1>. QED  BY <1>6, <1>10, <1>11, Zenon

LEMMA DiscoverIs ==
  ASSUME Types, DiscoverModel
  PROVE  /\ run.pc = "next" /\ run \in Run /\ run.st \in State /\ run.todo = <<>> /\ Quiet
         /\ Ends \/ (/\ run' \in Run /\ run'.pc = "attach" /\ run'.st = run.st /\ run'.listed = run.listed
                     /\ run'.todo = run.todo /\ run'.skipped = run.skipped /\ SameHand)
<1>1. run.pc = "next"
  BY DEF DiscoverModel, At
<1>2. run \in Run /\ run.st \in State /\ served \in Models
  BY <1>1, Running DEF Types, WorldType
<1>3. Ends \/ ToModel("attach", served)
  BY DEF DiscoverModel, Then, Ends, ToModel
<1>4. Ends \/ (/\ run' \in Run /\ run'.pc = "attach" /\ run'.st = run.st /\ run'.listed = run.listed
               /\ run'.todo = run.todo /\ run'.skipped = run.skipped /\ SameHand)
  BY <1>2, <1>3, ToModelIs DEF During, Working
<1>5. Quiet /\ run.todo = <<>>
  BY DEF DiscoverModel, Quiet, owui, host
<1>. QED  BY <1>1, <1>2, <1>4, <1>5, Zenon

LEMMA AttachIs ==
  ASSUME Types, AttachKnowledge
  PROVE  /\ run.pc = "attach" /\ run \in Run /\ run.st \in State
         /\ disk' = disk /\ chats' = chats /\ kb' = kb /\ host' = host
         /\ edits' = edits /\ drifted' = drifted /\ stray' = stray /\ emptied' = emptied
         /\ attached' = attached \cup {<<run.model, run.st.kb>>}
         /\ Ends \/ (run' \in Run /\ run'.pc = "stamp" /\ run'.st = run.st /\ SamePlan /\ SameHand)
<1>1. run.pc = "attach"
  BY DEF AttachKnowledge, At
<1>2. run \in Run /\ run.st \in State
  BY <1>1, Running
<1>3. Ends \/ ToPlace("stamp")
  BY DEF AttachKnowledge, Goes, Then, Ends, ToPlace
<1>4. Ends \/ (run' \in Run /\ run'.pc = "stamp" /\ run'.st = run.st /\ SamePlan /\ SameHand)
  BY <1>2, <1>3, ToPlaceIs DEF During, Working
<1>5. /\ disk' = disk /\ chats' = chats /\ kb' = kb /\ host' = host
      /\ edits' = edits /\ drifted' = drifted /\ stray' = stray /\ emptied' = emptied
      /\ attached' = attached \cup {<<run.model, run.st.kb>>}
  BY DEF AttachKnowledge, host
<1>. QED  BY <1>1, <1>2, <1>4, <1>5, Zenon

Stamped(st) == [st EXCEPT !.pass = "complete"]
LEMMA StampIs ==
  ASSUME Types, Stamp
  PROVE  /\ run.pc = "stamp" /\ run \in Run /\ run.st \in State
         /\ Saves(Stamped(run.st)) /\ Ends
         /\ Stamped(run.st) \in State /\ Stamped(run.st).kb = run.st.kb
         /\ Stamped(run.st).emb = run.st.emb /\ Stamped(run.st).chats = run.st.chats
<1>1. run.pc = "stamp"
  BY DEF Stamp, At
<1>2. run \in Run /\ run.st \in State
  BY <1>1, Running
<1>3. /\ Stamped(run.st) \in State /\ Stamped(run.st).kb = run.st.kb
      /\ Stamped(run.st).emb = run.st.emb /\ Stamped(run.st).chats = run.st.chats
  BY <1>2, SMT DEF Stamped, State
<1>4. Saves(Stamped(run.st)) /\ Ends
  BY DEF Stamp, Save, Saves, Ends, Stamped, owui, host
<1>. QED  BY <1>1, <1>2, <1>3, <1>4, Zenon

LEMMA CutIs ==
  ASSUME Types, Cut
  PROVE  /\ run.pc # "idle" /\ run \in Run /\ Ends
         /\ disk' = disk /\ chats' = chats /\ kb' = kb /\ attached' = attached /\ host' = host
         /\ edits' = edits /\ drifted' = drifted /\ emptied' = emptied
         /\ stray' = IF run.pc = "record" THEN stray \cup {run.file} ELSE stray
<1>1. run.pc # "idle" /\ run \in Run
  BY RunIs, Running DEF Types, Cut
<1>. QED  BY <1>1 DEF Cut, Ends, At, owui, host

LEMMA BeginIs ==
  ASSUME Types, NEW rebuild \in BOOLEAN, NEW ack \in BOOLEAN, Begin(rebuild, ack)
  PROVE  /\ run.pc = "idle" /\ run = Idle /\ run' \in Run
         /\ run'.pc = IF rebuild /\ disk.kb # 0 THEN "reset" ELSE "ensure"
         /\ run'.st.chats = (IF rebuild THEN <<>> ELSE disk.chats)
         /\ run'.st.emb = config /\ run'.st.kb = disk.kb /\ run'.st.pass = "partial"
         /\ rebuild \/ disk.emb \in {NoEmbedding, config}
         /\ drifted' = (drifted \/ config # embedder)
         /\ disk' = disk /\ chats' = chats /\ kb' = kb /\ attached' = attached /\ host' = host
         /\ edits' \in {edits, edits + 1} /\ edits' <= MaxEdits /\ stray' = stray /\ emptied' = emptied
<1>0. /\ config \in Embeddings /\ served \in Models /\ disk \in State /\ <<>> \in Records
      /\ edits \in 0 .. MaxEdits /\ MaxEdits \in Nat
  BY NoRecords, RecallAssumption DEF Types, WorldType, RunType, RecallAssumption
<1>1. run = Idle /\ run.pc = "idle"
  BY DEF Begin, Idle
<1>2. disk = [kb |-> disk.kb, emb |-> disk.emb, pass |-> disk.pass, chats |-> disk.chats]
      /\ disk.kb \in Nat /\ disk.chats \in Records
  BY <1>0 DEF State
<1>. DEFINE st == PreparedState(rebuild)
           pc == IF rebuild /\ disk.kb # 0 THEN "reset" ELSE "ensure"
<1>3. st = [kb |-> disk.kb, emb |-> config, pass |-> "partial", chats |-> IF rebuild THEN <<>> ELSE disk.chats]
  <2>. DEFINE g == IF rebuild THEN <<>> ELSE disk.chats
  <2>1. st = [disk EXCEPT !.chats = g, !.emb = config, !.pass = "partial"]
    BY <1>2 DEF PreparedState
  <2>. HIDE DEF g, st
  <2>2. st = [kb |-> disk.kb, emb |-> config, pass |-> "partial", chats |-> g]
    BY <1>2, <2>1
  <2>. QED  BY <2>2 DEF g
<1>4. st \in State
  BY <1>0, <1>2, <1>3 DEF State
<1>5. run' = [pc |-> pc, st |-> st, listed |-> <<>>, todo |-> <<>>, skipped |-> {}, at |-> 0, file |-> 0, model |-> served]
  BY DEF Begin
<1>6. pc \in Before \cup During
  BY DEF Before
<1>7. <<>> \in Lists /\ <<>> \in Seq(Item)
  <2>1. <<>> \in [{} -> Nat]
    BY SMT
  <2>. QED  BY <2>1, EmptySeq DEF Lists
<1>8. run' \in Run /\ run'.pc = pc /\ run'.st = st
  <2>. HIDE DEF pc, st
  <2>. QED  BY <1>0, <1>4, <1>5, <1>6, <1>7 DEF Run
<1>9. rebuild \/ disk.emb \in {NoEmbedding, config}
  BY DEF Begin, Refuses, EmbeddingSkew
<1>10. /\ drifted' = (drifted \/ config # embedder)
       /\ disk' = disk /\ chats' = chats /\ kb' = kb /\ attached' = attached /\ host' = host
       /\ stray' = stray /\ emptied' = emptied
  BY DEF Begin, owui, host
<1>11. edits' \in {edits, edits + 1} /\ edits' <= MaxEdits
  BY <1>0, SMT DEF Begin
<1>12. /\ st.chats = (IF rebuild THEN <<>> ELSE disk.chats)
       /\ st.emb = config /\ st.kb = disk.kb /\ st.pass = "partial"
  BY <1>3
<1>. HIDE DEF st
<1>. QED  BY <1>1, <1>8, <1>9, <1>10, <1>11, <1>12

----------------------------------------------------------------------------
(* Types                                                                    *)

\* What the others do.
LEMMA WorldIs ==
  ASSUME Types, World
  PROVE  /\ run' = run /\ edits' = edits + 1 /\ edits < MaxEdits /\ attached' = attached
         /\ faults' = faults
  BY Zenon DEF World, Open, Write, Delete, DeleteCollection, LoseState, ModelSwap, EditConfig, Install, Others, owui

LEMMA OpenIs ==
  ASSUME Types, NEW c \in Chats, Open(c) \/ Write(c) \/ Delete(c)
  PROVE  /\ disk' = disk /\ kb' = kb /\ host' = host /\ drifted' = drifted /\ stray' = stray /\ emptied' = emptied
         /\ chats' \in [Chats -> Chat]
         /\ \A d \in Chats : d # c => chats'[d] = chats[d]
         /\ \/ chats[c].is = "unborn" /\ chats'[c].is = "live" /\ chats'[c].at = chats[c].at
            \/ chats[c].is = "live" /\ chats'[c].is = "live" /\ chats'[c].at = chats[c].at + 1
            \/ chats[c].is = "live" /\ chats'[c].is = "gone" /\ chats'[c].at = chats[c].at
<1>0. chats \in [Chats -> Chat] /\ chats[c] \in Chat
  BY DEF Types, WorldType
<1>1. CASE Open(c)
  BY <1>0, <1>1, SMT DEF Open, Chat, host
<1>2. CASE Write(c)
  <2>1. PICK t \in BOOLEAN : chats' = [chats EXCEPT ![c].at = @ + 1, ![c].text = t]
    BY <1>2 DEF Write
  <2>2. /\ chats[c].is = "live" /\ disk' = disk /\ kb' = kb /\ host' = host
        /\ drifted' = drifted /\ stray' = stray /\ emptied' = emptied
    BY <1>2 DEF Write, Live, host
  <2>. DEFINE r == [is |-> chats[c].is, at |-> chats[c].at + 1, text |-> t]
  <2>3. r \in Chat
    BY <1>0 DEF Chat
  <2>4. chats' = [chats EXCEPT ![c] = r]
    <3>1. chats[c] = [is |-> chats[c].is, at |-> chats[c].at, text |-> chats[c].text]
      BY <1>0 DEF Chat
    <3>2. [chats[c] EXCEPT !.at = @ + 1] = [is |-> chats[c].is, at |-> chats[c].at + 1, text |-> chats[c].text]
      BY <3>1
    <3>3. [[chats[c] EXCEPT !.at = @ + 1] EXCEPT !.text = t] = r
      <4>. DEFINE u == [chats[c] EXCEPT !.at = @ + 1]
      <4>1. u = [is |-> chats[c].is, at |-> chats[c].at + 1, text |-> chats[c].text]
        BY <3>2
      <4>. HIDE DEF u
      <4>2. [u EXCEPT !.text = t] = r
        BY <4>1
      <4>. QED  BY <4>2 DEF u
    <3>4. chats' = [chats EXCEPT ![c] = [[chats[c] EXCEPT !.at = @ + 1] EXCEPT !.text = t]]
      BY <1>0, <2>1
    <3>. QED  BY <3>3, <3>4
  <2>5. chats'[c] = r /\ \A d \in Chats : d # c => chats'[d] = chats[d]
    <3>. HIDE DEF r
    <3>. QED  BY <1>0, <2>4
  <2>6. chats' \in [Chats -> Chat]
    <3>. HIDE DEF r
    <3>. QED  BY <1>0, <2>3, <2>4
  <2>. QED  BY <2>2, <2>5, <2>6
<1>3. CASE Delete(c)
  BY <1>0, <1>3, SMT DEF Delete, Live, Chat, host
<1>. QED  BY <1>1, <1>2, <1>3

LEMMA DeleteCollectionIs ==
  ASSUME Types, DeleteCollection
  PROVE  /\ disk' = disk /\ chats' = chats /\ host' = host /\ drifted' = drifted
         /\ kb'.id = 0 /\ kb'.last = kb.last /\ kb'.files = {} /\ kb' = [id |-> 0, last |-> kb.last, files |-> {}]
         /\ emptied' /\ emptied' \in BOOLEAN /\ stray' = {}
<1>1. kb = [id |-> kb.id, last |-> kb.last, files |-> kb.files]
  BY DEF Types, WorldType
<1>2. kb' = [id |-> 0, last |-> kb.last, files |-> {}]
  BY <1>1 DEF DeleteCollection
<1>. QED  BY <1>2 DEF DeleteCollection, host

LEMMA LoseStateIs ==
  ASSUME Types, LoseState
  PROVE  /\ run.pc = "idle" /\ disk' = EmptyState /\ EmptyState \in State
         /\ disk'.kb = 0 /\ disk'.emb = NoEmbedding /\ disk'.chats = <<>>
         /\ chats' = chats /\ kb' = kb /\ host' = host /\ drifted' = drifted
         /\ stray' = {f.id : f \in kb.files} /\ ~emptied' /\ emptied' \in BOOLEAN
<1>1. EmptyState \in State
  BY NoRecords DEF EmptyState, State
<1>. QED  BY <1>1 DEF LoseState, EmptyState, Idle, owui, host

LEMMA HostIs ==
  ASSUME Types, ModelSwap \/ EditConfig \/ Install
  PROVE  /\ disk' = disk /\ chats' = chats /\ kb' = kb /\ attached' = attached /\ emptied' = emptied /\ stray' = stray
         /\ drifted' \in BOOLEAN /\ served' \in Models /\ {config', embedder'} \subseteq Embeddings
         /\ (embedder' = embedder /\ drifted' = drifted) \/ drifted' = (drifted \/ run # Idle)
<1>0. served \in Models /\ {config, embedder} \subseteq Embeddings
  BY DEF Types, WorldType
<1>. QED  BY <1>0 DEF ModelSwap, EditConfig, Install, owui, Types, WorldType

LEMMA FaultsType ==
  ASSUME Types, Next
  PROVE  faults' \in Nat
<1>0. faults \in Nat
  BY DEF Types, WorldType
<1>1. Cut => faults' \in Nat
  BY <1>0, SMT DEF Cut, Fault
<1>2. World => faults' \in Nat
  BY <1>0, WorldIs
<1>3. ASSUME Step
      PROVE  faults' \in Nat
  <2>1. faults' = faults \/ Fault
    BY <1>3, Zenon DEF Step, ResetKnowledge, EnsureKnowledge, SaveBegun, RecallChats, RemoveKnowledgeFile, ClearEntry,
       DropEntry, GetChat, SkipChat, UploadToKnowledge, RecordChat, DiscoverModel, AttachKnowledge, Stamp, Goes, Then, Fails
  <2>. QED  BY <1>0, <2>1, SMT DEF Fault
<1>4. (\E rebuild, ack \in BOOLEAN : Begin(rebuild, ack)) => faults' \in Nat
  BY <1>0 DEF Begin
<1>. QED  BY <1>1, <1>2, <1>3, <1>4 DEF Next

\* Every step keeps the types.
LEMMA TypesStep ==
  ASSUME Types, Chores, InHand, IsFiniteSet(Used), Next
  PROVE  Types'
<1>. USE RecallAssumption DEF RecallAssumption
<1>0. WorldType /\ RunType
  BY DEF Types
<1>1. /\ kb = [id |-> kb.id, last |-> kb.last, files |-> kb.files]
      /\ kb.id \in Nat /\ kb.last \in Nat /\ kb.files \in SUBSET FileRec
  BY <1>0 DEF WorldType
<1>100. faults' \in Nat
  BY FaultsType
<1>2. Cut => RunType'
  BY <1>0, CutIs DEF RunType, Ends, Saves, Quiet
<1>3. ResetKnowledge => RunType'
  BY <1>0, ResetIs DEF RunType, Ends, Saves, Quiet
<1>4. EnsureKnowledge => RunType'
  BY <1>0, EnsureIs DEF RunType, Ends, Saves, Quiet
<1>5. SaveBegun => RunType'
  BY <1>0, SaveBegunIs DEF RunType, Ends, Saves, Quiet
<1>6. RecallChats => RunType'
  BY <1>0, RecallChatsIs DEF RunType, Ends, Saves, Quiet
<1>7. RemoveKnowledgeFile => RunType'
  BY <1>0, RemoveIs DEF RunType, Ends, Saves, Quiet
<1>8. ClearEntry => RunType'
  BY <1>0, ClearIs DEF RunType, Ends, Saves, Quiet
<1>9. DropEntry => RunType'
  BY <1>0, DropIs DEF RunType, Ends, Saves, Quiet
<1>10. GetChat => RunType'
  BY <1>0, GetChatIs DEF RunType, Ends, Saves, Quiet
<1>11. SkipChat => RunType'
  BY <1>0, SkipIs DEF RunType, Ends, Saves, Quiet
<1>12. UploadToKnowledge => RunType'
  BY <1>0, UploadIs DEF RunType, Ends, Saves, Quiet
<1>13. RecordChat => RunType'
  BY <1>0, RecordIs DEF RunType, Ends, Saves, Quiet
<1>14. DiscoverModel => RunType'
  BY <1>0, DiscoverIs DEF RunType, Ends, Saves, Quiet
<1>15. AttachKnowledge => RunType'
  BY <1>0, AttachIs DEF RunType, Ends, Saves, Quiet
<1>16. Stamp => RunType'
  BY <1>0, StampIs DEF RunType, Ends, Saves, Quiet
<1>17. DeleteCollection => RunType'
  BY <1>0, DeleteCollectionIs, WorldIs DEF RunType, World
<1>18. LoseState => RunType'
  BY <1>0, LoseStateIs, WorldIs DEF RunType, World
<1>19. (ModelSwap \/ EditConfig \/ Install) => RunType'
  BY <1>0, HostIs, WorldIs DEF RunType, World
<1>20. ASSUME NEW c \in Chats, Open(c) \/ Write(c) \/ Delete(c)
      PROVE  RunType'
  BY <1>0, <1>20, OpenIs, WorldIs DEF RunType, World
<1>21. ASSUME NEW rebuild \in BOOLEAN, NEW ack \in BOOLEAN, Begin(rebuild, ack)
      PROVE  RunType'
  BY <1>0, <1>21, BeginIs DEF RunType
<1>22. Cut => WorldType'
  BY <1>0, <1>1, <1>100, CutIs, SMT DEF WorldType, Ends, Saves, Quiet, host
<1>23. ResetKnowledge => WorldType'
  <2>1. ResetKnowledge => kb' \in [id : Nat, last : Nat, files : SUBSET FileRec]
    <3>1. [kb EXCEPT !.files = {}] = [id |-> kb.id, last |-> kb.last, files |-> {}]
      BY <1>1
    <3>. QED  BY <1>0, <1>1, <3>1, ResetIs DEF WorldType
  <2>2. ResetKnowledge => emptied' \in BOOLEAN
    BY <1>0, ResetIs DEF WorldType
  <2>. QED  BY <1>0, <1>100, <2>1, <2>2, ResetIs DEF WorldType, host
<1>24. EnsureKnowledge => WorldType'
  BY <1>0, <1>1, <1>100, EnsureIs, SMT DEF WorldType, Ends, Saves, Quiet, host
<1>25. SaveBegun => WorldType'
  BY <1>0, <1>1, <1>100, SaveBegunIs, SMT DEF WorldType, Ends, Saves, Quiet, host
<1>26. RecallChats => WorldType'
  BY <1>0, <1>1, <1>100, RecallChatsIs, SMT DEF WorldType, Ends, Saves, Quiet, host
<1>27. RemoveKnowledgeFile => WorldType'
  BY <1>0, <1>1, <1>100, RemoveIs, SMT DEF WorldType, Ends, Saves, Quiet, host
<1>28. ClearEntry => WorldType'
  BY <1>0, <1>1, <1>100, ClearIs, SMT DEF WorldType, Ends, Saves, Quiet, host
<1>29. DropEntry => WorldType'
  BY <1>0, <1>1, <1>100, DropIs, SMT DEF WorldType, Ends, Saves, Quiet, host
<1>30. GetChat => WorldType'
  BY <1>0, <1>1, <1>100, GetChatIs, SMT DEF WorldType, Ends, Saves, Quiet, host
<1>31. SkipChat => WorldType'
  BY <1>0, <1>1, <1>100, SkipIs, SMT DEF WorldType, Ends, Saves, Quiet, host
<1>32. UploadToKnowledge => WorldType'
  <2>. SUFFICES ASSUME UploadToKnowledge PROVE WorldType'
    OBVIOUS
  <2>1. kb' \in [id : Nat, last : Nat, files : SUBSET FileRec]
    <3>1. CASE kb' = kb
      BY <1>0, <3>1 DEF WorldType
    <3>2. CASE kb' # kb
      <4>1. PICK n \in Nat : /\ kb'.files = kb.files \cup {[id |-> n, chat |-> This.chat, at |-> run.at, emb |-> embedder]}
                             /\ kb' = [kb EXCEPT !.files = kb'.files]
        BY <3>2, UploadIs, Zenon
      <4>2. This.chat \in Chats /\ run.at \in Nat /\ embedder \in Embeddings
        BY <1>0, UploadIs, RunFields DEF Item, WorldType
      <4>3. [id |-> n, chat |-> This.chat, at |-> run.at, emb |-> embedder] \in FileRec
        BY <4>2 DEF FileRec
      <4>4. kb'.files \in SUBSET FileRec
        BY <1>1, <4>1, <4>3
      <4>5. [kb EXCEPT !.files = kb'.files] = [id |-> kb.id, last |-> kb.last, files |-> kb'.files]
        BY <1>1
      <4>. QED  BY <1>1, <4>1, <4>4, <4>5
    <3>. QED  BY <3>1, <3>2
  <2>. QED  BY <1>0, <1>100, <2>1, UploadIs, Zenon DEF WorldType, host
<1>33. RecordChat => WorldType'
  BY <1>0, <1>1, <1>100, RecordIs, SMT DEF WorldType, Ends, Saves, Quiet, host
<1>34. DiscoverModel => WorldType'
  BY <1>0, <1>1, <1>100, DiscoverIs, SMT DEF WorldType, Ends, Saves, Quiet, host
<1>35. AttachKnowledge => WorldType'
  <2>1. AttachKnowledge => attached' \subseteq Models \X Nat
    BY <1>0, AttachIs, RunFields, SMT DEF WorldType, State
  <2>. QED  BY <1>0, <1>1, <1>100, <2>1, AttachIs, SMT DEF WorldType, host
<1>36. Stamp => WorldType'
  BY <1>0, <1>1, <1>100, StampIs, SMT DEF WorldType, Ends, Saves, Quiet, host
<1>37. DeleteCollection => WorldType'
  BY <1>0, <1>100, DeleteCollectionIs, WorldIs DEF WorldType, host, World
<1>38. LoseState => WorldType'
  BY <1>0, <1>100, LoseStateIs, WorldIs DEF WorldType, host, World
<1>39. (ModelSwap \/ EditConfig \/ Install) => WorldType'
  BY <1>0, <1>100, HostIs, WorldIs DEF WorldType, host, World
<1>40. ASSUME NEW c \in Chats, Open(c) \/ Write(c) \/ Delete(c)
      PROVE  WorldType'
  BY <1>0, <1>100, <1>40, OpenIs, WorldIs DEF WorldType, host, World
<1>41. ASSUME NEW rebuild \in BOOLEAN, NEW ack \in BOOLEAN, Begin(rebuild, ack)
      PROVE  WorldType'
  <2>0. drifted' = (drifted \/ config # embedder) /\ edits' \in {edits, edits + 1} /\ edits' <= MaxEdits
    BY <1>41, BeginIs, Zenon
  <2>1. drifted' \in BOOLEAN /\ edits' \in 0 .. MaxEdits
    BY <1>0, <2>0, SMT DEF WorldType
  <2>. QED  BY <1>0, <1>100, <1>41, <2>1, BeginIs DEF WorldType, host
<1>. QED
  BY <1>2, <1>3, <1>4, <1>5, <1>6, <1>7, <1>8, <1>9, <1>10, <1>11, <1>12, <1>13, <1>14, <1>15, <1>16, <1>17,
     <1>18, <1>19, <1>20, <1>21, <1>22, <1>23, <1>24, <1>25, <1>26, <1>27, <1>28, <1>29, <1>30, <1>31, <1>32,
     <1>33, <1>34, <1>35, <1>36, <1>37, <1>38, <1>39, <1>40, <1>41 DEF Types, Next, Step, World

----------------------------------------------------------------------------
(* The entries of the state                                                 *)

LEMMA EntriesAre ==
  ASSUME NEW st \in State
  PROVE  /\ st.kb \in Nat /\ DOMAIN st.chats \in SUBSET Chats
         /\ \A c \in DOMAIN st.chats : st.chats[c].file \in Nat /\ st.chats[c].at \in Nat
         /\ st.chats = <<>> <=> DOMAIN st.chats = {}
<1>1. st.kb \in Nat /\ st.chats \in Records
  BY DEF State
<1>. QED  BY <1>1, RecordsAre, NoRecords DEF Entry

\* The three ways in which a record of the state is changed.
LEMMA DroppedIs ==
  ASSUME NEW st \in State, run \in Run, run.todo # <<>>
  PROVE  /\ Dropped(st).kb = st.kb /\ Dropped(st).emb = st.emb /\ Dropped(st).pass = st.pass
         /\ DOMAIN Dropped(st).chats = DOMAIN st.chats \ {This.chat}
         /\ \A d \in DOMAIN st.chats \ {This.chat} : Dropped(st).chats[d] = st.chats[d]
<1>1. st.chats \in Records
  BY DEF State
<1>. DEFINE g == Partial(st.chats, This.chat)
<1>2. /\ DOMAIN g = DOMAIN st.chats \ {This.chat}
      /\ \A d \in DOMAIN st.chats \ {This.chat} : g[d] = st.chats[d]
  BY <1>1, PartialRecord
<1>. HIDE DEF g
<1>3. /\ Dropped(st).kb = st.kb /\ Dropped(st).emb = st.emb /\ Dropped(st).pass = st.pass /\ Dropped(st).chats = g
  BY StatesAre DEF g
<1>. QED  BY <1>2, <1>3

LEMMA ClearedIs ==
  ASSUME NEW st \in State, run \in Run, run.todo # <<>>
  PROVE  /\ Cleared(st).kb = st.kb /\ Cleared(st).emb = st.emb /\ Cleared(st).pass = st.pass
         /\ DOMAIN Cleared(st).chats = DOMAIN st.chats
         /\ This.chat \in DOMAIN st.chats => Cleared(st).chats[This.chat].file = 0 /\ Cleared(st).chats[This.chat].at = 0
         /\ \A d \in DOMAIN st.chats \ {This.chat} : Cleared(st).chats[d] = st.chats[d]
<1>1. st.chats \in Records /\ [file |-> 0, at |-> 0] \in Entry
  BY DEF State, Entry
<1>. DEFINE g == [st.chats EXCEPT ![This.chat] = [file |-> 0, at |-> 0]]
<1>2. /\ DOMAIN g = DOMAIN st.chats
      /\ This.chat \in DOMAIN st.chats => g[This.chat] = [file |-> 0, at |-> 0]
      /\ \A d \in DOMAIN st.chats \ {This.chat} : g[d] = st.chats[d]
  BY <1>1, ClearedRecord
<1>. HIDE DEF g
<1>3. /\ Cleared(st).kb = st.kb /\ Cleared(st).emb = st.emb /\ Cleared(st).pass = st.pass /\ Cleared(st).chats = g
  BY StatesAre DEF g
<1>. QED  BY <1>2, <1>3

LEMMA RecordedIs ==
  ASSUME NEW st \in State, run \in Run, run.todo # <<>>, This.chat \in DOMAIN run.listed
  PROVE  /\ Recorded(st).kb = st.kb /\ Recorded(st).emb = st.emb /\ Recorded(st).pass = st.pass
         /\ DOMAIN Recorded(st).chats = DOMAIN st.chats \cup {This.chat} /\ This.chat \in Chats
         /\ Recorded(st).chats[This.chat].file = run.file
         /\ Recorded(st).chats[This.chat].at = run.listed[This.chat]
         /\ \A d \in DOMAIN st.chats \ {This.chat} : Recorded(st).chats[d] = st.chats[d]
<1>0. st.chats \in Records /\ This.chat \in Chats
  BY ThisIs DEF State, Item
<1>. DEFINE e == [file |-> run.file, at |-> run.listed[This.chat]]
           c == This.chat
           f == st.chats
           g == With(f, c, e)
<1>1. e \in Entry
  <2>1. run.file \in Nat /\ run.listed[This.chat] \in Nat
    BY RunFields, ListsAre
  <2>. QED  BY <2>1 DEF Entry
<1>2. e.file = run.file /\ e.at = run.listed[This.chat]
  OBVIOUS
<1>5. c \in Chats
  BY <1>0
<1>6. f \in Records
  BY <1>0
<1>. HIDE DEF e, c, f
<1>3. /\ DOMAIN g = DOMAIN f \cup {c} /\ g[c] = e
      /\ \A d \in DOMAIN f \ {c} : g[d] = f[d]
  BY DEF With
<1>. HIDE DEF g
<1>4. /\ Recorded(st).kb = st.kb /\ Recorded(st).emb = st.emb /\ Recorded(st).pass = st.pass /\ Recorded(st).chats = g
  BY StatesAre DEF g, e, c, f
<1>. QED  BY <1>0, <1>2, <1>3, <1>4 DEF c, f

\* What the types say of each field that the steps read.
TypedWorld ==
  /\ \A c \in Chats : chats[c].at \in Nat /\ chats[c].is \in {"unborn", "live", "gone"}
  /\ kb.id \in Nat /\ kb.last \in Nat
  /\ \A f \in kb.files : f.id \in Nat /\ f.chat \in Chats /\ f.at \in Nat /\ f.emb \in Embeddings
  /\ disk \in State /\ (run.pc # "idle" => run \in Run)
  /\ disk.kb \in Nat /\ DOMAIN disk.chats \in SUBSET Chats
  /\ \A c \in DOMAIN disk.chats : disk.chats[c].file \in Nat /\ disk.chats[c].at \in Nat
  /\ edits \in Nat /\ NoEmbedding \notin Embeddings /\ \A a \in attached : a[2] \in Nat
TypedRun == run.pc # "idle" =>
  /\ run.st.kb \in Nat /\ DOMAIN run.st.chats \in SUBSET Chats
  /\ \A c \in DOMAIN run.st.chats : run.st.chats[c].file \in Nat /\ run.st.chats[c].at \in Nat
  /\ DOMAIN run.listed \in SUBSET Chats /\ \A c \in DOMAIN run.listed : run.listed[c] \in Nat
  /\ run.pc \in Before \cup During /\ run.at \in Nat /\ run.file \in Nat

LEMMA TypedAre ==
  ASSUME Types
  PROVE  TypedWorld /\ TypedRun
<1>1. /\ \A c \in Chats : chats[c].at \in Nat /\ chats[c].is \in {"unborn", "live", "gone"}
      /\ kb.id \in Nat /\ kb.last \in Nat
      /\ \A f \in kb.files : f.id \in Nat /\ f.chat \in Chats /\ f.at \in Nat /\ f.emb \in Embeddings
      /\ disk \in State /\ edits \in Nat /\ NoEmbedding \notin Embeddings /\ \A a \in attached : a[2] \in Nat
  BY RecallAssumption, SMT DEF Types, WorldType, RunType, Chat, FileRec, RecallAssumption
<1>2. run.pc # "idle" => run \in Run /\ run.st \in State
  BY Running
<1>3. /\ disk.kb \in Nat /\ DOMAIN disk.chats \in SUBSET Chats
      /\ \A c \in DOMAIN disk.chats : disk.chats[c].file \in Nat /\ disk.chats[c].at \in Nat
  BY <1>1, EntriesAre
<1>4. run.pc # "idle" =>
      /\ run.st.kb \in Nat /\ DOMAIN run.st.chats \in SUBSET Chats
      /\ \A c \in DOMAIN run.st.chats : run.st.chats[c].file \in Nat /\ run.st.chats[c].at \in Nat
  BY <1>2, EntriesAre
<1>5. run.pc # "idle" =>
      /\ DOMAIN run.listed \in SUBSET Chats /\ \A c \in DOMAIN run.listed : run.listed[c] \in Nat
      /\ run.pc \in Before \cup During /\ run.at \in Nat /\ run.file \in Nat
  <2>1. run.pc # "idle" =>
        run.listed \in Lists /\ run.pc \in Before \cup During /\ run.at \in Nat /\ run.file \in Nat
    BY <1>2, RunFields
  <2>. QED  BY <2>1, ListsAre
<1>. QED  BY <1>1, <1>2, <1>3, <1>4, <1>5, Zenon DEF TypedWorld, TypedRun

LEMMA SameThis ==
  ASSUME run'.todo = run.todo
  PROVE  /\ This' = This
         /\ run'.st = run.st => Known' = Known
  BY DEF This, Known

\* The work after the one in hand.
LEMMA RestIs ==
  ASSUME Types, Chores, run.pc \in Working, run.todo # <<>>
  PROVE  LET rest == Tail(run.todo) IN
         /\ \A i \in DOMAIN rest : Chore(rest[i]) /\ rest[i].chat # This.chat /\ rest[i] \in Item
         /\ \A i, j \in DOMAIN rest : rest[i].chat = rest[j].chat => i = j
         /\ \A i \in DOMAIN run.todo : run.todo[i].chat = This.chat \/ \E j \in DOMAIN rest : rest[j] = run.todo[i]
<1>. DEFINE rest == Tail(run.todo)
           todo == run.todo
<1>1. run \in Run /\ todo \in Seq(Item)
  BY ThisChore, RunFields
<1>2. /\ DOMAIN todo = 1 .. Len(todo) /\ DOMAIN rest = 1 .. Len(rest)
      /\ Len(todo) \in Nat /\ Len(rest) \in Nat /\ \A i \in 1 .. Len(todo) : todo[i] \in Item
  BY <1>1, ThisIs, LenProperties, ElementOfSeq
<1>3. /\ This = todo[1] /\ 1 \in 1 .. Len(todo)
      /\ \A i \in 1 .. Len(rest) : i + 1 \in 1 .. Len(todo) /\ rest[i] = todo[i + 1]
      /\ \A i \in 1 .. Len(todo) : i = 1 \/ (i - 1 \in 1 .. Len(rest) /\ rest[i - 1] = todo[i])
  BY <1>1, ThisIs
<1>4. /\ \A i \in DOMAIN todo : Chore(todo[i])
      /\ \A i, j \in DOMAIN todo : todo[i].chat = todo[j].chat => i = j
  BY DEF Chores
<1>. HIDE DEF rest, todo
<1>5. ASSUME NEW i \in DOMAIN rest
      PROVE  Chore(rest[i]) /\ rest[i].chat # This.chat /\ rest[i] \in Item
  <2>1. i + 1 \in DOMAIN todo /\ rest[i] = todo[i + 1] /\ i + 1 # 1 /\ 1 \in DOMAIN todo
    BY <1>2, <1>3
  <2>. QED  BY <1>2, <1>3, <1>4, <2>1, Zenon
<1>6. ASSUME NEW i \in DOMAIN rest, NEW j \in DOMAIN rest, rest[i].chat = rest[j].chat
      PROVE  i = j
  <2>1. /\ i + 1 \in DOMAIN todo /\ rest[i] = todo[i + 1]
        /\ j + 1 \in DOMAIN todo /\ rest[j] = todo[j + 1]
    BY <1>2, <1>3
  <2>2. i + 1 = j + 1
    BY <1>4, <1>6, <2>1, Zenon
  <2>. QED  BY <1>2, <2>2, SMT
<1>7. ASSUME NEW i \in DOMAIN todo
      PROVE  todo[i].chat = This.chat \/ \E j \in DOMAIN rest : rest[j] = todo[i]
  BY <1>2, <1>3
<1>. QED  BY <1>5, <1>6, <1>7 DEF rest, todo

\* What opening, writing and deleting chats leaves of them.
LEMMA ChatsGrow ==
  ASSUME Types, NEW k \in Chats, Open(k) \/ Write(k) \/ Delete(k)
  PROVE  \A c \in Chats : /\ chats'[c].at \in Nat /\ chats[c].at <= chats'[c].at
                          /\ chats[c].is # "unborn" => chats'[c].is # "unborn"
                          /\ chats[c].is = "gone" => chats'[c].is = "gone"
<1>1. \A c \in Chats : chats[c].at \in Nat /\ chats'[c].at \in Nat
  BY OpenIs, TypedAre, SMT DEF Chat, TypedWorld
<1>2. \A d \in Chats : d # k => chats'[d] = chats[d]
  BY OpenIs, Zenon
<1>3. /\ chats[k].at <= chats'[k].at
      /\ chats[k].is # "unborn" => chats'[k].is # "unborn"
      /\ chats[k].is = "gone" => chats'[k].is = "gone"
  BY <1>1, OpenIs, SMT
<1>. QED  BY <1>1, <1>2, <1>3

----------------------------------------------------------------------------
(* Every step keeps each part of the invariant                              *)

\* One lemma for each part of the invariant, one step for each action.
LEMMA ChatsOKStep ==
  ASSUME Indexed, Next
  PROVE  ChatsOK'
<1>0. /\ Types /\ IsFiniteSet(Used) /\ ChatsOK /\ Kept /\ Wired /\ Sound /\ Bound /\ Prepared /\ Saved /\ Aligned
      /\ Listed /\ Chores /\ Covered /\ InHand /\ Uploaded /\ Truth
  BY DEF Indexed, Books, Pass
<1>1. TypedWorld
  BY <1>0, TypedAre
<1>2. TypedRun
  BY <1>0, TypedAre
<1>. USE DEF Before, During, Working, OnChat, TypedWorld, TypedRun,
             Ends, Saves, Quiet, SamePlan, SameList, SameHand, host, At
<1>3. Cut => ChatsOK'
  BY <1>0, CutIs, SMT DEF ChatsOK, Idle
<1>4. ResetKnowledge => ChatsOK'
  BY <1>0, ResetIs, SMT DEF ChatsOK, Idle
<1>5. EnsureKnowledge => ChatsOK'
  BY <1>0, EnsureIs, SMT DEF ChatsOK, Idle
<1>6. SaveBegun => ChatsOK'
  BY <1>0, SaveBegunIs, SMT DEF ChatsOK, Idle
<1>7. RecallChats => ChatsOK'
  BY <1>0, RecallChatsIs, SMT DEF ChatsOK, Idle
<1>8. RemoveKnowledgeFile => ChatsOK'
  BY <1>0, RemoveIs, SMT DEF ChatsOK, Idle
<1>9. ClearEntry => ChatsOK'
  BY <1>0, ClearIs, ClearedIs, SMT DEF ChatsOK, Idle
<1>10. DropEntry => ChatsOK'
  BY <1>0, DropIs, DroppedIs, SMT DEF ChatsOK, Idle
<1>11. GetChat => ChatsOK'
  BY <1>0, GetChatIs, SMT DEF ChatsOK, Idle
<1>12. SkipChat => ChatsOK'
  BY <1>0, SkipIs, DroppedIs, SMT DEF ChatsOK, Idle
<1>13. UploadToKnowledge => ChatsOK'
  BY <1>0, UploadIs, SMT DEF ChatsOK, Idle
<1>14. RecordChat => ChatsOK'
  BY <1>0, RecordIs, RecordedIs, SMT DEF ChatsOK, Idle
<1>15. DiscoverModel => ChatsOK'
  BY <1>0, DiscoverIs, SMT DEF ChatsOK, Idle
<1>16. AttachKnowledge => ChatsOK'
  BY <1>0, AttachIs, SMT DEF ChatsOK, Idle
<1>17. Stamp => ChatsOK'
  BY <1>0, StampIs, SMT DEF ChatsOK, Idle
<1>18. DeleteCollection => ChatsOK'
  BY <1>0, <1>1, <1>2, DeleteCollectionIs, WorldIs, SMT DEF ChatsOK, World
<1>19. LoseState => ChatsOK'
  BY <1>0, <1>1, <1>2, LoseStateIs, WorldIs, SMT DEF ChatsOK, World
<1>20. (ModelSwap \/ EditConfig \/ Install) => ChatsOK'
  BY <1>0, <1>1, <1>2, HostIs, WorldIs, SMT DEF ChatsOK, World
<1>21. ASSUME NEW k \in Chats, Open(k) \/ Write(k) \/ Delete(k)
      PROVE  ChatsOK'
  BY <1>0, <1>21, <1>1, <1>2, OpenIs, WorldIs, SMT DEF ChatsOK, World
<1>22. ASSUME NEW rebuild \in BOOLEAN, NEW ack \in BOOLEAN, Begin(rebuild, ack)
      PROVE  ChatsOK'
  BY <1>0, <1>22, <1>1, <1>2, BeginIs, SMT DEF ChatsOK
<1>. QED
  BY <1>3, <1>4, <1>5, <1>6, <1>7, <1>8, <1>9, <1>10, <1>11, <1>12, <1>13, <1>14, <1>15, <1>16, <1>17, <1>18,
     <1>19, <1>20, <1>21, <1>22 DEF Next, Step, World

LEMMA KeptStep ==
  ASSUME Indexed, Next
  PROVE  Kept'
<1>0. /\ Types /\ IsFiniteSet(Used) /\ ChatsOK /\ Kept /\ Wired /\ Sound /\ Bound /\ Prepared /\ Saved /\ Aligned
      /\ Listed /\ Chores /\ Covered /\ InHand /\ Uploaded /\ Truth
  BY DEF Indexed, Books, Pass
<1>1. TypedWorld
  BY <1>0, TypedAre
<1>2. TypedRun
  BY <1>0, TypedAre
<1>. USE DEF Before, During, Working, OnChat, TypedWorld, TypedRun,
             Ends, Saves, Quiet, SamePlan, SameList, SameHand, host, At
<1>3. Cut => Kept'
  BY <1>0, CutIs, SMT DEF Kept, Idle
<1>4. ResetKnowledge => Kept'
  BY <1>0, ResetIs, SMT DEF Kept, Idle
<1>5. EnsureKnowledge => Kept'
  BY <1>0, EnsureIs, SMT DEF Kept, Idle
<1>6. SaveBegun => Kept'
  BY <1>0, SaveBegunIs, SMT DEF Kept, Idle
<1>7. RecallChats => Kept'
  BY <1>0, RecallChatsIs, SMT DEF Kept, Idle
<1>8. RemoveKnowledgeFile => Kept'
  BY <1>0, RemoveIs, SMT DEF Kept, Idle
<1>9. ClearEntry => Kept'
  BY <1>0, ClearIs, ClearedIs, SMT DEF Kept, Idle
<1>10. DropEntry => Kept'
  BY <1>0, DropIs, DroppedIs, SMT DEF Kept, Idle
<1>11. GetChat => Kept'
  BY <1>0, GetChatIs, SMT DEF Kept, Idle
<1>12. SkipChat => Kept'
  BY <1>0, SkipIs, DroppedIs, SMT DEF Kept, Idle
<1>13. UploadToKnowledge => Kept'
  <2>. SUFFICES ASSUME UploadToKnowledge PROVE Kept'
    OBVIOUS
  <2>0. /\ run.pc = "join" /\ chats' = chats /\ kb'.id = kb.id /\ kb'.last = kb.last
        /\ This.chat \in Chats /\ This.chat \in DOMAIN run.listed
    BY <1>0, UploadIs DEF Item
  <2>1. CASE kb' = kb
    BY <1>0, <2>0, <2>1 DEF Kept
  <2>2. CASE kb' # kb
    <3>1. PICK n \in Nat \ (Used \cup {0}) :
            /\ run.st.kb = kb.id
            /\ kb'.files = kb.files \cup {[id |-> n, chat |-> This.chat, at |-> run.at, emb |-> embedder]}
      BY <1>0, <2>2, UploadIs, Zenon
    <3>. DEFINE g == [id |-> n, chat |-> This.chat, at |-> run.at, emb |-> embedder]
    <3>2. \A f \in kb.files : f.id # n
      BY <3>1 DEF Used
    <3>3. g.id = n /\ g.chat = This.chat /\ g.at = run.at
      OBVIOUS
    <3>4. 1 <= run.at /\ run.at <= chats[This.chat].at
      BY <1>0, <1>1, <1>2, <2>0, SMT DEF InHand, Listed
    <3>5. kb.id # 0
      BY <1>0, <2>0, <3>1 DEF Saved
    <3>6. kb'.files = kb.files \cup {g}
      BY <3>1
    <3>. HIDE DEF g
    <3>. QED  BY <1>0, <2>0, <3>1, <3>2, <3>3, <3>4, <3>5, <3>6 DEF Kept
  <2>. QED  BY <2>1, <2>2
<1>14. RecordChat => Kept'
  BY <1>0, RecordIs, RecordedIs, SMT DEF Kept, Idle
<1>15. DiscoverModel => Kept'
  BY <1>0, DiscoverIs, SMT DEF Kept, Idle
<1>16. AttachKnowledge => Kept'
  BY <1>0, AttachIs, SMT DEF Kept, Idle
<1>17. Stamp => Kept'
  BY <1>0, StampIs, SMT DEF Kept, Idle
<1>18. DeleteCollection => Kept'
  BY <1>0, DeleteCollectionIs, WorldIs, SMT DEF Kept, World
<1>19. LoseState => Kept'
  BY <1>0, LoseStateIs, WorldIs, SMT DEF Kept, World
<1>20. (ModelSwap \/ EditConfig \/ Install) => Kept'
  BY <1>0, HostIs, WorldIs, SMT DEF Kept, World
<1>21. ASSUME NEW k \in Chats, Open(k) \/ Write(k) \/ Delete(k)
      PROVE  Kept'
  BY <1>0, <1>21, <1>1, <1>2, OpenIs, WorldIs, SMT DEF Kept, World
<1>22. ASSUME NEW rebuild \in BOOLEAN, NEW ack \in BOOLEAN, Begin(rebuild, ack)
      PROVE  Kept'
  BY <1>0, <1>22, BeginIs, SMT DEF Kept
<1>. QED
  BY <1>3, <1>4, <1>5, <1>6, <1>7, <1>8, <1>9, <1>10, <1>11, <1>12, <1>13, <1>14, <1>15, <1>16, <1>17, <1>18,
     <1>19, <1>20, <1>21, <1>22 DEF Next, Step, World

LEMMA WiredStep ==
  ASSUME Indexed, Next
  PROVE  Wired'
<1>0. /\ Types /\ IsFiniteSet(Used) /\ ChatsOK /\ Kept /\ Wired /\ Sound /\ Bound /\ Prepared /\ Saved /\ Aligned
      /\ Listed /\ Chores /\ Covered /\ InHand /\ Uploaded /\ Truth
  BY DEF Indexed, Books, Pass
<1>1. TypedWorld
  BY <1>0, TypedAre
<1>2. TypedRun
  BY <1>0, TypedAre
<1>. USE DEF Before, During, Working, OnChat, TypedWorld, TypedRun,
             Ends, Saves, Quiet, SamePlan, SameList, SameHand, host, At
<1>3. Cut => Wired'
  BY <1>0, CutIs, SMT DEF Wired, Idle
<1>4. ResetKnowledge => Wired'
  BY <1>0, ResetIs, SMT DEF Wired, Idle
<1>5. EnsureKnowledge => Wired'
  BY <1>0, <1>1, <1>2, EnsureIs, SMT DEF Wired, Idle
<1>6. SaveBegun => Wired'
  BY <1>0, SaveBegunIs, SMT DEF Wired, Idle
<1>7. RecallChats => Wired'
  BY <1>0, RecallChatsIs, SMT DEF Wired, Idle
<1>8. RemoveKnowledgeFile => Wired'
  BY <1>0, RemoveIs, SMT DEF Wired, Idle
<1>9. ClearEntry => Wired'
  BY <1>0, ClearIs, ClearedIs, SMT DEF Wired, Idle
<1>10. DropEntry => Wired'
  BY <1>0, DropIs, DroppedIs, SMT DEF Wired, Idle
<1>11. GetChat => Wired'
  BY <1>0, GetChatIs, SMT DEF Wired, Idle
<1>12. SkipChat => Wired'
  BY <1>0, SkipIs, DroppedIs, SMT DEF Wired, Idle
<1>13. UploadToKnowledge => Wired'
  BY <1>0, UploadIs, SMT DEF Wired, Idle
<1>14. RecordChat => Wired'
  BY <1>0, RecordIs, RecordedIs, SMT DEF Wired, Idle
<1>15. DiscoverModel => Wired'
  BY <1>0, DiscoverIs, SMT DEF Wired, Idle
<1>16. AttachKnowledge => Wired'
  BY <1>0, <1>1, <1>2, AttachIs, SMT DEF Wired, Saved, Sound, SoundState, Idle
<1>17. Stamp => Wired'
  BY <1>0, StampIs, SMT DEF Wired, Idle
<1>18. DeleteCollection => Wired'
  BY <1>0, DeleteCollectionIs, WorldIs, SMT DEF Wired, World
<1>19. LoseState => Wired'
  BY <1>0, LoseStateIs, WorldIs, SMT DEF Wired, World
<1>20. (ModelSwap \/ EditConfig \/ Install) => Wired'
  BY <1>0, HostIs, WorldIs, SMT DEF Wired, World
<1>21. ASSUME NEW k \in Chats, Open(k) \/ Write(k) \/ Delete(k)
      PROVE  Wired'
  BY <1>0, <1>21, OpenIs, WorldIs, SMT DEF Wired, World
<1>22. ASSUME NEW rebuild \in BOOLEAN, NEW ack \in BOOLEAN, Begin(rebuild, ack)
      PROVE  Wired'
  BY <1>0, <1>22, BeginIs, SMT DEF Wired
<1>. QED
  BY <1>3, <1>4, <1>5, <1>6, <1>7, <1>8, <1>9, <1>10, <1>11, <1>12, <1>13, <1>14, <1>15, <1>16, <1>17, <1>18,
     <1>19, <1>20, <1>21, <1>22 DEF Next, Step, World

LEMMA SoundStep ==
  ASSUME Indexed, Next
  PROVE  Sound'
<1>0. /\ Types /\ IsFiniteSet(Used) /\ ChatsOK /\ Kept /\ Wired /\ Sound /\ Bound /\ Prepared /\ Saved /\ Aligned
      /\ Listed /\ Chores /\ Covered /\ InHand /\ Uploaded /\ Truth
  BY DEF Indexed, Books, Pass
<1>1. TypedWorld
  BY <1>0, TypedAre
<1>2. TypedRun
  BY <1>0, TypedAre
<1>. USE DEF Before, During, Working, OnChat, TypedWorld, TypedRun,
             Ends, Saves, Quiet, SamePlan, SameList, SameHand, host, At
<1>3. Cut => Sound'
  BY <1>0, CutIs, SMT DEF Sound, SoundState, Listed, Uploaded, Prepared, Saved, Kept, Idle
<1>4. ResetKnowledge => Sound'
  BY <1>0, ResetIs, SMT DEF Sound, SoundState, Listed, Uploaded, Prepared, Saved, Kept, Idle
<1>5. EnsureKnowledge => Sound'
  BY <1>0, <1>1, <1>2, EnsureIs, SMT DEF Sound, SoundState, Listed, Uploaded, Prepared, Saved, Kept, Idle
<1>6. SaveBegun => Sound'
  BY <1>0, SaveBegunIs, SMT DEF Sound, SoundState, Listed, Uploaded, Prepared, Saved, Kept, Idle
<1>7. RecallChats => Sound'
  BY <1>0, RecallChatsIs, SMT DEF Sound, SoundState, Listed, Uploaded, Prepared, Saved, Kept, Idle
<1>8. RemoveKnowledgeFile => Sound'
  BY <1>0, RemoveIs, SMT DEF Sound, SoundState, Listed, Uploaded, Prepared, Saved, Kept, Idle
<1>9. ClearEntry => Sound'
  <2>. SUFFICES ASSUME ClearEntry PROVE Sound'
    OBVIOUS
  <2>. DEFINE st == Cleared(run.st)
  <2>0. run.pc = "removed" /\ run \in Run /\ run.st \in State /\ run.todo # <<>> /\ SoundState(run.st) /\ chats' = chats /\ kb' = kb
    BY <1>0, ClearIs DEF Sound
  <2>1. /\ st.kb = run.st.kb /\ DOMAIN st.chats = DOMAIN run.st.chats
        /\ \A c \in DOMAIN st.chats : st.chats[c] = run.st.chats[c] \/ (st.chats[c].file = 0 /\ st.chats[c].at = 0)
    BY <2>0, ClearedIs
  <2>2. disk' = st /\ (run'.pc = "idle" \/ run'.st = st)
    BY <1>0, ClearIs DEF Idle
  <2>. HIDE DEF st
  <2>3. SoundState(st)
    <3>1. ASSUME NEW c \in DOMAIN st.chats
          PROVE  chats[c].is # "unborn" /\ st.chats[c].at <= chats[c].at
      <4>1. /\ c \in DOMAIN run.st.chats /\ c \in Chats /\ run.st.chats[c].at <= chats[c].at /\ chats[c].is # "unborn"
        BY <1>2, <1>0, <2>0, <2>1 DEF SoundState
      <4>2. chats[c].at \in Nat
        BY <1>1, <4>1
      <4>. QED  BY <2>1, <4>1, <4>2
    <3>2. ASSUME NEW c \in DOMAIN st.chats, NEW d \in DOMAIN st.chats,
                 st.chats[c].file = st.chats[d].file, st.chats[c].file # 0
          PROVE  c = d
      <4>1. st.chats[c] = run.st.chats[c] /\ st.chats[d] = run.st.chats[d]
        BY <2>1, <3>2
      <4>. QED  BY <2>0, <2>1, <3>2, <4>1 DEF SoundState
    <3>3. st.kb <= kb.last
      BY <2>0, <2>1 DEF SoundState
    <3>. QED  BY <3>1, <3>2, <3>3 DEF SoundState
  <2>. QED  BY <2>0, <2>2, <2>3 DEF Sound, SoundState
<1>10. DropEntry => Sound'
  BY <1>0, DropIs, DroppedIs, SMT DEF Sound, SoundState, Listed, Uploaded, Prepared, Saved, Kept, Idle
<1>11. GetChat => Sound'
  BY <1>0, GetChatIs, SMT DEF Sound, SoundState, Listed, Uploaded, Prepared, Saved, Kept, Idle
<1>12. SkipChat => Sound'
  BY <1>0, SkipIs, DroppedIs, SMT DEF Sound, SoundState, Listed, Uploaded, Prepared, Saved, Kept, Idle
<1>13. UploadToKnowledge => Sound'
  BY <1>0, UploadIs, SMT DEF Sound, SoundState, Listed, Uploaded, Prepared, Saved, Kept, Idle
<1>14. RecordChat => Sound'
  BY <1>0, RecordIs, RecordedIs, SMT DEF Sound, SoundState, Listed, Uploaded, Prepared, Saved, Kept, Idle
<1>15. DiscoverModel => Sound'
  BY <1>0, DiscoverIs, SMT DEF Sound, SoundState, Listed, Uploaded, Prepared, Saved, Kept, Idle
<1>16. AttachKnowledge => Sound'
  BY <1>0, AttachIs, SMT DEF Sound, SoundState, Listed, Uploaded, Prepared, Saved, Kept, Idle
<1>17. Stamp => Sound'
  BY <1>0, StampIs, SMT DEF Sound, SoundState, Listed, Uploaded, Prepared, Saved, Kept, Idle
<1>18. DeleteCollection => Sound'
  BY <1>0, DeleteCollectionIs, WorldIs, SMT DEF Sound, SoundState, Listed, Uploaded, Prepared, Saved, Kept, World
<1>19. LoseState => Sound'
  BY <1>0, <1>1, <1>2, LoseStateIs, WorldIs, SMT DEF Sound, SoundState, Listed, Uploaded, Prepared, Saved, Kept, World
<1>20. (ModelSwap \/ EditConfig \/ Install) => Sound'
  BY <1>0, HostIs, WorldIs, SMT DEF Sound, SoundState, Listed, Uploaded, Prepared, Saved, Kept, World
<1>21. ASSUME NEW k \in Chats, Open(k) \/ Write(k) \/ Delete(k)
      PROVE  Sound'
  <2>1. disk' = disk /\ run' = run /\ kb' = kb
    BY <1>0, <1>21, OpenIs, WorldIs DEF World
  <2>2. \A c \in Chats : chats'[c].at \in Nat /\ chats[c].at <= chats'[c].at /\ (chats[c].is # "unborn" => chats'[c].is # "unborn")
    BY <1>0, <1>21, ChatsGrow
  <2>3. SoundState(disk) => SoundState(disk)'
    BY <1>1, <2>1, <2>2, SMT DEF SoundState
  <2>4. run.pc # "idle" /\ SoundState(run.st) => SoundState(run.st)'
    BY <1>1, <1>2, <2>1, <2>2, SMT DEF SoundState
  <2>. QED  BY <1>0, <2>1, <2>3, <2>4 DEF Sound
<1>22. ASSUME NEW rebuild \in BOOLEAN, NEW ack \in BOOLEAN, Begin(rebuild, ack)
      PROVE  Sound'
  BY <1>0, <1>22, BeginIs, SMT DEF Sound, SoundState, Listed, Uploaded, Prepared, Saved, Kept
<1>. QED
  BY <1>3, <1>4, <1>5, <1>6, <1>7, <1>8, <1>9, <1>10, <1>11, <1>12, <1>13, <1>14, <1>15, <1>16, <1>17, <1>18,
     <1>19, <1>20, <1>21, <1>22 DEF Next, Step, World

LEMMA BoundStep ==
  ASSUME Indexed, Next
  PROVE  Bound'
<1>0. /\ Types /\ IsFiniteSet(Used) /\ ChatsOK /\ Kept /\ Wired /\ Sound /\ Bound /\ Prepared /\ Saved /\ Aligned
      /\ Listed /\ Chores /\ Covered /\ InHand /\ Uploaded /\ Truth
  BY DEF Indexed, Books, Pass
<1>1. TypedWorld
  BY <1>0, TypedAre
<1>2. TypedRun
  BY <1>0, TypedAre
<1>. USE DEF Before, During, Working, OnChat, TypedWorld, TypedRun,
             Ends, Saves, Quiet, SamePlan, SameList, SameHand, host, At
<1>3. Cut => Bound'
  BY <1>0, CutIs, SMT DEF Bound, Idle
<1>4. ResetKnowledge => Bound'
  BY <1>0, ResetIs, SMT DEF Bound, Idle
<1>5. EnsureKnowledge => Bound'
  BY <1>0, EnsureIs, SMT DEF Bound, Idle
<1>6. SaveBegun => Bound'
  <2>. SUFFICES ASSUME SaveBegun PROVE Bound'
    OBVIOUS
  <2>1. /\ run.pc = "begin" /\ disk' = run.st /\ kb' = kb
        /\ emptied' = (emptied /\ (run.st.chats # <<>> \/ run.st.kb # kb.id))
    BY <1>0, SaveBegunIs
  <2>2. run.st.emb \in Embeddings /\ run.st.kb # 0 /\ (~emptied => run.st.kb = kb.id)
    BY <1>0, <2>1 DEF Prepared
  <2>3. ~emptied' => run.st.kb = kb.id
    BY <2>1, <2>2, Zenon
  <2>. QED  BY <1>1, <2>1, <2>2, <2>3, Zenon DEF Bound
<1>7. RecallChats => Bound'
  BY <1>0, RecallChatsIs, SMT DEF Bound, Idle
<1>8. RemoveKnowledgeFile => Bound'
  BY <1>0, RemoveIs, SMT DEF Bound, Idle
<1>9. ClearEntry => Bound'
  BY <1>0, ClearIs, ClearedIs, SMT DEF Bound, Prepared, Saved, Idle
<1>10. DropEntry => Bound'
  BY <1>0, <1>1, <1>2, DropIs, DroppedIs, SMT DEF Bound, Prepared, Saved, Idle
<1>11. GetChat => Bound'
  BY <1>0, GetChatIs, SMT DEF Bound, Idle
<1>12. SkipChat => Bound'
  BY <1>0, <1>1, <1>2, SkipIs, DroppedIs, SMT DEF Bound, Prepared, Saved, Idle
<1>13. UploadToKnowledge => Bound'
  BY <1>0, UploadIs, SMT DEF Bound, Idle
<1>14. RecordChat => Bound'
  BY <1>0, <1>1, <1>2, RecordIs, RecordedIs, SMT DEF Bound, Prepared, Saved, Idle
<1>15. DiscoverModel => Bound'
  BY <1>0, DiscoverIs, SMT DEF Bound, Idle
<1>16. AttachKnowledge => Bound'
  BY <1>0, AttachIs, SMT DEF Bound, Idle
<1>17. Stamp => Bound'
  BY <1>0, StampIs, SMT DEF Bound, Prepared, Saved, Idle
<1>18. DeleteCollection => Bound'
  BY <1>0, DeleteCollectionIs, WorldIs, SMT DEF Bound, World
<1>19. LoseState => Bound'
  BY <1>0, LoseStateIs, WorldIs, SMT DEF Bound, World
<1>20. (ModelSwap \/ EditConfig \/ Install) => Bound'
  BY <1>0, HostIs, WorldIs, SMT DEF Bound, World
<1>21. ASSUME NEW k \in Chats, Open(k) \/ Write(k) \/ Delete(k)
      PROVE  Bound'
  BY <1>0, <1>21, OpenIs, WorldIs, SMT DEF Bound, World
<1>22. ASSUME NEW rebuild \in BOOLEAN, NEW ack \in BOOLEAN, Begin(rebuild, ack)
      PROVE  Bound'
  BY <1>0, <1>22, BeginIs, SMT DEF Bound
<1>. QED
  BY <1>3, <1>4, <1>5, <1>6, <1>7, <1>8, <1>9, <1>10, <1>11, <1>12, <1>13, <1>14, <1>15, <1>16, <1>17, <1>18,
     <1>19, <1>20, <1>21, <1>22 DEF Next, Step, World

LEMMA PreparedStep ==
  ASSUME Indexed, Next
  PROVE  Prepared'
<1>0. /\ Types /\ IsFiniteSet(Used) /\ ChatsOK /\ Kept /\ Wired /\ Sound /\ Bound /\ Prepared /\ Saved /\ Aligned
      /\ Listed /\ Chores /\ Covered /\ InHand /\ Uploaded /\ Truth
  BY DEF Indexed, Books, Pass
<1>1. TypedWorld
  BY <1>0, TypedAre
<1>2. TypedRun
  BY <1>0, TypedAre
<1>. USE DEF Before, During, Working, OnChat, TypedWorld, TypedRun,
             Ends, Saves, Quiet, SamePlan, SameList, SameHand, host, At
<1>3. Cut => Prepared'
  BY <1>0, CutIs, SMT DEF Prepared, Idle
<1>4. ResetKnowledge => Prepared'
  BY <1>0, ResetIs, SMT DEF Prepared, Idle
<1>5. EnsureKnowledge => Prepared'
  BY <1>0, <1>1, <1>2, EnsureIs, SMT DEF Prepared, Idle
<1>6. SaveBegun => Prepared'
  BY <1>0, SaveBegunIs, SMT DEF Prepared, Idle
<1>7. RecallChats => Prepared'
  BY <1>0, RecallChatsIs, SMT DEF Prepared, Idle
<1>8. RemoveKnowledgeFile => Prepared'
  BY <1>0, RemoveIs, SMT DEF Prepared, Idle
<1>9. ClearEntry => Prepared'
  BY <1>0, ClearIs, ClearedIs, SMT DEF Prepared, Idle
<1>10. DropEntry => Prepared'
  BY <1>0, DropIs, DroppedIs, SMT DEF Prepared, Idle
<1>11. GetChat => Prepared'
  BY <1>0, GetChatIs, SMT DEF Prepared, Idle
<1>12. SkipChat => Prepared'
  BY <1>0, SkipIs, DroppedIs, SMT DEF Prepared, Idle
<1>13. UploadToKnowledge => Prepared'
  BY <1>0, UploadIs, SMT DEF Prepared, Idle
<1>14. RecordChat => Prepared'
  BY <1>0, RecordIs, RecordedIs, SMT DEF Prepared, Idle
<1>15. DiscoverModel => Prepared'
  BY <1>0, DiscoverIs, SMT DEF Prepared, Idle
<1>16. AttachKnowledge => Prepared'
  BY <1>0, AttachIs, SMT DEF Prepared, Idle
<1>17. Stamp => Prepared'
  BY <1>0, StampIs, SMT DEF Prepared, Idle
<1>18. DeleteCollection => Prepared'
  BY <1>0, DeleteCollectionIs, WorldIs, SMT DEF Prepared, World
<1>19. LoseState => Prepared'
  BY <1>0, LoseStateIs, WorldIs, SMT DEF Prepared, World
<1>20. (ModelSwap \/ EditConfig \/ Install) => Prepared'
  BY <1>0, HostIs, WorldIs, SMT DEF Prepared, World
<1>21. ASSUME NEW k \in Chats, Open(k) \/ Write(k) \/ Delete(k)
      PROVE  Prepared'
  BY <1>0, <1>21, OpenIs, WorldIs, SMT DEF Prepared, World
<1>22. ASSUME NEW rebuild \in BOOLEAN, NEW ack \in BOOLEAN, Begin(rebuild, ack)
      PROVE  Prepared'
  <2>1. /\ run.pc = "idle" /\ run'.pc = IF rebuild /\ disk.kb # 0 THEN "reset" ELSE "ensure"
        /\ run'.st.chats = (IF rebuild THEN <<>> ELSE disk.chats)
        /\ run'.st.emb = config /\ run'.st.kb = disk.kb /\ run'.st.pass = "partial"
        /\ rebuild \/ disk.emb \in {NoEmbedding, config}
        /\ disk' = disk /\ kb' = kb /\ stray' = stray /\ config \in Embeddings
    BY <1>0, <1>22, BeginIs DEF Types, WorldType
  <2>2. run'.pc = "reset" => rebuild /\ disk.kb # 0
    BY <2>1
  <2>3. run'.pc \in {"reset", "ensure"}
    BY <2>1
  <2>4. ASSUME run'.pc = "ensure", run'.st.chats = <<>>, NEW f \in kb.files
        PROVE  f.id \in stray
    <3>1. rebuild => disk.kb = 0
      BY <2>1, <2>4
    <3>2. disk.chats = <<>>
      BY <1>0, <2>1, <2>4, <3>1 DEF Bound
    <3>3. DOMAIN disk.chats = {}
      BY <1>1, <3>2, EntriesAre
    <3>. QED  BY <1>0, <2>1, <3>3 DEF Truth, NothingElse
  <2>5. run'.st.chats = <<>> \/ (run'.st.chats = disk.chats /\ disk.emb \in {NoEmbedding, run'.st.emb})
    BY <2>1
  <2>. QED  BY <2>1, <2>2, <2>3, <2>4, <2>5 DEF Prepared
<1>. QED
  BY <1>3, <1>4, <1>5, <1>6, <1>7, <1>8, <1>9, <1>10, <1>11, <1>12, <1>13, <1>14, <1>15, <1>16, <1>17, <1>18,
     <1>19, <1>20, <1>21, <1>22 DEF Next, Step, World

LEMMA SavedStep ==
  ASSUME Indexed, Next
  PROVE  Saved'
<1>0. /\ Types /\ IsFiniteSet(Used) /\ ChatsOK /\ Kept /\ Wired /\ Sound /\ Bound /\ Prepared /\ Saved /\ Aligned
      /\ Listed /\ Chores /\ Covered /\ InHand /\ Uploaded /\ Truth
  BY DEF Indexed, Books, Pass
<1>1. TypedWorld
  BY <1>0, TypedAre
<1>2. TypedRun
  BY <1>0, TypedAre
<1>. USE DEF Before, During, Working, OnChat, TypedWorld, TypedRun,
             Ends, Saves, Quiet, SamePlan, SameList, SameHand, host, At
<1>3. Cut => Saved'
  BY <1>0, CutIs, SMT DEF Saved, Idle
<1>4. ResetKnowledge => Saved'
  BY <1>0, ResetIs, SMT DEF Saved, Idle
<1>5. EnsureKnowledge => Saved'
  BY <1>0, EnsureIs, SMT DEF Saved, Idle
<1>6. SaveBegun => Saved'
  BY <1>0, SaveBegunIs, SMT DEF Saved, Prepared, Idle
<1>7. RecallChats => Saved'
  BY <1>0, RecallChatsIs, SMT DEF Saved, Idle
<1>8. RemoveKnowledgeFile => Saved'
  BY <1>0, RemoveIs, SMT DEF Saved, Idle
<1>9. ClearEntry => Saved'
  BY <1>0, ClearIs, ClearedIs, SMT DEF Saved, Idle
<1>10. DropEntry => Saved'
  BY <1>0, DropIs, DroppedIs, SMT DEF Saved, Idle
<1>11. GetChat => Saved'
  BY <1>0, GetChatIs, SMT DEF Saved, Idle
<1>12. SkipChat => Saved'
  BY <1>0, SkipIs, DroppedIs, SMT DEF Saved, Idle
<1>13. UploadToKnowledge => Saved'
  BY <1>0, UploadIs, SMT DEF Saved, Idle
<1>14. RecordChat => Saved'
  BY <1>0, RecordIs, RecordedIs, SMT DEF Saved, Idle
<1>15. DiscoverModel => Saved'
  BY <1>0, DiscoverIs, SMT DEF Saved, Idle
<1>16. AttachKnowledge => Saved'
  BY <1>0, AttachIs, SMT DEF Saved, Idle
<1>17. Stamp => Saved'
  BY <1>0, StampIs, SMT DEF Saved, Idle
<1>18. DeleteCollection => Saved'
  BY <1>0, DeleteCollectionIs, WorldIs, SMT DEF Saved, World
<1>19. LoseState => Saved'
  BY <1>0, LoseStateIs, WorldIs, SMT DEF Saved, World
<1>20. (ModelSwap \/ EditConfig \/ Install) => Saved'
  BY <1>0, HostIs, WorldIs, SMT DEF Saved, World
<1>21. ASSUME NEW k \in Chats, Open(k) \/ Write(k) \/ Delete(k)
      PROVE  Saved'
  BY <1>0, <1>21, OpenIs, WorldIs, SMT DEF Saved, World
<1>22. ASSUME NEW rebuild \in BOOLEAN, NEW ack \in BOOLEAN, Begin(rebuild, ack)
      PROVE  Saved'
  BY <1>0, <1>22, BeginIs, SMT DEF Saved
<1>. QED
  BY <1>3, <1>4, <1>5, <1>6, <1>7, <1>8, <1>9, <1>10, <1>11, <1>12, <1>13, <1>14, <1>15, <1>16, <1>17, <1>18,
     <1>19, <1>20, <1>21, <1>22 DEF Next, Step, World

LEMMA AlignedStep ==
  ASSUME Indexed, Next
  PROVE  Aligned'
<1>0. /\ Types /\ IsFiniteSet(Used) /\ ChatsOK /\ Kept /\ Wired /\ Sound /\ Bound /\ Prepared /\ Saved /\ Aligned
      /\ Listed /\ Chores /\ Covered /\ InHand /\ Uploaded /\ Truth
  BY DEF Indexed, Books, Pass
<1>1. TypedWorld
  BY <1>0, TypedAre
<1>2. TypedRun
  BY <1>0, TypedAre
<1>. USE DEF Before, During, Working, OnChat, TypedWorld, TypedRun,
             Ends, Saves, Quiet, SamePlan, SameList, SameHand, host, At
<1>3. Cut => Aligned'
  BY <1>0, CutIs, SMT DEF Aligned, Idle
<1>4. ResetKnowledge => Aligned'
  BY <1>0, ResetIs, SMT DEF Aligned, Idle
<1>5. EnsureKnowledge => Aligned'
  BY <1>0, EnsureIs, SMT DEF Aligned, Idle
<1>6. SaveBegun => Aligned'
  BY <1>0, SaveBegunIs, SMT DEF Aligned, Idle
<1>7. RecallChats => Aligned'
  BY <1>0, RecallChatsIs, SMT DEF Aligned, Idle
<1>8. RemoveKnowledgeFile => Aligned'
  BY <1>0, RemoveIs, SMT DEF Aligned, Idle
<1>9. ClearEntry => Aligned'
  BY <1>0, ClearIs, ClearedIs, SMT DEF Aligned, Idle
<1>10. DropEntry => Aligned'
  BY <1>0, DropIs, DroppedIs, SMT DEF Aligned, Idle
<1>11. GetChat => Aligned'
  BY <1>0, GetChatIs, SMT DEF Aligned, Idle
<1>12. SkipChat => Aligned'
  BY <1>0, SkipIs, DroppedIs, SMT DEF Aligned, Idle
<1>13. UploadToKnowledge => Aligned'
  BY <1>0, UploadIs, SMT DEF Aligned, Idle
<1>14. RecordChat => Aligned'
  BY <1>0, RecordIs, RecordedIs, SMT DEF Aligned, Idle
<1>15. DiscoverModel => Aligned'
  BY <1>0, DiscoverIs, SMT DEF Aligned, Idle
<1>16. AttachKnowledge => Aligned'
  BY <1>0, AttachIs, SMT DEF Aligned, Idle
<1>17. Stamp => Aligned'
  BY <1>0, StampIs, SMT DEF Aligned, Idle
<1>18. DeleteCollection => Aligned'
  BY <1>0, DeleteCollectionIs, WorldIs, SMT DEF Aligned, World
<1>19. LoseState => Aligned'
  BY <1>0, LoseStateIs, WorldIs, SMT DEF Aligned, World
<1>20. (ModelSwap \/ EditConfig \/ Install) => Aligned'
  <2>. SUFFICES ASSUME ModelSwap \/ EditConfig \/ Install PROVE Aligned'
    OBVIOUS
  <2>1. run' = run /\ ((embedder' = embedder /\ drifted' = drifted) \/ drifted' = (drifted \/ run # Idle))
    BY <1>0, HostIs, WorldIs, Zenon DEF World
  <2>2. run.pc # "idle" => run # Idle
    BY DEF Idle
  <2>. QED  BY <1>0, <2>1, <2>2 DEF Aligned
<1>21. ASSUME NEW k \in Chats, Open(k) \/ Write(k) \/ Delete(k)
      PROVE  Aligned'
  BY <1>0, <1>21, OpenIs, WorldIs, SMT DEF Aligned, World
<1>22. ASSUME NEW rebuild \in BOOLEAN, NEW ack \in BOOLEAN, Begin(rebuild, ack)
      PROVE  Aligned'
  <2>1. run'.st.emb = config /\ drifted' = (drifted \/ config # embedder) /\ embedder' = embedder
    BY <1>0, <1>22, BeginIs
  <2>. QED  BY <2>1 DEF Aligned
<1>. QED
  BY <1>3, <1>4, <1>5, <1>6, <1>7, <1>8, <1>9, <1>10, <1>11, <1>12, <1>13, <1>14, <1>15, <1>16, <1>17, <1>18,
     <1>19, <1>20, <1>21, <1>22 DEF Next, Step, World

LEMMA ListedStep ==
  ASSUME Indexed, Next
  PROVE  Listed'
<1>0. /\ Types /\ IsFiniteSet(Used) /\ ChatsOK /\ Kept /\ Wired /\ Sound /\ Bound /\ Prepared /\ Saved /\ Aligned
      /\ Listed /\ Chores /\ Covered /\ InHand /\ Uploaded /\ Truth
  BY DEF Indexed, Books, Pass
<1>1. TypedWorld
  BY <1>0, TypedAre
<1>2. TypedRun
  BY <1>0, TypedAre
<1>. USE DEF Before, During, Working, OnChat, TypedWorld, TypedRun,
             Ends, Saves, Quiet, SamePlan, SameList, SameHand, host, At
<1>3. Cut => Listed'
  BY <1>0, CutIs, SMT DEF Listed, Idle
<1>4. ResetKnowledge => Listed'
  BY <1>0, ResetIs, SMT DEF Listed, Idle
<1>5. EnsureKnowledge => Listed'
  BY <1>0, EnsureIs, SMT DEF Listed, Idle
<1>6. SaveBegun => Listed'
  BY <1>0, SaveBegunIs, SMT DEF Listed, Idle
<1>7. RecallChats => Listed'
  <2>. SUFFICES ASSUME RecallChats PROVE Listed'
    OBVIOUS
  <2>1. /\ chats' = chats
        /\ run' = Idle \/ (DOMAIN run'.listed = Live /\ \A c \in Live : run'.listed[c] = chats[c].at)
    BY <1>0, RecallChatsIs
  <2>2. \A c \in Live : 1 <= chats[c].at /\ chats[c].at <= chats[c].at /\ chats[c].is # "unborn"
    BY <1>0, <1>1 DEF Live, ChatsOK
  <2>. QED  BY <2>1, <2>2 DEF Listed, Idle
<1>8. RemoveKnowledgeFile => Listed'
  BY <1>0, RemoveIs, SMT DEF Listed, Idle
<1>9. ClearEntry => Listed'
  BY <1>0, ClearIs, ClearedIs, SMT DEF Listed, Idle
<1>10. DropEntry => Listed'
  BY <1>0, DropIs, DroppedIs, SMT DEF Listed, Idle
<1>11. GetChat => Listed'
  BY <1>0, GetChatIs, SMT DEF Listed, Idle
<1>12. SkipChat => Listed'
  BY <1>0, SkipIs, DroppedIs, SMT DEF Listed, Idle
<1>13. UploadToKnowledge => Listed'
  BY <1>0, UploadIs, SMT DEF Listed, Idle
<1>14. RecordChat => Listed'
  BY <1>0, RecordIs, RecordedIs, SMT DEF Listed, Idle
<1>15. DiscoverModel => Listed'
  BY <1>0, DiscoverIs, SMT DEF Listed, Idle
<1>16. AttachKnowledge => Listed'
  BY <1>0, AttachIs, SMT DEF Listed, Idle
<1>17. Stamp => Listed'
  BY <1>0, StampIs, SMT DEF Listed, Idle
<1>18. DeleteCollection => Listed'
  BY <1>0, DeleteCollectionIs, WorldIs, SMT DEF Listed, World
<1>19. LoseState => Listed'
  BY <1>0, LoseStateIs, WorldIs, SMT DEF Listed, World
<1>20. (ModelSwap \/ EditConfig \/ Install) => Listed'
  BY <1>0, HostIs, WorldIs, SMT DEF Listed, World
<1>21. ASSUME NEW k \in Chats, Open(k) \/ Write(k) \/ Delete(k)
      PROVE  Listed'
  BY <1>0, <1>21, <1>1, <1>2, OpenIs, WorldIs, SMT DEF Listed, World
<1>22. ASSUME NEW rebuild \in BOOLEAN, NEW ack \in BOOLEAN, Begin(rebuild, ack)
      PROVE  Listed'
  BY <1>0, <1>22, BeginIs, SMT DEF Listed
<1>. QED
  BY <1>3, <1>4, <1>5, <1>6, <1>7, <1>8, <1>9, <1>10, <1>11, <1>12, <1>13, <1>14, <1>15, <1>16, <1>17, <1>18,
     <1>19, <1>20, <1>21, <1>22 DEF Next, Step, World

LEMMA ChoresStep ==
  ASSUME Indexed, Next
  PROVE  Chores'
<1>0. /\ Types /\ IsFiniteSet(Used) /\ ChatsOK /\ Kept /\ Wired /\ Sound /\ Bound /\ Prepared /\ Saved /\ Aligned
      /\ Listed /\ Chores /\ Covered /\ InHand /\ Uploaded /\ Truth
  BY DEF Indexed, Books, Pass
<1>1. TypedWorld
  BY <1>0, TypedAre
<1>2. TypedRun
  BY <1>0, TypedAre
<1>. USE DEF Before, During, Working, OnChat, TypedWorld, TypedRun,
             Ends, Saves, Quiet, SamePlan, SameList, SameHand, host, At
<1>3. Cut => Chores'
  BY <1>0, CutIs, SMT DEF Chores, Idle
<1>4. ResetKnowledge => Chores'
  BY <1>0, ResetIs, SMT DEF Chores, Idle
<1>5. EnsureKnowledge => Chores'
  BY <1>0, EnsureIs, SMT DEF Chores, Idle
<1>6. SaveBegun => Chores'
  BY <1>0, SaveBegunIs, SMT DEF Chores, Idle
<1>7. RecallChats => Chores'
  <2>. SUFFICES ASSUME RecallChats, run' # Idle PROVE Chores'
    BY DEF Chores, Idle
  <2>1. /\ chats' = chats /\ run.pc = "list" /\ run'.st = run.st /\ run' \in Run
        /\ DOMAIN run'.listed = Live /\ \A c \in Live : run'.listed[c] = chats[c].at
        /\ Names(run'.todo, Planned(run'.listed, run.st.chats), Todo(run'.listed, run.st.chats))
    BY <1>0, RecallChatsIs
  <2>. DEFINE todo == run'.todo
             G == Planned(run'.listed, run.st.chats)
  <2>2. /\ todo \in Seq(G) /\ DOMAIN todo = 1 .. Len(todo) /\ \A i \in 1 .. Len(todo) : todo[i] \in G
        /\ \A i, j \in 1 .. Len(todo) : todo[i].chat = todo[j].chat => i = j
    <3>1. todo \in Seq(G) /\ \A i, j \in 1 .. Len(todo) : todo[i].chat = todo[j].chat => i = j
      <4>. HIDE DEF todo, G
      <4>. QED  BY <2>1, Zenon DEF Names, todo, G
    <3>. HIDE DEF todo, G
    <3>. QED  BY <3>1, LenProperties, ElementOfSeq
  <2>3. ASSUME NEW w \in G
        PROVE  Chore(w)'
    <3>1. /\ w.kind = "delete" => w.chat \in DOMAIN run.st.chats /\ w.chat \notin Live
          /\ w.kind = "update" => /\ w.chat \in Live /\ w.chat \in DOMAIN run.st.chats
                                  /\ run'.listed[w.chat] > run.st.chats[w.chat].at
          /\ w.kind = "add" => w.chat \in Live /\ w.chat \notin DOMAIN run.st.chats
      BY <2>1, <2>3 DEF Planned, Changed
    <3>2. w.kind = "delete" => chats[w.chat].is = "gone"
      BY <1>0, <1>1, <1>2, <2>1, <3>1 DEF Sound, SoundState, Live
    <3>3. w.kind = "update" => run.st.chats[w.chat].at < run'.listed[w.chat]
      <4>1. \A c \in Live : run'.listed[c] \in Nat
        BY <1>1, <2>1 DEF Live
      <4>. QED  BY <1>2, <2>1, <3>1, <4>1
    <3>. QED  BY <2>1, <3>1, <3>2, <3>3 DEF Chore, Old
  <2>. QED  BY <2>2, <2>3 DEF Chores
<1>8. RemoveKnowledgeFile => Chores'
  <2>. SUFFICES ASSUME RemoveKnowledgeFile, run' # Idle PROVE Chores'
    BY DEF Chores, Idle
  <2>1. /\ run.pc \in Working /\ chats' = chats
        /\ run'.st = run.st /\ run'.todo = run.todo /\ run'.listed = run.listed
    BY <1>0, RemoveIs
  <2>2. \A w : Chore(w) => Chore(w)'
    BY <2>1 DEF Chore, Old
  <2>. QED  BY <1>0, <2>1, <2>2 DEF Chores
<1>9. ClearEntry => Chores'
  <2>. SUFFICES ASSUME ClearEntry, run' # Idle PROVE Chores'
    BY DEF Chores, Idle
  <2>1. /\ run.pc = "removed" /\ run \in Run /\ run.st \in State /\ run.todo # <<>> /\ chats' = chats
        /\ run'.st = Cleared(run.st) /\ run'.todo = run.todo /\ run'.listed = run.listed
    BY <1>0, ClearIs
  <2>2. /\ DOMAIN run'.st.chats = DOMAIN run.st.chats
        /\ \A c \in DOMAIN run.st.chats : run'.st.chats[c] = run.st.chats[c] \/ run'.st.chats[c].at = 0
    BY <2>1, ClearedIs
  <2>3. \A c \in DOMAIN run.listed : 0 < run.listed[c]
    BY <1>0, <1>2, <2>1 DEF Listed
  <2>4. \A w : Chore(w) => Chore(w)'
    BY <2>1, <2>2, <2>3 DEF Chore, Old
  <2>. QED  BY <1>0, <2>1, <2>4 DEF Chores
<1>10. DropEntry => Chores'
  <2>. SUFFICES ASSUME DropEntry, run' # Idle PROVE Chores'
    BY DEF Chores, Idle
  <2>1. /\ run.pc \in {"removed", "next"} /\ run \in Run /\ run.st \in State /\ run.todo # <<>> /\ chats' = chats
        /\ run'.st = Dropped(run.st) /\ run'.todo = Tail(run.todo) /\ run'.listed = run.listed
    BY <1>0, DropIs
  <2>2. \A c : c # This.chat =>
          /\ c \in DOMAIN run'.st.chats <=> c \in DOMAIN run.st.chats
          /\ c \in DOMAIN run.st.chats => run'.st.chats[c] = run.st.chats[c]
    BY <2>1, DroppedIs
  <2>. DEFINE rest == Tail(run.todo)
  <2>3. /\ \A i \in DOMAIN rest : Chore(rest[i]) /\ rest[i].chat # This.chat
        /\ \A i, j \in DOMAIN rest : rest[i].chat = rest[j].chat => i = j
    BY <1>0, <2>1, RestIs
  <2>. HIDE DEF rest
  <2>4. \A w : Chore(w) /\ w.chat # This.chat => Chore(w)'
    BY <2>1, <2>2 DEF Chore, Old
  <2>. QED  BY <2>1, <2>3, <2>4 DEF Chores, rest
<1>11. GetChat => Chores'
  <2>. SUFFICES ASSUME GetChat, run' # Idle PROVE Chores'
    BY DEF Chores, Idle
  <2>1. /\ run.pc \in Working /\ chats' = chats
        /\ run'.st = run.st /\ run'.todo = run.todo /\ run'.listed = run.listed
    BY <1>0, GetChatIs
  <2>2. \A w : Chore(w) => Chore(w)'
    BY <2>1 DEF Chore, Old
  <2>. QED  BY <1>0, <2>1, <2>2 DEF Chores
<1>12. SkipChat => Chores'
  <2>. SUFFICES ASSUME SkipChat, run' # Idle PROVE Chores'
    BY DEF Chores, Idle
  <2>1. /\ run.pc = "skip" /\ run \in Run /\ run.st \in State /\ run.todo # <<>> /\ chats' = chats
        /\ run'.st = Dropped(run.st) /\ run'.todo = Tail(run.todo) /\ run'.listed = run.listed
    BY <1>0, SkipIs
  <2>2. \A c : c # This.chat =>
          /\ c \in DOMAIN run'.st.chats <=> c \in DOMAIN run.st.chats
          /\ c \in DOMAIN run.st.chats => run'.st.chats[c] = run.st.chats[c]
    BY <2>1, DroppedIs
  <2>. DEFINE rest == Tail(run.todo)
  <2>3. /\ \A i \in DOMAIN rest : Chore(rest[i]) /\ rest[i].chat # This.chat
        /\ \A i, j \in DOMAIN rest : rest[i].chat = rest[j].chat => i = j
    BY <1>0, <2>1, RestIs
  <2>. HIDE DEF rest
  <2>4. \A w : Chore(w) /\ w.chat # This.chat => Chore(w)'
    BY <2>1, <2>2 DEF Chore, Old
  <2>. QED  BY <2>1, <2>3, <2>4 DEF Chores, rest
<1>13. UploadToKnowledge => Chores'
  <2>. SUFFICES ASSUME UploadToKnowledge, run' # Idle PROVE Chores'
    BY DEF Chores, Idle
  <2>1. /\ run.pc \in Working /\ chats' = chats
        /\ run'.st = run.st /\ run'.todo = run.todo /\ run'.listed = run.listed
    BY <1>0, UploadIs
  <2>2. \A w : Chore(w) => Chore(w)'
    BY <2>1 DEF Chore, Old
  <2>. QED  BY <1>0, <2>1, <2>2 DEF Chores
<1>14. RecordChat => Chores'
  <2>. SUFFICES ASSUME RecordChat, run' # Idle PROVE Chores'
    BY DEF Chores, Idle
  <2>1. /\ run.pc = "record" /\ run \in Run /\ run.st \in State /\ run.todo # <<>> /\ chats' = chats
        /\ run'.st = Recorded(run.st) /\ run'.todo = Tail(run.todo) /\ run'.listed = run.listed /\ This.chat \in DOMAIN run.listed
    BY <1>0, RecordIs
  <2>2. \A c : c # This.chat =>
          /\ c \in DOMAIN run'.st.chats <=> c \in DOMAIN run.st.chats
          /\ c \in DOMAIN run.st.chats => run'.st.chats[c] = run.st.chats[c]
    BY <2>1, RecordedIs
  <2>. DEFINE rest == Tail(run.todo)
  <2>3. /\ \A i \in DOMAIN rest : Chore(rest[i]) /\ rest[i].chat # This.chat
        /\ \A i, j \in DOMAIN rest : rest[i].chat = rest[j].chat => i = j
    BY <1>0, <2>1, RestIs
  <2>. HIDE DEF rest
  <2>4. \A w : Chore(w) /\ w.chat # This.chat => Chore(w)'
    BY <2>1, <2>2 DEF Chore, Old
  <2>. QED  BY <2>1, <2>3, <2>4 DEF Chores, rest
<1>15. DiscoverModel => Chores'
  BY <1>0, DiscoverIs, SMT DEF Chores, Idle
<1>16. AttachKnowledge => Chores'
  <2>. SUFFICES ASSUME AttachKnowledge, run' # Idle PROVE Chores'
    BY DEF Chores, Idle
  <2>1. /\ run.pc \in Working /\ chats' = chats
        /\ run'.st = run.st /\ run'.todo = run.todo /\ run'.listed = run.listed
    BY <1>0, AttachIs
  <2>2. \A w : Chore(w) => Chore(w)'
    BY <2>1 DEF Chore, Old
  <2>. QED  BY <1>0, <2>1, <2>2 DEF Chores
<1>17. Stamp => Chores'
  BY <1>0, StampIs, SMT DEF Chores, Idle
<1>18. DeleteCollection => Chores'
  <2>. SUFFICES ASSUME DeleteCollection PROVE Chores'
    OBVIOUS
  <2>1. chats' = chats /\ run' = run
    BY <1>0, DeleteCollectionIs, WorldIs DEF World
  <2>2. \A w : Chore(w) => Chore(w)'
    BY <2>1 DEF Chore, Old
  <2>. QED  BY <1>0, <2>1, <2>2 DEF Chores
<1>19. LoseState => Chores'
  BY <1>0, LoseStateIs, WorldIs, SMT DEF Chores, World
<1>20. (ModelSwap \/ EditConfig \/ Install) => Chores'
  BY <1>0, HostIs, WorldIs, SMT DEF Chores, Chore, Old, Saved, World
<1>21. ASSUME NEW k \in Chats, Open(k) \/ Write(k) \/ Delete(k)
      PROVE  Chores'
  <2>1. run' = run
    BY <1>0, <1>21, WorldIs DEF World
  <2>2. \A c \in Chats : chats[c].is = "gone" => chats'[c].is = "gone"
    BY <1>0, <1>21, ChatsGrow
  <2>3. run.pc \in Working => \A i \in DOMAIN run.todo : run.todo[i].chat \in Chats
    <3>. SUFFICES ASSUME run.pc \in Working, NEW i \in DOMAIN run.todo PROVE run.todo[i].chat \in Chats
      OBVIOUS
    <3>1. run.todo \in Seq(Item)
      BY <1>1, RunFields
    <3>2. run.todo[i] \in Item
      BY <3>1, LenProperties, ElementOfSeq
    <3>. QED  BY <3>2 DEF Item
  <2>4. \A w : w.chat \in Chats /\ Chore(w) => Chore(w)'
    BY <2>1, <2>2 DEF Chore, Old
  <2>. QED  BY <1>0, <2>1, <2>3, <2>4 DEF Chores
<1>22. ASSUME NEW rebuild \in BOOLEAN, NEW ack \in BOOLEAN, Begin(rebuild, ack)
      PROVE  Chores'
  BY <1>0, <1>22, BeginIs, SMT DEF Chores
<1>. QED
  BY <1>3, <1>4, <1>5, <1>6, <1>7, <1>8, <1>9, <1>10, <1>11, <1>12, <1>13, <1>14, <1>15, <1>16, <1>17, <1>18,
     <1>19, <1>20, <1>21, <1>22 DEF Next, Step, World

LEMMA CoveredStep ==
  ASSUME Indexed, Next
  PROVE  Covered'
<1>0. /\ Types /\ IsFiniteSet(Used) /\ ChatsOK /\ Kept /\ Wired /\ Sound /\ Bound /\ Prepared /\ Saved /\ Aligned
      /\ Listed /\ Chores /\ Covered /\ InHand /\ Uploaded /\ Truth
  BY DEF Indexed, Books, Pass
<1>1. TypedWorld
  BY <1>0, TypedAre
<1>2. TypedRun
  BY <1>0, TypedAre
<1>. USE DEF Before, During, Working, OnChat, TypedWorld, TypedRun,
             Ends, Saves, Quiet, SamePlan, SameList, SameHand, host, At
<1>3. Cut => Covered'
  BY <1>0, CutIs, SMT DEF Covered, Idle
<1>4. ResetKnowledge => Covered'
  BY <1>0, ResetIs, SMT DEF Covered, Idle
<1>5. EnsureKnowledge => Covered'
  BY <1>0, EnsureIs, SMT DEF Covered, Idle
<1>6. SaveBegun => Covered'
  BY <1>0, SaveBegunIs, SMT DEF Covered, Idle
<1>7. RecallChats => Covered'
  <2>. SUFFICES ASSUME RecallChats, run' # Idle PROVE Covered'
    BY DEF Covered, Idle
  <2>1. /\ chats' = chats /\ kb' = kb /\ emptied' = emptied /\ run.pc = "list" /\ run'.st = run.st /\ run' \in Run
        /\ DOMAIN run'.listed = Live /\ \A c \in Live : run'.listed[c] = chats[c].at
        /\ Names(run'.todo, Planned(run'.listed, run.st.chats), Todo(run'.listed, run.st.chats))
    BY <1>0, RecallChatsIs
  <2>. DEFINE todo == run'.todo
             T == Todo(run'.listed, run.st.chats)
             G == Planned(run'.listed, run.st.chats)
  <2>2. DOMAIN todo = 1 .. Len(todo) /\ \A c \in T : \E i \in 1 .. Len(todo) : todo[i].chat = c
    <3>1. todo \in Seq(G) /\ \A c \in T : \E i \in 1 .. Len(todo) : todo[i].chat = c
      <4>. HIDE DEF todo, G, T
      <4>. QED  BY <2>1, Zenon DEF Names, todo, G, T
    <3>. HIDE DEF todo, G, T
    <3>. QED  BY <3>1, LenProperties
  <2>3. \A c \in T : Due(c)'
    BY <2>2 DEF Due
  <2>4. \A c \in DOMAIN run'.st.chats : c \in DOMAIN run'.listed \/ Due(c)'
    BY <2>1, <2>3 DEF Todo
  <2>5. ASSUME ~emptied, NEW c \in DOMAIN run'.listed, ~Due(c)'
        PROVE  Held(c)'
    <3>1. c \in Live /\ c \in DOMAIN run.st.chats /\ ~(run'.listed[c] > run.st.chats[c].at) /\ run'.listed[c] = chats[c].at
      BY <2>1, <2>3, <2>5 DEF Todo, Changed
    <3>2. disk = run.st
      BY <1>0, <2>1 DEF Saved
    <3>3. chats[c].at \in Nat /\ run.st.chats[c].at \in Nat
      BY <1>1, <3>1, <3>2 DEF Live
    <3>4. disk.chats[c].at >= chats[c].at
      BY <3>1, <3>2, <3>3, SMT
    <3>5. PICK f \in kb.files : f.id = disk.chats[c].file /\ f.chat = c /\ f.at = chats[c].at
      BY <1>0, <2>5, <3>1, <3>2, <3>4 DEF Truth, RecordedIsThere
    <3>. QED  BY <2>1, <3>1, <3>2, <3>3, <3>5 DEF Held, Old
  <2>. QED  BY <2>1, <2>4, <2>5, Zenon DEF Covered
<1>8. RemoveKnowledgeFile => Covered'
  <2>. SUFFICES ASSUME RemoveKnowledgeFile, run' # Idle PROVE Covered'
    BY DEF Covered, Idle
  <2>1. /\ run.pc = "next" /\ run \in Run /\ HasOld /\ run.todo # <<>> /\ emptied' = emptied
        /\ kb'.files = {f \in kb.files : f.id # Known}
        /\ run'.st = run.st /\ run'.todo = run.todo /\ run'.listed = run.listed /\ run'.skipped = run.skipped
    BY <1>0, RemoveIs
  <2>2. Due(This.chat)
    <3>1. This = run.todo[1] /\ 1 \in DOMAIN run.todo
      BY <2>1, ThisIs, RunFields, LenProperties
    <3>. QED  BY <3>1 DEF Due
  <2>3. This.chat \in DOMAIN run.st.chats /\ Known = run.st.chats[This.chat].file /\ Known # 0
    BY <2>1 DEF HasOld, Known
  <2>4. \A c : c # This.chat /\ Held(c) => Held(c)'
    <3>. SUFFICES ASSUME NEW c, c # This.chat, Held(c) PROVE Held(c)'
      OBVIOUS
    <3>1. PICK f \in kb.files : f.id = run.st.chats[c].file /\ f.chat = c /\ f.at >= run.listed[c]
      BY DEF Held
    <3>2. c \in DOMAIN run.st.chats
      BY DEF Held, Old
    <3>3. run.st.chats[c].file # Known
      BY <1>0, <2>1, <2>3, <3>2 DEF Sound, SoundState
    <3>. QED  BY <2>1, <3>1, <3>2, <3>3 DEF Held, Old
  <2>5. \A c : Due(c) => Due(c)'
    BY <2>1 DEF Due
  <2>. QED  BY <1>0, <2>1, <2>2, <2>4, <2>5 DEF Covered
<1>9. ClearEntry => Covered'
  <2>. SUFFICES ASSUME ClearEntry, run' # Idle PROVE Covered'
    BY DEF Covered, Idle
  <2>1. /\ run.pc = "removed" /\ run \in Run /\ run.st \in State /\ run.todo # <<>> /\ emptied' = emptied /\ kb' = kb
        /\ run'.st = Cleared(run.st) /\ run'.todo = run.todo /\ run'.listed = run.listed /\ run'.skipped = run.skipped
    BY <1>0, ClearIs
  <2>2. Due(This.chat)
    <3>1. This = run.todo[1] /\ 1 \in DOMAIN run.todo
      BY <2>1, ThisIs, RunFields, LenProperties
    <3>. QED  BY <3>1 DEF Due
  <2>3. /\ DOMAIN run'.st.chats = DOMAIN run.st.chats
        /\ \A c \in DOMAIN run.st.chats \ {This.chat} : run'.st.chats[c] = run.st.chats[c]
    BY <2>1, ClearedIs
  <2>4. \A c : c # This.chat /\ Held(c) => Held(c)'
    BY <2>1, <2>3 DEF Held, Old
  <2>5. \A c : Due(c) => Due(c)'
    BY <2>1 DEF Due
  <2>. QED  BY <1>0, <2>1, <2>2, <2>3, <2>4, <2>5 DEF Covered
<1>10. DropEntry => Covered'
  <2>. SUFFICES ASSUME DropEntry, run' # Idle PROVE Covered'
    BY DEF Covered, Idle
  <2>1. /\ run.pc \in {"removed", "next"} /\ This.kind = "delete" /\ run \in Run /\ run.st \in State /\ run.todo # <<>>
        /\ emptied' = emptied /\ kb' = kb
        /\ run'.st = Dropped(run.st) /\ run'.todo = Tail(run.todo) /\ run'.listed = run.listed
        /\ run'.skipped = run.skipped
    BY <1>0, DropIs
  <2>2. /\ DOMAIN run'.st.chats = DOMAIN run.st.chats \ {This.chat}
        /\ \A c \in DOMAIN run.st.chats \ {This.chat} : run'.st.chats[c] = run.st.chats[c]
    BY <2>1, DroppedIs
  <2>3. \A c : c # This.chat /\ Due(c) => Due(c)'
    BY <1>0, <2>1, RestIs DEF Due
  <2>4. \A c : c # This.chat /\ Held(c) => Held(c)'
    BY <2>1, <2>2 DEF Held, Old
  <2>5. This.chat \notin DOMAIN run.listed
    BY <1>0, <2>1, ThisChore DEF Chore
  <2>. QED  BY <1>0, <2>1, <2>2, <2>3, <2>4, <2>5 DEF Covered
<1>11. GetChat => Covered'
  <2>. SUFFICES ASSUME GetChat, run' # Idle PROVE Covered'
    BY DEF Covered, Idle
  <2>1. /\ run.pc \in {"fetch", "next"} /\ emptied' = emptied /\ kb' = kb
        /\ run'.st = run.st /\ run'.todo = run.todo /\ run'.listed = run.listed /\ run'.skipped = run.skipped
    BY <1>0, GetChatIs
  <2>2. \A c : (Due(c) => Due(c)') /\ (Held(c) => Held(c)')
    BY <2>1 DEF Due, Held, Old
  <2>. QED  BY <1>0, <2>1, <2>2 DEF Covered
<1>12. SkipChat => Covered'
  <2>. SUFFICES ASSUME SkipChat, run' # Idle PROVE Covered'
    BY DEF Covered, Idle
  <2>1. /\ run.pc = "skip" /\ run \in Run /\ run.st \in State /\ run.todo # <<>>
        /\ emptied' = emptied /\ kb' = kb
        /\ run'.st = Dropped(run.st) /\ run'.todo = Tail(run.todo) /\ run'.listed = run.listed
        /\ run'.skipped = run.skipped \cup {This.chat}
    BY <1>0, SkipIs
  <2>2. /\ DOMAIN run'.st.chats = DOMAIN run.st.chats \ {This.chat}
        /\ \A c \in DOMAIN run.st.chats \ {This.chat} : run'.st.chats[c] = run.st.chats[c]
    BY <2>1, DroppedIs
  <2>3. \A c : c # This.chat /\ Due(c) => Due(c)'
    BY <1>0, <2>1, RestIs DEF Due
  <2>4. \A c : c # This.chat /\ Held(c) => Held(c)'
    BY <2>1, <2>2 DEF Held, Old
  <2>. QED  BY <1>0, <2>1, <2>2, <2>3, <2>4 DEF Covered
<1>13. UploadToKnowledge => Covered'
  BY <1>0, UploadIs, SMT DEF Covered, Due, Held, Old, Saved, Idle
<1>14. RecordChat => Covered'
  <2>. SUFFICES ASSUME RecordChat, run' # Idle PROVE Covered'
    BY DEF Covered, Idle
  <2>1. /\ run.pc = "record" /\ This.chat \in DOMAIN run.listed /\ run \in Run /\ run.st \in State /\ run.todo # <<>>
        /\ emptied' = emptied /\ kb' = kb
        /\ run'.st = Recorded(run.st) /\ run'.todo = Tail(run.todo) /\ run'.listed = run.listed
        /\ run'.skipped = run.skipped
    BY <1>0, RecordIs
  <2>2. /\ DOMAIN run'.st.chats = DOMAIN run.st.chats \cup {This.chat}
        /\ \A c \in DOMAIN run.st.chats \ {This.chat} : run'.st.chats[c] = run.st.chats[c]
    BY <2>1, RecordedIs
  <2>3. \A c : c # This.chat /\ Due(c) => Due(c)'
    BY <1>0, <2>1, RestIs DEF Due
  <2>4. \A c : c # This.chat /\ Held(c) => Held(c)'
    BY <2>1, <2>2 DEF Held, Old
  <2>. PICK c \in {This.chat} : TRUE
    OBVIOUS
  <2>5. ~emptied => c \in DOMAIN run'.st.chats /\ \E f \in kb.files : f.id = run'.st.chats[c].file /\ f.chat = c /\ f.at >= run.listed[c]
    <3>. SUFFICES ASSUME ~emptied PROVE c \in DOMAIN run'.st.chats /\ \E f \in kb.files : f.id = run'.st.chats[c].file /\ f.chat = c /\ f.at >= run.listed[c]
      OBVIOUS
    <3>1. PICK f \in kb.files : f.id = run.file
      BY <1>0, <2>1 DEF Uploaded
    <3>2. f.chat = This.chat /\ f.at = run.at /\ run.listed[This.chat] <= run.at
      BY <1>0, <2>1, <3>1 DEF Uploaded, InHand
    <3>3. run'.st.chats[This.chat].file = run.file
      BY <2>1, RecordedIs
    <3>4. f.at >= run.listed[This.chat]
      BY <1>1, <1>2, <2>1, <3>1, <3>2, SMT
    <3>. QED  BY <2>1, <2>2, <3>1, <3>2, <3>3, <3>4
  <2>6. ~emptied => Held(c)'
    BY <2>1, <2>5 DEF Held, Old
  <2>. QED  BY <1>0, <2>1, <2>2, <2>3, <2>4, <2>6 DEF Covered
<1>15. DiscoverModel => Covered'
  BY <1>0, DiscoverIs, SMT DEF Covered, Due, Held, Old, Saved, Idle
<1>16. AttachKnowledge => Covered'
  BY <1>0, AttachIs, SMT DEF Covered, Due, Held, Old, Saved, Idle
<1>17. Stamp => Covered'
  BY <1>0, StampIs, SMT DEF Covered, Idle
<1>18. DeleteCollection => Covered'
  BY <1>0, DeleteCollectionIs, WorldIs, SMT DEF Covered, Due, Held, Old, Saved, World
<1>19. LoseState => Covered'
  BY <1>0, LoseStateIs, WorldIs, SMT DEF Covered, World
<1>20. (ModelSwap \/ EditConfig \/ Install) => Covered'
  BY <1>0, HostIs, WorldIs, SMT DEF Covered, Due, Held, Old, Saved, World
<1>21. ASSUME NEW k \in Chats, Open(k) \/ Write(k) \/ Delete(k)
      PROVE  Covered'
  BY <1>0, <1>21, OpenIs, WorldIs, SMT DEF Covered, Due, Held, Old, Saved, World
<1>22. ASSUME NEW rebuild \in BOOLEAN, NEW ack \in BOOLEAN, Begin(rebuild, ack)
      PROVE  Covered'
  BY <1>0, <1>22, BeginIs, SMT DEF Covered
<1>. QED
  BY <1>3, <1>4, <1>5, <1>6, <1>7, <1>8, <1>9, <1>10, <1>11, <1>12, <1>13, <1>14, <1>15, <1>16, <1>17, <1>18,
     <1>19, <1>20, <1>21, <1>22 DEF Next, Step, World

LEMMA InHandStep ==
  ASSUME Indexed, Next
  PROVE  InHand'
<1>0. /\ Types /\ IsFiniteSet(Used) /\ ChatsOK /\ Kept /\ Wired /\ Sound /\ Bound /\ Prepared /\ Saved /\ Aligned
      /\ Listed /\ Chores /\ Covered /\ InHand /\ Uploaded /\ Truth
  BY DEF Indexed, Books, Pass
<1>1. TypedWorld
  BY <1>0, TypedAre
<1>2. TypedRun
  BY <1>0, TypedAre
<1>. USE DEF Before, During, Working, OnChat, TypedWorld, TypedRun,
             Ends, Saves, Quiet, SamePlan, SameList, SameHand, host, At
<1>3. Cut => InHand'
  BY <1>0, CutIs, SMT DEF InHand, Idle
<1>4. ResetKnowledge => InHand'
  BY <1>0, ResetIs, SMT DEF InHand, Idle
<1>5. EnsureKnowledge => InHand'
  BY <1>0, EnsureIs, SMT DEF InHand, Idle
<1>6. SaveBegun => InHand'
  BY <1>0, SaveBegunIs, SMT DEF InHand, Idle
<1>7. RecallChats => InHand'
  BY <1>0, RecallChatsIs, SMT DEF InHand, Idle
<1>8. RemoveKnowledgeFile => InHand'
  <2>. SUFFICES ASSUME RemoveKnowledgeFile PROVE InHand'
    OBVIOUS
  <2>1. /\ HasOld /\ run.todo # <<>> /\ attached' = attached /\ chats' = chats
        /\ \/ run' = Idle
           \/ /\ kb'.files = {f \in kb.files : f.id # Known}
              /\ run'.pc = "removed" /\ run'.st = run.st /\ run'.todo = run.todo
    BY <1>0, RemoveIs
  <2>2. CASE run' = Idle
    BY <2>2 DEF InHand, Idle
  <2>3. CASE run' # Idle
    <3>1. This' = This /\ Known' = Known
      BY <2>1, <2>3, SameThis
    <3>2. This.kind # "add"
      BY <2>1 DEF HasOld
    <3>. QED  BY <2>1, <2>3, <3>1, <3>2 DEF InHand
  <2>. QED  BY <2>2, <2>3
<1>9. ClearEntry => InHand'
  BY <1>0, SameThis, ClearIs, ClearedIs, SMT DEF InHand, Known, HasOld, Idle
<1>10. DropEntry => InHand'
  BY <1>0, DropIs, DroppedIs, SMT DEF InHand, Idle
<1>11. GetChat => InHand'
  <2>. SUFFICES ASSUME GetChat PROVE InHand'
    OBVIOUS
  <2>1. /\ run.pc \in {"fetch", "next"} /\ run.todo # <<>> /\ This.kind # "delete" /\ This.chat \in DOMAIN run.listed
        /\ (run.pc = "next" => ~HasOld) /\ chats' = chats
        /\ \/ run' = Idle
           \/ /\ run'.pc \in {"join", "skip"} /\ run'.at = chats[This.chat].at /\ run'.st = run.st
              /\ run'.todo = run.todo /\ run'.listed = run.listed
    BY <1>0, GetChatIs
  <2>2. CASE run' = Idle
    BY <2>2 DEF InHand, Idle
  <2>3. CASE run' # Idle
    <3>1. This' = This /\ Known' = Known
      BY <2>1, <2>3, SameThis
    <3>2. Known = 0
      <4>1. CASE run.pc = "fetch"
        BY <1>0, <4>1 DEF InHand
      <4>2. CASE run.pc = "next"
        <5>1. This \in Item /\ Chore(This)
          BY <1>0, <2>1, <4>2, ThisChore
        <5>2. This.kind = "update" \/ This.kind = "add"
          BY <2>1, <5>1 DEF Item
        <5>. QED  BY <2>1, <4>2, <5>1, <5>2, Zenon DEF HasOld, Known, Chore, Old
      <4>. QED  BY <2>1, <4>1, <4>2
    <3>3. run.listed[This.chat] <= chats[This.chat].at /\ chats[This.chat].at <= chats[This.chat].at
      BY <1>0, <1>1, <1>2, <2>1 DEF Listed
    <3>. QED  BY <2>1, <2>3, <3>1, <3>2, <3>3 DEF InHand
  <2>. QED  BY <2>2, <2>3
<1>12. SkipChat => InHand'
  BY <1>0, SkipIs, DroppedIs, SMT DEF InHand, Idle
<1>13. UploadToKnowledge => InHand'
  BY <1>0, SameThis, UploadIs, SMT DEF InHand, Known, HasOld, Idle
<1>14. RecordChat => InHand'
  BY <1>0, RecordIs, RecordedIs, SMT DEF InHand, Idle
<1>15. DiscoverModel => InHand'
  BY <1>0, DiscoverIs, SMT DEF InHand, Idle
<1>16. AttachKnowledge => InHand'
  BY <1>0, AttachIs, SMT DEF InHand, Idle
<1>17. Stamp => InHand'
  BY <1>0, StampIs, SMT DEF InHand, Idle
<1>18. DeleteCollection => InHand'
  BY <1>0, SameThis, DeleteCollectionIs, WorldIs, SMT DEF InHand, Known, HasOld, World
<1>19. LoseState => InHand'
  BY <1>0, LoseStateIs, WorldIs, SMT DEF InHand, World
<1>20. (ModelSwap \/ EditConfig \/ Install) => InHand'
  BY <1>0, SameThis, HostIs, WorldIs, SMT DEF InHand, Known, HasOld, World
<1>21. ASSUME NEW k \in Chats, Open(k) \/ Write(k) \/ Delete(k)
      PROVE  InHand'
  <2>1. run' = run /\ kb' = kb /\ attached' = attached
    BY <1>0, <1>21, OpenIs, WorldIs DEF World
  <2>2. This' = This /\ Known' = Known
    BY <2>1, SameThis
  <2>3. run.pc \in {"join", "record"} => run.at <= chats'[This.chat].at
    <3>. SUFFICES ASSUME run.pc \in {"join", "record"} PROVE run.at <= chats'[This.chat].at
      OBVIOUS
    <3>1. run.at <= chats[This.chat].at /\ run.todo # <<>>
      BY <1>0 DEF InHand
    <3>2. This.chat \in Chats
      BY <1>0, <3>1, ThisChore DEF Item
    <3>3. chats[This.chat].at <= chats'[This.chat].at /\ chats'[This.chat].at \in Nat
      BY <1>0, <1>21, <3>2, ChatsGrow
    <3>. QED  BY <1>1, <1>2, <3>1, <3>2, <3>3, SMT
  <2>. QED  BY <1>0, <2>1, <2>2, <2>3 DEF InHand
<1>22. ASSUME NEW rebuild \in BOOLEAN, NEW ack \in BOOLEAN, Begin(rebuild, ack)
      PROVE  InHand'
  BY <1>0, <1>22, BeginIs, SMT DEF InHand
<1>. QED
  BY <1>3, <1>4, <1>5, <1>6, <1>7, <1>8, <1>9, <1>10, <1>11, <1>12, <1>13, <1>14, <1>15, <1>16, <1>17, <1>18,
     <1>19, <1>20, <1>21, <1>22 DEF Next, Step, World

LEMMA UploadedStep ==
  ASSUME Indexed, Next
  PROVE  Uploaded'
<1>0. /\ Types /\ IsFiniteSet(Used) /\ ChatsOK /\ Kept /\ Wired /\ Sound /\ Bound /\ Prepared /\ Saved /\ Aligned
      /\ Listed /\ Chores /\ Covered /\ InHand /\ Uploaded /\ Truth
  BY DEF Indexed, Books, Pass
<1>1. TypedWorld
  BY <1>0, TypedAre
<1>2. TypedRun
  BY <1>0, TypedAre
<1>. USE DEF Before, During, Working, OnChat, TypedWorld, TypedRun,
             Ends, Saves, Quiet, SamePlan, SameList, SameHand, host, At
<1>3. Cut => Uploaded'
  BY <1>0, CutIs, SMT DEF Uploaded, Idle
<1>4. ResetKnowledge => Uploaded'
  BY <1>0, ResetIs, SMT DEF Uploaded, Idle
<1>5. EnsureKnowledge => Uploaded'
  BY <1>0, EnsureIs, SMT DEF Uploaded, Idle
<1>6. SaveBegun => Uploaded'
  BY <1>0, SaveBegunIs, SMT DEF Uploaded, Idle
<1>7. RecallChats => Uploaded'
  BY <1>0, RecallChatsIs, SMT DEF Uploaded, Idle
<1>8. RemoveKnowledgeFile => Uploaded'
  BY <1>0, RemoveIs, SMT DEF Uploaded, Idle
<1>9. ClearEntry => Uploaded'
  BY <1>0, ClearIs, ClearedIs, SMT DEF Uploaded, Idle
<1>10. DropEntry => Uploaded'
  BY <1>0, DropIs, DroppedIs, SMT DEF Uploaded, Idle
<1>11. GetChat => Uploaded'
  BY <1>0, GetChatIs, SMT DEF Uploaded, Idle
<1>12. SkipChat => Uploaded'
  BY <1>0, SkipIs, DroppedIs, SMT DEF Uploaded, Idle
<1>13. UploadToKnowledge => Uploaded'
  <2>. SUFFICES ASSUME UploadToKnowledge, run' # Idle PROVE Uploaded'
    BY DEF Uploaded, Idle
  <2>0. /\ run.pc = "join" /\ emptied' = emptied /\ drifted' = drifted /\ disk = run.st
    BY <1>0, UploadIs DEF Saved
  <2>1. PICK n \in Nat \ (Used \cup {0}) :
          /\ kb'.files = kb.files \cup {[id |-> n, chat |-> This.chat, at |-> run.at, emb |-> embedder]}
          /\ run'.file = n /\ run'.st = run.st /\ run'.todo = run.todo /\ run'.at = run.at
    BY <1>0, UploadIs, Zenon DEF SamePlan
  <2>. DEFINE g == [id |-> n, chat |-> This.chat, at |-> run.at, emb |-> embedder]
  <2>2. /\ \A f \in kb.files : f.id # n
        /\ \A c \in DOMAIN run.st.chats : run.st.chats[c].file # n
    BY <2>0, <2>1 DEF Used
  <2>3. g.id = n /\ g.chat = This.chat /\ g.at = run.at /\ g.emb = embedder /\ This' = This /\ kb'.files = kb.files \cup {g}
    BY <2>1, SameThis
  <2>4. ~drifted => embedder = run.st.emb
    BY <1>0, <2>0 DEF Aligned
  <2>. HIDE DEF g
  <2>. QED  BY <2>0, <2>1, <2>2, <2>3, <2>4 DEF Uploaded
<1>14. RecordChat => Uploaded'
  BY <1>0, RecordIs, RecordedIs, SMT DEF Uploaded, Idle
<1>15. DiscoverModel => Uploaded'
  BY <1>0, DiscoverIs, SMT DEF Uploaded, Idle
<1>16. AttachKnowledge => Uploaded'
  BY <1>0, AttachIs, SMT DEF Uploaded, Idle
<1>17. Stamp => Uploaded'
  BY <1>0, StampIs, SMT DEF Uploaded, Idle
<1>18. DeleteCollection => Uploaded'
  BY <1>0, DeleteCollectionIs, WorldIs, SMT DEF Uploaded, World
<1>19. LoseState => Uploaded'
  BY <1>0, LoseStateIs, WorldIs, SMT DEF Uploaded, World
<1>20. (ModelSwap \/ EditConfig \/ Install) => Uploaded'
  BY <1>0, HostIs, WorldIs, SMT DEF Uploaded, This, InHand, World
<1>21. ASSUME NEW k \in Chats, Open(k) \/ Write(k) \/ Delete(k)
      PROVE  Uploaded'
  BY <1>0, <1>21, OpenIs, WorldIs, SMT DEF Uploaded, This, InHand, World
<1>22. ASSUME NEW rebuild \in BOOLEAN, NEW ack \in BOOLEAN, Begin(rebuild, ack)
      PROVE  Uploaded'
  BY <1>0, <1>22, BeginIs, SMT DEF Uploaded
<1>. QED
  BY <1>3, <1>4, <1>5, <1>6, <1>7, <1>8, <1>9, <1>10, <1>11, <1>12, <1>13, <1>14, <1>15, <1>16, <1>17, <1>18,
     <1>19, <1>20, <1>21, <1>22 DEF Next, Step, World

LEMMA RecordedStep ==
  ASSUME Indexed, Next
  PROVE  (~emptied => RecordedIsThere)'
<1>0. /\ Types /\ IsFiniteSet(Used) /\ ChatsOK /\ Kept /\ Wired /\ Sound /\ Bound /\ Prepared /\ Saved /\ Aligned
      /\ Listed /\ Chores /\ Covered /\ InHand /\ Uploaded /\ Truth
  BY DEF Indexed, Books, Pass
<1>1. TypedWorld
  BY <1>0, TypedAre
<1>2. TypedRun
  BY <1>0, TypedAre
<1>. USE DEF Before, During, Working, OnChat, TypedWorld, TypedRun,
             Ends, Saves, Quiet, SamePlan, SameList, SameHand, host, At
<1>3. Cut => (~emptied => RecordedIsThere)'
  BY <1>0, CutIs, SMT DEF Truth, RecordedIsThere, Live, Saved, Sound, SoundState, Idle
<1>4. ResetKnowledge => (~emptied => RecordedIsThere)'
  BY <1>0, ResetIs, SMT DEF Truth, RecordedIsThere, Live, Saved, Sound, SoundState, Idle
<1>5. EnsureKnowledge => (~emptied => RecordedIsThere)'
  <2>. SUFFICES ASSUME EnsureKnowledge, ~emptied' PROVE RecordedIsThere'
    OBVIOUS
  <2>1. /\ disk' = disk /\ chats' = chats /\ emptied' = emptied
        /\ kb.id # 0 => kb' = kb
        /\ kb.id = 0 => kb' = [id |-> kb.last + 1, last |-> kb.last + 1, files |-> {}]
    BY <1>0, EnsureIs
  <2>2. CASE kb.id = 0
    <3>1. kb.files = {} /\ kb'.files = {}
      BY <1>0, <2>1, <2>2 DEF Kept
    <3>. QED  BY <1>0, <2>1, <3>1 DEF Truth, RecordedIsThere, Live
  <2>3. CASE kb.id # 0
    BY <1>0, <2>1, <2>3 DEF Truth, RecordedIsThere, Live
  <2>. QED  BY <2>2, <2>3
<1>6. SaveBegun => (~emptied => RecordedIsThere)'
  <2>. SUFFICES ASSUME SaveBegun, ~emptied' PROVE RecordedIsThere'
    OBVIOUS
  <2>1. /\ run.pc = "begin" /\ run.st \in State /\ disk' = run.st /\ chats' = chats /\ kb' = kb
        /\ emptied' = (emptied /\ (run.st.chats # <<>> \/ run.st.kb # kb.id))
    BY <1>0, SaveBegunIs
  <2>2. CASE run.st.chats = <<>>
    <3>1. DOMAIN disk'.chats = {}
      BY <2>1, <2>2, EntriesAre
    <3>. QED  BY <3>1 DEF RecordedIsThere
  <2>3. CASE run.st.chats # <<>>
    <3>1. disk'.chats = disk.chats
      BY <1>0, <2>1, <2>3 DEF Prepared
    <3>2. ~emptied
      BY <2>1, <2>3
    <3>. QED  BY <1>0, <2>1, <3>1, <3>2 DEF Truth, RecordedIsThere, Live
  <2>. QED  BY <2>2, <2>3
<1>7. RecallChats => (~emptied => RecordedIsThere)'
  BY <1>0, RecallChatsIs, SMT DEF Truth, RecordedIsThere, Live, Saved, Sound, SoundState, Idle
<1>8. RemoveKnowledgeFile => (~emptied => RecordedIsThere)'
  <2>. SUFFICES ASSUME RemoveKnowledgeFile, ~emptied' PROVE RecordedIsThere'
    OBVIOUS
  <2>1. /\ run.pc = "next" /\ run \in Run /\ HasOld /\ run.todo # <<>> /\ emptied' = emptied /\ disk' = disk /\ chats' = chats
        /\ kb' = kb \/ kb'.files = {f \in kb.files : f.id # Known}
    BY <1>0, RemoveIs
  <2>2. CASE kb' = kb
    BY <1>0, <2>1, <2>2 DEF Truth, RecordedIsThere, Live
  <2>3. CASE kb'.files = {f \in kb.files : f.id # Known}
    <3>1. /\ This.chat \in DOMAIN run.st.chats /\ Known = run.st.chats[This.chat].file /\ Known # 0
          /\ This.kind \in {"delete", "update"} /\ disk = run.st
      BY <1>0, <2>1 DEF HasOld, Known, Saved
    <3>2. Chore(This)
      BY <1>0, <2>1, ThisChore
    <3>3. ASSUME NEW c \in Live \cap DOMAIN disk.chats, disk.chats[c].at >= chats[c].at
          PROVE  \E f \in kb'.files : f.id = disk.chats[c].file /\ f.chat = c /\ f.at = chats[c].at
      <4>1. PICK f \in kb.files : f.id = disk.chats[c].file /\ f.chat = c /\ f.at = chats[c].at
        BY <1>0, <2>1, <3>3 DEF Truth, RecordedIsThere
      <4>2. c # This.chat
        <5>. SUFFICES ASSUME c = This.chat PROVE FALSE
          OBVIOUS
        <5>1. chats[c].is = "live" /\ c \in Chats
          BY DEF Live
        <5>2. This.kind = "update" /\ c \in DOMAIN run.listed /\ run.st.chats[c].at < run.listed[c]
          BY <3>1, <3>2, <5>1 DEF Chore, Old
        <5>3. run.listed[c] <= chats[c].at
          BY <1>0, <2>1, <5>2 DEF Listed
        <5>4. run.listed[c] \in Nat /\ chats[c].at \in Nat /\ disk.chats[c].at \in Nat
          BY <1>1, <1>2, <2>1, <3>3, <5>1, <5>2
        <5>. QED  BY <3>1, <3>3, <5>2, <5>3, <5>4, SMT
      <4>3. disk.chats[c].file # Known
        BY <1>0, <2>1, <3>1, <4>2 DEF Sound, SoundState
      <4>. QED  BY <2>3, <4>1, <4>3
    <3>. QED  BY <2>1, <3>3 DEF RecordedIsThere, Live
  <2>. QED  BY <2>1, <2>2, <2>3
<1>9. ClearEntry => (~emptied => RecordedIsThere)'
  <2>. SUFFICES ASSUME ClearEntry, ~emptied' PROVE RecordedIsThere'
    OBVIOUS
  <2>1. /\ run.pc = "removed" /\ run \in Run /\ run.st \in State /\ run.todo # <<>> /\ emptied' = emptied /\ kb' = kb
        /\ disk' = Cleared(run.st) /\ chats' = chats /\ disk = run.st
    BY <1>0, ClearIs DEF Saved
  <2>2. /\ DOMAIN disk'.chats = DOMAIN disk.chats
        /\ This.chat \in DOMAIN disk.chats => disk'.chats[This.chat].at = 0
        /\ \A c \in DOMAIN disk.chats \ {This.chat} : disk'.chats[c] = disk.chats[c]
    BY <2>1, ClearedIs
  <2>3. \A c \in Live : chats[c].at \in Nat /\ chats[c].at >= 1
    BY <1>0, <1>1 DEF ChatsOK, Live
  <2>. QED  BY <1>0, <2>1, <2>2, <2>3 DEF Truth, RecordedIsThere, Live
<1>10. DropEntry => (~emptied => RecordedIsThere)'
  BY <1>0, DropIs, DroppedIs, SMT DEF Truth, RecordedIsThere, Live, Saved, Sound, SoundState, Idle
<1>11. GetChat => (~emptied => RecordedIsThere)'
  BY <1>0, GetChatIs, SMT DEF Truth, RecordedIsThere, Live, Saved, Sound, SoundState, Idle
<1>12. SkipChat => (~emptied => RecordedIsThere)'
  BY <1>0, SkipIs, DroppedIs, SMT DEF Truth, RecordedIsThere, Live, Saved, Sound, SoundState, Idle
<1>13. UploadToKnowledge => (~emptied => RecordedIsThere)'
  BY <1>0, UploadIs, SMT DEF Truth, RecordedIsThere, Live, Saved, Sound, SoundState, Idle
<1>14. RecordChat => (~emptied => RecordedIsThere)'
  <2>. SUFFICES ASSUME RecordChat, ~emptied' PROVE RecordedIsThere'
    OBVIOUS
  <2>1. /\ run.pc = "record" /\ run \in Run /\ run.st \in State /\ run.todo # <<>> /\ emptied' = emptied /\ kb' = kb
        /\ disk' = Recorded(run.st) /\ chats' = chats /\ disk = run.st /\ This.chat \in DOMAIN run.listed
    BY <1>0, RecordIs DEF Saved
  <2>2. /\ DOMAIN disk'.chats = DOMAIN disk.chats \cup {This.chat}
        /\ disk'.chats[This.chat].file = run.file /\ disk'.chats[This.chat].at = run.listed[This.chat]
        /\ This.chat \in Chats
        /\ \A c \in DOMAIN disk.chats \ {This.chat} : disk'.chats[c] = disk.chats[c]
    BY <2>1, RecordedIs
  <2>3. PICK f \in kb.files : f.id = run.file
    BY <1>0, <2>1 DEF Uploaded
  <2>4. f.chat = This.chat /\ f.at = run.at /\ run.listed[This.chat] <= run.at /\ run.at <= chats[This.chat].at
    BY <1>0, <2>1, <2>3 DEF Uploaded, InHand
  <2>5. run.listed[This.chat] >= chats[This.chat].at => f.at = chats[This.chat].at
    BY <1>1, <1>2, <2>1, <2>2, <2>4, SMT
  <2>6. ASSUME NEW c \in Live \cap DOMAIN disk'.chats, disk'.chats[c].at >= chats[c].at
        PROVE  \E h \in kb.files : h.id = disk'.chats[c].file /\ h.chat = c /\ h.at = chats[c].at
    <3>1. CASE c = This.chat
      BY <2>2, <2>3, <2>4, <2>5, <2>6, <3>1
    <3>2. CASE c # This.chat
      BY <1>0, <2>1, <2>2, <2>6, <3>2 DEF Truth, RecordedIsThere
    <3>. QED  BY <3>1, <3>2
  <2>. QED  BY <2>1, <2>6 DEF RecordedIsThere, Live
<1>15. DiscoverModel => (~emptied => RecordedIsThere)'
  BY <1>0, DiscoverIs, SMT DEF Truth, RecordedIsThere, Live, Saved, Sound, SoundState, Idle
<1>16. AttachKnowledge => (~emptied => RecordedIsThere)'
  BY <1>0, AttachIs, SMT DEF Truth, RecordedIsThere, Live, Saved, Sound, SoundState, Idle
<1>17. Stamp => (~emptied => RecordedIsThere)'
  BY <1>0, StampIs, SMT DEF Truth, RecordedIsThere, Live, Saved, Sound, SoundState, Idle
<1>18. DeleteCollection => (~emptied => RecordedIsThere)'
  BY <1>0, DeleteCollectionIs, WorldIs, SMT DEF Truth, RecordedIsThere, Live, Saved, Sound, SoundState, World
<1>19. LoseState => (~emptied => RecordedIsThere)'
  BY <1>0, LoseStateIs, WorldIs, SMT DEF Truth, RecordedIsThere, Live, Saved, Sound, SoundState, World
<1>20. (ModelSwap \/ EditConfig \/ Install) => (~emptied => RecordedIsThere)'
  BY <1>0, HostIs, WorldIs, SMT DEF Truth, RecordedIsThere, Live, Saved, Sound, SoundState, World
<1>21. ASSUME NEW k \in Chats, Open(k) \/ Write(k) \/ Delete(k)
      PROVE  (~emptied => RecordedIsThere)'
  BY <1>0, <1>21, <1>1, <1>2, OpenIs, WorldIs, SMT DEF Truth, RecordedIsThere, Live, Saved, Sound, SoundState, World
<1>22. ASSUME NEW rebuild \in BOOLEAN, NEW ack \in BOOLEAN, Begin(rebuild, ack)
      PROVE  (~emptied => RecordedIsThere)'
  BY <1>0, <1>22, BeginIs, SMT DEF Truth, RecordedIsThere, Live, Saved, Sound, SoundState
<1>. QED
  BY <1>3, <1>4, <1>5, <1>6, <1>7, <1>8, <1>9, <1>10, <1>11, <1>12, <1>13, <1>14, <1>15, <1>16, <1>17, <1>18,
     <1>19, <1>20, <1>21, <1>22 DEF Next, Step, World

LEMMA NothingElseStep ==
  ASSUME Indexed, Next
  PROVE  NothingElse'
<1>0. /\ Types /\ IsFiniteSet(Used) /\ ChatsOK /\ Kept /\ Wired /\ Sound /\ Bound /\ Prepared /\ Saved /\ Aligned
      /\ Listed /\ Chores /\ Covered /\ InHand /\ Uploaded /\ Truth
  BY DEF Indexed, Books, Pass
<1>1. TypedWorld
  BY <1>0, TypedAre
<1>2. TypedRun
  BY <1>0, TypedAre
<1>. USE DEF Before, During, Working, OnChat, TypedWorld, TypedRun,
             Ends, Saves, Quiet, SamePlan, SameList, SameHand, host, At
<1>3. Cut => NothingElse'
  BY <1>0, CutIs, SMT DEF Truth, NothingElse, Truth, Saved, Idle
<1>4. ResetKnowledge => NothingElse'
  BY <1>0, ResetIs, SMT DEF Truth, NothingElse, Truth, Saved, Idle
<1>5. EnsureKnowledge => NothingElse'
  BY <1>0, EnsureIs, SMT DEF Truth, NothingElse, Truth, Saved, Idle
<1>6. SaveBegun => NothingElse'
  <2>. SUFFICES ASSUME SaveBegun PROVE NothingElse'
    OBVIOUS
  <2>1. run.pc = "begin" /\ disk' = run.st /\ kb' = kb /\ stray' = stray
    BY <1>0, SaveBegunIs
  <2>2. CASE run.st.chats = <<>>
    BY <1>0, <2>1, <2>2 DEF Prepared, NothingElse
  <2>3. CASE run.st.chats # <<>>
    <3>1. disk'.chats = disk.chats
      BY <1>0, <2>1, <2>3 DEF Prepared
    <3>. QED  BY <1>0, <2>1, <3>1 DEF Truth, NothingElse
  <2>. QED  BY <2>2, <2>3
<1>7. RecallChats => NothingElse'
  BY <1>0, RecallChatsIs, SMT DEF Truth, NothingElse, Truth, Saved, Idle
<1>8. RemoveKnowledgeFile => NothingElse'
  BY <1>0, RemoveIs, SMT DEF Truth, NothingElse, Truth, Saved, Idle
<1>9. ClearEntry => NothingElse'
  <2>. SUFFICES ASSUME ClearEntry PROVE NothingElse'
    OBVIOUS
  <2>1. /\ run.pc = "removed" /\ run \in Run /\ run.st \in State /\ run.todo # <<>>
        /\ kb' = kb /\ disk' = Cleared(run.st) /\ disk = run.st /\ stray' = stray
    BY <1>0, ClearIs DEF Saved
  <2>2. /\ DOMAIN disk.chats \ {This.chat} \subseteq DOMAIN disk'.chats
        /\ \A c \in DOMAIN disk.chats \ {This.chat} : disk'.chats[c] = disk.chats[c]
    BY <2>1, ClearedIs
  <2>3. \A f \in kb.files : f.id # Known
    BY <1>0, <2>1 DEF InHand, Kept
  <2>4. ASSUME NEW f \in kb.files, f.id \notin stray
        PROVE  f.chat \in DOMAIN disk'.chats /\ disk'.chats[f.chat].file = f.id
    <3>1. f.chat \in DOMAIN disk.chats /\ disk.chats[f.chat].file = f.id
      BY <1>0, <2>1, <2>4 DEF Truth, NothingElse
    <3>2. f.chat # This.chat
      BY <2>1, <2>3, <3>1 DEF Known
    <3>. QED  BY <2>2, <3>1, <3>2
  <2>. QED  BY <2>1, <2>4 DEF NothingElse
<1>10. DropEntry => NothingElse'
  <2>. SUFFICES ASSUME DropEntry PROVE NothingElse'
    OBVIOUS
  <2>1. /\ run.pc \in {"removed", "next"} /\ (run.pc = "next" => Known = 0) /\ run \in Run /\ run.st \in State /\ run.todo # <<>>
        /\ kb' = kb /\ disk' = Dropped(run.st) /\ disk = run.st /\ stray' = stray
    BY <1>0, DropIs DEF Saved
  <2>2. /\ DOMAIN disk.chats \ {This.chat} \subseteq DOMAIN disk'.chats
        /\ \A c \in DOMAIN disk.chats \ {This.chat} : disk'.chats[c] = disk.chats[c]
    BY <2>1, DroppedIs
  <2>3. \A f \in kb.files : f.id # Known
    BY <1>0, <2>1 DEF InHand, Kept
  <2>4. ASSUME NEW f \in kb.files, f.id \notin stray
        PROVE  f.chat \in DOMAIN disk'.chats /\ disk'.chats[f.chat].file = f.id
    <3>1. f.chat \in DOMAIN disk.chats /\ disk.chats[f.chat].file = f.id
      BY <1>0, <2>1, <2>4 DEF Truth, NothingElse
    <3>2. f.chat # This.chat
      BY <2>1, <2>3, <3>1 DEF Known
    <3>. QED  BY <2>2, <3>1, <3>2
  <2>. QED  BY <2>1, <2>4 DEF NothingElse
<1>11. GetChat => NothingElse'
  BY <1>0, GetChatIs, SMT DEF Truth, NothingElse, Truth, Saved, Idle
<1>12. SkipChat => NothingElse'
  <2>. SUFFICES ASSUME SkipChat PROVE NothingElse'
    OBVIOUS
  <2>1. /\ run.pc = "skip" /\ run \in Run /\ run.st \in State /\ run.todo # <<>>
        /\ kb' = kb /\ disk' = Dropped(run.st) /\ disk = run.st /\ stray' = stray
    BY <1>0, SkipIs DEF Saved
  <2>2. /\ DOMAIN disk.chats \ {This.chat} \subseteq DOMAIN disk'.chats
        /\ \A c \in DOMAIN disk.chats \ {This.chat} : disk'.chats[c] = disk.chats[c]
    BY <2>1, DroppedIs
  <2>3. \A f \in kb.files : f.id # Known
    BY <1>0, <2>1 DEF InHand, Kept
  <2>4. ASSUME NEW f \in kb.files, f.id \notin stray
        PROVE  f.chat \in DOMAIN disk'.chats /\ disk'.chats[f.chat].file = f.id
    <3>1. f.chat \in DOMAIN disk.chats /\ disk.chats[f.chat].file = f.id
      BY <1>0, <2>1, <2>4 DEF Truth, NothingElse
    <3>2. f.chat # This.chat
      BY <2>1, <2>3, <3>1 DEF Known
    <3>. QED  BY <2>2, <3>1, <3>2
  <2>. QED  BY <2>1, <2>4 DEF NothingElse
<1>13. UploadToKnowledge => NothingElse'
  BY <1>0, UploadIs, SMT DEF Truth, NothingElse, Truth, Saved, Idle
<1>14. RecordChat => NothingElse'
  <2>. SUFFICES ASSUME RecordChat PROVE NothingElse'
    OBVIOUS
  <2>1. /\ run.pc = "record" /\ run \in Run /\ run.st \in State /\ run.todo # <<>> /\ This.chat \in DOMAIN run.listed
        /\ kb' = kb /\ disk' = Recorded(run.st) /\ disk = run.st /\ stray' = stray
    BY <1>0, RecordIs DEF Saved
  <2>2. /\ DOMAIN disk'.chats = DOMAIN disk.chats \cup {This.chat} /\ disk'.chats[This.chat].file = run.file
        /\ \A c \in DOMAIN disk.chats \ {This.chat} : disk'.chats[c] = disk.chats[c]
    BY <2>1, RecordedIs
  <2>3. \A f \in kb.files : f.id # Known
    BY <1>0, <2>1 DEF InHand, Kept
  <2>4. ASSUME NEW f \in kb.files, f.id \notin stray
        PROVE  f.chat \in DOMAIN disk'.chats /\ disk'.chats[f.chat].file = f.id
    <3>1. CASE f.id = run.file
      BY <1>0, <2>1, <2>2, <3>1 DEF Uploaded
    <3>2. CASE f.id # run.file
      <4>1. f.chat \in DOMAIN disk.chats /\ disk.chats[f.chat].file = f.id
        BY <1>0, <2>1, <2>4, <3>2 DEF Truth, NothingElse
      <4>2. f.chat # This.chat
        BY <2>1, <2>3, <4>1 DEF Known
      <4>. QED  BY <2>2, <4>1, <4>2
    <3>. QED  BY <3>1, <3>2
  <2>. QED  BY <2>1, <2>4 DEF NothingElse
<1>15. DiscoverModel => NothingElse'
  BY <1>0, DiscoverIs, SMT DEF Truth, NothingElse, Truth, Saved, Idle
<1>16. AttachKnowledge => NothingElse'
  BY <1>0, AttachIs, SMT DEF Truth, NothingElse, Truth, Saved, Idle
<1>17. Stamp => NothingElse'
  BY <1>0, StampIs, SMT DEF Truth, NothingElse, Truth, Saved, Idle
<1>18. DeleteCollection => NothingElse'
  BY <1>0, DeleteCollectionIs, WorldIs, SMT DEF Truth, NothingElse, Truth, Saved, World
<1>19. LoseState => NothingElse'
  BY <1>0, LoseStateIs, WorldIs, SMT DEF Truth, NothingElse, Truth, Saved, World
<1>20. (ModelSwap \/ EditConfig \/ Install) => NothingElse'
  BY <1>0, HostIs, WorldIs, SMT DEF Truth, NothingElse, Truth, Saved, World
<1>21. ASSUME NEW k \in Chats, Open(k) \/ Write(k) \/ Delete(k)
      PROVE  NothingElse'
  BY <1>0, <1>21, OpenIs, WorldIs, SMT DEF Truth, NothingElse, Truth, Saved, World
<1>22. ASSUME NEW rebuild \in BOOLEAN, NEW ack \in BOOLEAN, Begin(rebuild, ack)
      PROVE  NothingElse'
  BY <1>0, <1>22, BeginIs, SMT DEF Truth, NothingElse, Truth, Saved
<1>. QED
  BY <1>3, <1>4, <1>5, <1>6, <1>7, <1>8, <1>9, <1>10, <1>11, <1>12, <1>13, <1>14, <1>15, <1>16, <1>17, <1>18,
     <1>19, <1>20, <1>21, <1>22 DEF Next, Step, World

LEMMA OneEmbeddingStep ==
  ASSUME Indexed, Next
  PROVE  (~drifted => OneEmbedding)'
<1>0. /\ Types /\ IsFiniteSet(Used) /\ ChatsOK /\ Kept /\ Wired /\ Sound /\ Bound /\ Prepared /\ Saved /\ Aligned
      /\ Listed /\ Chores /\ Covered /\ InHand /\ Uploaded /\ Truth
  BY DEF Indexed, Books, Pass
<1>1. TypedWorld
  BY <1>0, TypedAre
<1>2. TypedRun
  BY <1>0, TypedAre
<1>. USE DEF Before, During, Working, OnChat, TypedWorld, TypedRun,
             Ends, Saves, Quiet, SamePlan, SameList, SameHand, host, At
<1>3. Cut => (~drifted => OneEmbedding)'
  BY <1>0, CutIs, SMT DEF Truth, OneEmbedding, Uploaded, Saved, Aligned, Idle
<1>4. ResetKnowledge => (~drifted => OneEmbedding)'
  BY <1>0, ResetIs, SMT DEF Truth, OneEmbedding, Uploaded, Saved, Aligned, Idle
<1>5. EnsureKnowledge => (~drifted => OneEmbedding)'
  BY <1>0, EnsureIs, SMT DEF Truth, OneEmbedding, Uploaded, Saved, Aligned, Idle
<1>6. SaveBegun => (~drifted => OneEmbedding)'
  <2>. SUFFICES ASSUME SaveBegun, ~drifted' PROVE OneEmbedding'
    OBVIOUS
  <2>1. run.pc = "begin" /\ run.st \in State /\ disk' = run.st /\ kb' = kb /\ drifted' = drifted
    BY <1>0, SaveBegunIs
  <2>2. CASE run.st.chats = <<>>
    <3>1. DOMAIN disk'.chats = {}
      BY <2>1, <2>2, EntriesAre
    <3>. QED  BY <3>1 DEF OneEmbedding
  <2>3. CASE run.st.chats # <<>>
    <3>1. disk'.chats = disk.chats /\ disk.emb \in {NoEmbedding, run.st.emb}
      BY <1>0, <2>1, <2>3 DEF Prepared
    <3>2. disk'.emb = disk.emb
      BY <1>0, <2>1, <2>3, <3>1 DEF Bound
    <3>. QED  BY <1>0, <2>1, <3>1, <3>2 DEF Truth, OneEmbedding
  <2>. QED  BY <2>2, <2>3
<1>7. RecallChats => (~drifted => OneEmbedding)'
  BY <1>0, RecallChatsIs, SMT DEF Truth, OneEmbedding, Uploaded, Saved, Aligned, Idle
<1>8. RemoveKnowledgeFile => (~drifted => OneEmbedding)'
  BY <1>0, RemoveIs, SMT DEF Truth, OneEmbedding, Uploaded, Saved, Aligned, Idle
<1>9. ClearEntry => (~drifted => OneEmbedding)'
  <2>. SUFFICES ASSUME ClearEntry, ~drifted' PROVE OneEmbedding'
    OBVIOUS
  <2>1. /\ run.pc = "removed" /\ run \in Run /\ run.st \in State /\ run.todo # <<>> /\ drifted' = drifted /\ kb' = kb
        /\ disk' = Cleared(run.st) /\ disk = run.st
    BY <1>0, ClearIs DEF Saved
  <2>2. /\ DOMAIN disk'.chats = DOMAIN disk.chats /\ disk'.emb = disk.emb
        /\ This.chat \in DOMAIN disk.chats => disk'.chats[This.chat].file = 0
        /\ \A c \in DOMAIN disk.chats \ {This.chat} : disk'.chats[c] = disk.chats[c]
    BY <2>1, ClearedIs
  <2>3. \A f \in kb.files : f.id # 0
    BY <1>0 DEF Kept
  <2>. QED  BY <1>0, <2>1, <2>2, <2>3 DEF Truth, OneEmbedding
<1>10. DropEntry => (~drifted => OneEmbedding)'
  BY <1>0, DropIs, DroppedIs, SMT DEF Truth, OneEmbedding, Uploaded, Saved, Aligned, Idle
<1>11. GetChat => (~drifted => OneEmbedding)'
  BY <1>0, GetChatIs, SMT DEF Truth, OneEmbedding, Uploaded, Saved, Aligned, Idle
<1>12. SkipChat => (~drifted => OneEmbedding)'
  BY <1>0, SkipIs, DroppedIs, SMT DEF Truth, OneEmbedding, Uploaded, Saved, Aligned, Idle
<1>13. UploadToKnowledge => (~drifted => OneEmbedding)'
  BY <1>0, UploadIs, SMT DEF Truth, OneEmbedding, Uploaded, Saved, Aligned, Idle
<1>14. RecordChat => (~drifted => OneEmbedding)'
  BY <1>0, RecordIs, RecordedIs, SMT DEF Truth, OneEmbedding, Uploaded, Saved, Aligned, Idle
<1>15. DiscoverModel => (~drifted => OneEmbedding)'
  BY <1>0, DiscoverIs, SMT DEF Truth, OneEmbedding, Uploaded, Saved, Aligned, Idle
<1>16. AttachKnowledge => (~drifted => OneEmbedding)'
  BY <1>0, AttachIs, SMT DEF Truth, OneEmbedding, Uploaded, Saved, Aligned, Idle
<1>17. Stamp => (~drifted => OneEmbedding)'
  BY <1>0, StampIs, SMT DEF Truth, OneEmbedding, Uploaded, Saved, Aligned, Idle
<1>18. DeleteCollection => (~drifted => OneEmbedding)'
  BY <1>0, DeleteCollectionIs, WorldIs, SMT DEF Truth, OneEmbedding, Uploaded, Saved, Aligned, World
<1>19. LoseState => (~drifted => OneEmbedding)'
  BY <1>0, LoseStateIs, WorldIs, SMT DEF Truth, OneEmbedding, Uploaded, Saved, Aligned, World
<1>20. (ModelSwap \/ EditConfig \/ Install) => (~drifted => OneEmbedding)'
  BY <1>0, HostIs, WorldIs, SMT DEF Truth, OneEmbedding, Uploaded, Saved, Aligned, World
<1>21. ASSUME NEW k \in Chats, Open(k) \/ Write(k) \/ Delete(k)
      PROVE  (~drifted => OneEmbedding)'
  BY <1>0, <1>21, OpenIs, WorldIs, SMT DEF Truth, OneEmbedding, Uploaded, Saved, Aligned, World
<1>22. ASSUME NEW rebuild \in BOOLEAN, NEW ack \in BOOLEAN, Begin(rebuild, ack)
      PROVE  (~drifted => OneEmbedding)'
  <2>1. drifted' = (drifted \/ config # embedder) /\ disk' = disk /\ kb' = kb
    BY <1>0, <1>22, BeginIs
  <2>. QED  BY <1>0, <2>1 DEF Truth, OneEmbedding
<1>. QED
  BY <1>3, <1>4, <1>5, <1>6, <1>7, <1>8, <1>9, <1>10, <1>11, <1>12, <1>13, <1>14, <1>15, <1>16, <1>17, <1>18,
     <1>19, <1>20, <1>21, <1>22 DEF Next, Step, World

\* Each step adds at most one id to those in use, so that a new one is always there.
LEMMA UsedGrows ==
  ASSUME Types, IsFiniteSet(Used), NEW x, Used' \subseteq Used \cup {x}
  PROVE  IsFiniteSet(Used)'
<1>1. IsFiniteSet(Used \cup {x})
  BY FS_AddElement
<1>. QED  BY <1>1, FS_Subset

LEMMA UsedStep ==
  ASSUME Indexed, Next
  PROVE  IsFiniteSet(Used)'
<1>0. /\ Types /\ IsFiniteSet(Used) /\ ChatsOK /\ Kept /\ Wired /\ Sound /\ Bound /\ Prepared /\ Saved /\ Aligned
      /\ Listed /\ Chores /\ Covered /\ InHand /\ Uploaded /\ Truth
  BY DEF Indexed, Books, Pass
<1>1. TypedWorld
  BY <1>0, TypedAre
<1>2. TypedRun
  BY <1>0, TypedAre
<1>. USE DEF Before, During, Working, OnChat, TypedWorld, TypedRun,
             Ends, Saves, Quiet, SamePlan, SameList, SameHand, host, At
<1>3. Cut => IsFiniteSet(Used)'
  <2>1. Cut => Used' \subseteq Used \cup {run.file}
    BY <1>0, <1>1, <1>2, CutIs, SMT DEF Used
  <2>. QED  BY <1>0, <2>1, UsedGrows
<1>4. ResetKnowledge => IsFiniteSet(Used)'
  <2>1. ResetKnowledge => Used' \subseteq Used \cup {0}
    BY <1>0, <1>1, <1>2, ResetIs, SMT DEF Used
  <2>. QED  BY <1>0, <2>1, UsedGrows
<1>5. EnsureKnowledge => IsFiniteSet(Used)'
  <2>. SUFFICES ASSUME EnsureKnowledge PROVE Used' \subseteq Used \cup {0}
    BY <1>0, UsedGrows
  <2>1. kb'.files \subseteq kb.files /\ disk' = disk /\ stray' = stray
    <3>1. /\ disk' = disk /\ stray' = stray /\ (kb.id # 0 => kb' = kb)
          /\ kb.id = 0 => kb' = [id |-> kb.last + 1, last |-> kb.last + 1, files |-> {}]
      BY <1>0, EnsureIs
    <3>. QED  BY <3>1
  <2>. QED  BY <2>1, SMT DEF Used
<1>6. SaveBegun => IsFiniteSet(Used)'
  <2>. SUFFICES ASSUME SaveBegun PROVE Used' \subseteq Used \cup {0}
    BY <1>0, UsedGrows
  <2>1. run.pc = "begin" /\ run.st \in State /\ disk' = run.st /\ kb' = kb /\ stray' = stray
    BY <1>0, SaveBegunIs
  <2>2. DOMAIN disk'.chats = {} \/ disk'.chats = disk.chats
    BY <1>0, <2>1, EntriesAre DEF Prepared
  <2>. QED  BY <2>1, <2>2, SMT DEF Used
<1>7. RecallChats => IsFiniteSet(Used)'
  <2>1. RecallChats => Used' \subseteq Used \cup {0}
    BY <1>0, <1>1, <1>2, RecallChatsIs, SMT DEF Used
  <2>. QED  BY <1>0, <2>1, UsedGrows
<1>8. RemoveKnowledgeFile => IsFiniteSet(Used)'
  <2>1. RemoveKnowledgeFile => Used' \subseteq Used \cup {0}
    BY <1>0, <1>1, <1>2, RemoveIs, SMT DEF Used
  <2>. QED  BY <1>0, <2>1, UsedGrows
<1>9. ClearEntry => IsFiniteSet(Used)'
  <2>. SUFFICES ASSUME ClearEntry PROVE Used' \subseteq Used \cup {0}
    BY <1>0, UsedGrows
  <2>1. /\ run.pc = "removed" /\ run \in Run /\ run.st \in State /\ run.todo # <<>> /\ disk = run.st
        /\ kb' = kb /\ disk' = Cleared(run.st) /\ stray' = stray
    BY <1>0, ClearIs DEF Saved
  <2>2. /\ DOMAIN disk'.chats = DOMAIN disk.chats
        /\ This.chat \in DOMAIN disk.chats => disk'.chats[This.chat].file = 0
        /\ \A c \in DOMAIN disk.chats \ {This.chat} : disk'.chats[c] = disk.chats[c]
    BY <2>1, ClearedIs
  <2>. QED  BY <2>1, <2>2, SMT DEF Used
<1>10. DropEntry => IsFiniteSet(Used)'
  <2>. SUFFICES ASSUME DropEntry PROVE Used' \subseteq Used \cup {0}
    BY <1>0, UsedGrows
  <2>1. /\ run.pc \in {"removed", "next", "skip"} /\ run \in Run /\ run.st \in State /\ run.todo # <<>> /\ disk = run.st
        /\ kb' = kb /\ disk' = Dropped(run.st) /\ stray' = stray
    BY <1>0, DropIs DEF Saved
  <2>2. /\ DOMAIN disk'.chats = DOMAIN disk.chats \ {This.chat}
        /\ \A c \in DOMAIN disk.chats \ {This.chat} : disk'.chats[c] = disk.chats[c]
    BY <2>1, DroppedIs
  <2>. QED  BY <2>1, <2>2, SMT DEF Used
<1>11. GetChat => IsFiniteSet(Used)'
  <2>1. GetChat => Used' \subseteq Used \cup {0}
    BY <1>0, <1>1, <1>2, GetChatIs, SMT DEF Used
  <2>. QED  BY <1>0, <2>1, UsedGrows
<1>12. SkipChat => IsFiniteSet(Used)'
  <2>. SUFFICES ASSUME SkipChat PROVE Used' \subseteq Used \cup {0}
    BY <1>0, UsedGrows
  <2>1. /\ run.pc \in {"removed", "next", "skip"} /\ run \in Run /\ run.st \in State /\ run.todo # <<>> /\ disk = run.st
        /\ kb' = kb /\ disk' = Dropped(run.st) /\ stray' = stray
    BY <1>0, SkipIs DEF Saved
  <2>2. /\ DOMAIN disk'.chats = DOMAIN disk.chats \ {This.chat}
        /\ \A c \in DOMAIN disk.chats \ {This.chat} : disk'.chats[c] = disk.chats[c]
    BY <2>1, DroppedIs
  <2>. QED  BY <2>1, <2>2, SMT DEF Used
<1>13. UploadToKnowledge => IsFiniteSet(Used)'
  <2>. SUFFICES ASSUME UploadToKnowledge PROVE \E n : Used' \subseteq Used \cup {n}
    BY <1>0, UsedGrows
  <2>1. CASE kb' = kb /\ stray' = stray
    BY <1>0, <2>1, UploadIs, SMT DEF Used
  <2>2. CASE ~(kb' = kb /\ stray' = stray)
    <3>1. PICK n \in Nat : /\ kb'.files = kb.files \cup {[id |-> n, chat |-> This.chat, at |-> run.at, emb |-> embedder]}
                           /\ stray' \in {stray, stray \cup {n}}
      BY <1>0, <2>2, UploadIs, Zenon
    <3>2. disk' = disk
      BY <1>0, UploadIs
    <3>3. Used' \subseteq Used \cup {n}
      BY <3>1, <3>2, SMT DEF Used
    <3>. QED  BY <3>3
  <2>. QED  BY <2>1, <2>2
<1>14. RecordChat => IsFiniteSet(Used)'
  <2>. SUFFICES ASSUME RecordChat PROVE Used' \subseteq Used \cup {run.file}
    BY <1>0, UsedGrows
  <2>1. /\ run.pc = "record" /\ run \in Run /\ run.st \in State /\ run.todo # <<>>
        /\ This.chat \in DOMAIN run.listed /\ disk = run.st
        /\ kb' = kb /\ disk' = Recorded(run.st) /\ stray' = stray
    BY <1>0, RecordIs DEF Saved
  <2>2. /\ DOMAIN disk'.chats = DOMAIN disk.chats \cup {This.chat} /\ disk'.chats[This.chat].file = run.file
        /\ \A c \in DOMAIN disk.chats \ {This.chat} : disk'.chats[c] = disk.chats[c]
    BY <2>1, RecordedIs
  <2>. QED  BY <2>1, <2>2, SMT DEF Used
<1>15. DiscoverModel => IsFiniteSet(Used)'
  <2>1. DiscoverModel => Used' \subseteq Used \cup {0}
    BY <1>0, <1>1, <1>2, DiscoverIs, SMT DEF Used
  <2>. QED  BY <1>0, <2>1, UsedGrows
<1>16. AttachKnowledge => IsFiniteSet(Used)'
  <2>1. AttachKnowledge => Used' \subseteq Used \cup {0}
    BY <1>0, <1>1, <1>2, AttachIs, SMT DEF Used
  <2>. QED  BY <1>0, <2>1, UsedGrows
<1>17. Stamp => IsFiniteSet(Used)'
  <2>1. Stamp => disk'.chats = disk.chats /\ kb' = kb /\ stray' = stray
    BY <1>0, StampIs DEF Saved
  <2>2. Stamp => Used' = Used
    BY <2>1 DEF Used
  <2>. QED  BY <1>0, <2>2
<1>18. DeleteCollection => IsFiniteSet(Used)'
  <2>1. DeleteCollection => Used' \subseteq Used \cup {0}
    BY <1>0, <1>1, <1>2, DeleteCollectionIs, WorldIs, SMT DEF Used, World
  <2>. QED  BY <1>0, <2>1, UsedGrows
<1>19. LoseState => IsFiniteSet(Used)'
  <2>. SUFFICES ASSUME LoseState PROVE Used' \subseteq Used \cup {0}
    BY <1>0, UsedGrows
  <2>1. DOMAIN disk'.chats = {} /\ kb' = kb /\ stray' = {f.id : f \in kb.files}
    BY <1>0, LoseStateIs, NoRecords
  <2>. QED  BY <2>1, SMT DEF Used
<1>20. (ModelSwap \/ EditConfig \/ Install) => IsFiniteSet(Used)'
  <2>1. (ModelSwap \/ EditConfig \/ Install) => Used' \subseteq Used \cup {0}
    BY <1>0, <1>1, <1>2, HostIs, WorldIs, SMT DEF Used, World
  <2>. QED  BY <1>0, <2>1, UsedGrows
<1>21. ASSUME NEW k \in Chats, Open(k) \/ Write(k) \/ Delete(k)
      PROVE  IsFiniteSet(Used)'
  <2>1. Used' = Used
    BY <1>0, <1>21, OpenIs DEF Used
  <2>. QED  BY <1>0, <2>1
<1>22. ASSUME NEW rebuild \in BOOLEAN, NEW ack \in BOOLEAN, Begin(rebuild, ack)
      PROVE  IsFiniteSet(Used)'
  <2>1. Used' = Used
    BY <1>0, <1>22, BeginIs DEF Used
  <2>. QED  BY <1>0, <2>1
<1>. QED
  BY <1>3, <1>4, <1>5, <1>6, <1>7, <1>8, <1>9, <1>10, <1>11, <1>12, <1>13, <1>14, <1>15, <1>16, <1>17, <1>18,
     <1>19, <1>20, <1>21, <1>22 DEF Next, Step, World

----------------------------------------------------------------------------
(* The invariant, and what follows from it                                  *)

LEMMA InitHolds ==
  ASSUME Init
  PROVE  Indexed
<1>1. PICK born \in SUBSET Chats :
        chats = [c \in Chats |-> [is |-> IF c \in born THEN "live" ELSE "unborn", at |-> 1, text |-> TRUE]]
  BY DEF Init
<1>2. /\ kb = [id |-> 0, last |-> 0, files |-> {}] /\ attached = {} /\ served \in Models
      /\ config \in Embeddings /\ embedder = config /\ disk = EmptyState /\ run = Idle
      /\ faults = 0 /\ edits = 0 /\ emptied = FALSE /\ stray = {} /\ drifted = FALSE
  BY DEF Init
<1>3. chats \in [Chats -> Chat] /\ ChatsOK
  BY <1>1, <1>2 DEF Chat, ChatsOK
<1>4. /\ kb.id = 0 /\ kb.last = 0 /\ kb.files = {} /\ kb \in [id : Nat, last : Nat, files : SUBSET FileRec]
      /\ run.pc = "idle"
  BY <1>2 DEF Idle
<1>5. /\ EmptyState \in State /\ disk = EmptyState /\ disk.kb = 0 /\ disk.chats = <<>> /\ disk.emb = NoEmbedding
      /\ DOMAIN disk.chats = {}
  BY <1>2, NoRecords DEF EmptyState, State
<1>6. Types
  <2>1. /\ attached \subseteq Models \X Nat /\ served \in Models /\ {config, embedder} \subseteq Embeddings
        /\ emptied \in BOOLEAN /\ drifted \in BOOLEAN
    BY <1>2
  <2>2. faults \in Nat /\ edits \in 0 .. MaxEdits
    BY <1>2, RecallAssumption, SMT DEF RecallAssumption
  <2>3. RunType
    BY <1>2, <1>5 DEF RunType
  <2>. QED  BY <1>3, <1>4, <2>1, <2>2, <2>3 DEF Types, WorldType
<1>7. Kept /\ Wired /\ Sound /\ Bound
  BY <1>2, <1>4, <1>5 DEF Kept, Wired, Sound, SoundState, Bound
<1>8. Prepared /\ Saved /\ Aligned /\ Pass
  BY <1>4 DEF Before, During, Working, OnChat, Prepared, Saved, Aligned, Pass, Listed, Chores, Covered, InHand, Uploaded
<1>9. Truth
  BY <1>2, <1>4, <1>5 DEF Truth, RecordedIsThere, NothingElse, OneEmbedding
<1>10. IsFiniteSet(Used)
  <2>1. Used = {}
    BY <1>2, <1>4, <1>5 DEF Used
  <2>. QED  BY <2>1, FS_EmptySet
<1>. QED  BY <1>3, <1>6, <1>7, <1>8, <1>9, <1>10 DEF Indexed, Books

\* A step of nobody changes nothing the invariant reads.
LEMMA Stutter ==
  ASSUME Indexed, UNCHANGED vars
  PROVE  Indexed'
<1>1. /\ chats' = chats /\ kb' = kb /\ attached' = attached /\ served' = served /\ config' = config /\ embedder' = embedder
      /\ disk' = disk /\ run' = run /\ faults' = faults /\ edits' = edits
      /\ emptied' = emptied /\ stray' = stray /\ drifted' = drifted
  BY DEF vars, owui, host
<1>2. Types' /\ IsFiniteSet(Used)'
  BY <1>1 DEF Indexed, Types, WorldType, RunType, Used
<1>3. ChatsOK' /\ Kept' /\ Wired' /\ Sound' /\ Bound' /\ Prepared' /\ Saved' /\ Aligned'
  BY <1>1 DEF Indexed, Books, ChatsOK, Kept, Wired, Sound, SoundState, Bound, Prepared, Saved, Aligned
<1>4. Listed' /\ Chores' /\ Covered'
  BY <1>1 DEF Indexed, Pass, Listed, Chores, Chore, Covered, Old, Held, Due
<1>5. InHand' /\ Uploaded'
  BY <1>1 DEF Indexed, Pass, InHand, Uploaded, This, Known
<1>6. Truth'
  BY <1>1 DEF Indexed, Truth, RecordedIsThere, NothingElse, OneEmbedding, Live, At
<1>. QED  BY <1>2, <1>3, <1>4, <1>5, <1>6 DEF Indexed, Books, Pass

LEMMA NextHolds ==
  ASSUME Indexed, Next
  PROVE  Indexed'
<1>1. Types'
  BY TypesStep DEF Indexed, Pass
<1>2. Books'
  BY ChatsOKStep, KeptStep, WiredStep, SoundStep, BoundStep, PreparedStep, SavedStep, AlignedStep DEF Books
<1>3. Pass'
  BY ListedStep, ChoresStep, CoveredStep, InHandStep, UploadedStep DEF Pass
<1>4. Truth'
  BY RecordedStep, NothingElseStep, OneEmbeddingStep DEF Truth
<1>5. IsFiniteSet(Used)'
  BY UsedStep
<1>. QED  BY <1>1, <1>2, <1>3, <1>4, <1>5 DEF Indexed

\* The invariant implies what the runs check.
LEMMA TypeOKHolds ==
  ASSUME Indexed
  PROVE  TypeOK
<1>0. /\ Types /\ ChatsOK /\ Kept /\ Wired /\ Sound
  BY DEF Indexed, Books
<1>1. /\ \A c \in Chats : chats[c].at \in Nat /\ chats[c].is \in {"unborn", "live", "gone"}
      /\ kb.id \in Nat /\ kb.last \in Nat
      /\ \A f \in kb.files : f.id \in Nat /\ f.chat \in Chats /\ f.at \in Nat /\ f.emb \in Embeddings
      /\ disk \in State /\ edits \in Nat /\ \A a \in attached : a[2] \in Nat
  BY <1>0, TypedAre DEF TypedWorld
<1>2. MaxEdits \in Nat /\ edits <= MaxEdits
  BY <1>0, RecallAssumption DEF Types, WorldType, RecallAssumption
<1>3. \A c \in Chats : chats[c].at \in 1 .. MaxEdits + 1
  BY <1>0, <1>1, <1>2, SMT DEF ChatsOK
<1>4. \A f \in kb.files : f.at \in 1 .. chats[f.chat].at
  BY <1>0, <1>1, SMT DEF Kept
<1>5. attached \subseteq Models \X (1 .. kb.last)
  <2>1. attached \subseteq Models \X Nat /\ \A a \in attached : 1 <= a[2] /\ a[2] <= kb.last
    BY <1>0 DEF Types, WorldType, Wired
  <2>. QED  BY <1>1, <2>1, SMT
<1>6. ASSUME NEW st \in State, SoundState(st)
      PROVE  IsState(st)
  <2>1. /\ st.kb \in Nat /\ DOMAIN st.chats \in SUBSET Chats
        /\ \A c \in DOMAIN st.chats : st.chats[c].file \in Nat /\ st.chats[c].at \in Nat
    BY EntriesAre
  <2>2. st.emb \in Embeddings \cup {NoEmbedding} /\ st.pass \in {"never", "partial", "complete"}
    BY DEF State
  <2>. QED  BY <1>1, <1>6, <2>1, <2>2, SMT DEF SoundState, IsState
<1>7. IsState(disk)
  BY <1>0, <1>1, <1>6 DEF Sound
<1>8. run # Idle => IsState(run.st) /\ run.todo \in Seq([kind : {"delete", "update", "add"}, chat : Chats])
  <2>1. SUFFICES ASSUME run # Idle
        PROVE  IsState(run.st) /\ run.todo \in Seq([kind : {"delete", "update", "add"}, chat : Chats])
    OBVIOUS
  <2>2. run \in Run /\ run.pc # "idle"
    <3>1. run \in Run
      BY <1>0, <2>1 DEF Types, RunType
    <3>. QED  BY <3>1 DEF Run, Before, During, Working, OnChat
  <2>3. run.st \in State /\ run.todo \in Seq(Item)
    BY <2>2, RunFields
  <2>4. IsState(run.st)
    BY <1>0, <1>6, <2>2, <2>3 DEF Sound
  <2>. QED  BY <2>3, <2>4 DEF Item
<1>9. served \in Models /\ {config, embedder} \subseteq Embeddings
  BY <1>0 DEF Types, WorldType
<1>. QED  BY <1>0, <1>1, <1>3, <1>4, <1>5, <1>7, <1>8, <1>9 DEF TypeOK, Kept

\* An empty plan means that every live chat is recorded at its version, and what is
\* recorded at its version is there.
LEMMA StateIsTrueHolds ==
  ASSUME Indexed
  PROVE  StateIsTrue
<1>0. Types /\ ChatsOK /\ Bound /\ Truth
  BY DEF Indexed, Books
<1>1. SUFFICES ASSUME ~emptied, StatusPasses
               PROVE  disk.kb = kb.id /\ \A c \in Live : \E f \in kb.files : f.chat = c /\ f.at = chats[c].at
  BY <1>0 DEF Truth, StateIsTrue
<1>. DEFINE l == [c \in Live |-> chats[c].at]
<1>2. Plan(l, disk.chats) = <<>> /\ disk.kb # 0
  BY <1>1 DEF StatusPasses, AttachmentStateFor
<1>3. DOMAIN l = Live /\ Live \in SUBSET Chats /\ DOMAIN disk.chats \in SUBSET Chats
      /\ \A c \in Live : l[c] = chats[c].at
  BY <1>0, TypedAre DEF Live, TypedWorld
<1>. HIDE DEF l
<1>4. DOMAIN disk.chats = Live /\ Changed(l, disk.chats) = {}
  BY <1>2, <1>3, EmptyPlan
<1>5. \A c \in Live : disk.chats[c].at >= chats[c].at
  <2>1. \A c \in Live : ~(l[c] > disk.chats[c].at) /\ l[c] \in Nat /\ disk.chats[c].at \in Nat
    BY <1>0, <1>3, <1>4, TypedAre DEF Changed, TypedWorld
  <2>. QED  BY <1>3, <2>1, SMT
<1>6. \A c \in Live : \E f \in kb.files : f.chat = c /\ f.at = chats[c].at
  BY <1>0, <1>1, <1>4, <1>5 DEF Truth, RecordedIsThere
<1>. QED  BY <1>0, <1>1, <1>2, <1>6 DEF Bound

\* At the stamp nothing is left to do, so that every listed chat was skipped or is there.
LEMMA CompleteHolds ==
  ASSUME Indexed, [Next]_vars
  PROVE  CompleteIsComplete
<1>0. /\ Types /\ Saved /\ Covered /\ InHand
  BY DEF Indexed, Books, Pass
<1>. SUFFICES ASSUME At("stamp"), disk'.pass = "complete", ~emptied
     PROVE  /\ \A c \in DOMAIN run.listed \ run.skipped :
                 \E f \in kb.files : f.id = disk'.chats[c].file /\ f.chat = c /\ f.at >= run.listed[c]
            /\ DOMAIN disk'.chats \subseteq DOMAIN run.listed
            /\ <<run.model, disk'.kb>> \in attached
  BY DEF CompleteIsComplete
<1>1. run.pc = "stamp" /\ disk = run.st /\ run.st.pass = "partial" /\ run.todo = <<>> /\ <<run.model, run.st.kb>> \in attached
  BY <1>0 DEF At, Saved, InHand, During, Working
<1>2. DOMAIN run.todo = {}
  BY <1>1, SMT
<1>3. disk'.kb = run.st.kb /\ disk'.chats = run.st.chats
  <2>1. CASE Stamp
    BY <1>0, <2>1, StampIs DEF Saves
  <2>2. CASE ~Stamp
    <3>1. disk' = disk
      <4>1. CASE UNCHANGED vars
        BY <4>1 DEF vars
      <4>2. CASE Cut
        BY <1>0, <4>2, CutIs
      <4>3. CASE World
        <5>1. LoseState => FALSE
          BY <1>0, <1>1, LoseStateIs
        <5>. QED  BY <4>3, <5>1 DEF World, Open, Write, Delete, DeleteCollection, ModelSwap, EditConfig, Install
      <4>4. CASE \E rebuild, ack \in BOOLEAN : Begin(rebuild, ack)
        BY <4>4 DEF Begin
      <4>5. CASE Step
        BY <1>1, <2>2, <4>5, Zenon DEF Step, At, ResetKnowledge, EnsureKnowledge, SaveBegun, RecallChats, RemoveKnowledgeFile,
           ClearEntry, DropEntry, GetChat, SkipChat, UploadToKnowledge, RecordChat, DiscoverModel, AttachKnowledge
      <4>. QED  BY <4>1, <4>2, <4>3, <4>4, <4>5 DEF Next
    <3>. QED  BY <1>1, <3>1
  <2>. QED  BY <2>1, <2>2
<1>4. \A c : ~Due(c)
  BY <1>2 DEF Due
<1>5. /\ \A c \in DOMAIN run.st.chats : c \in DOMAIN run.listed
      /\ \A c \in DOMAIN run.listed : c \in run.skipped \/ Held(c)
  BY <1>0, <1>1, <1>4 DEF Covered, Working
<1>. QED  BY <1>1, <1>3, <1>5 DEF Held

----------------------------------------------------------------------------
(* The theorems                                                             *)

\* cmd/villa/recall.go, runRecallIndex: through every cut, lost reply and edit by others,
\* the run's list, copy of the state, fetched version and uploaded file keep the relation
\* to the collection and to recall-state.json that the next step relies on.
THEOREM IndexInvariant == Spec => []Indexed
<1>1. Init => Indexed
  BY InitHolds
<1>2. Indexed /\ [Next]_vars => Indexed'
  BY NextHolds, Stutter
<1>. QED  BY <1>1, <1>2, PTL DEF Spec

\* The chats, the collection, the state file and the run's copy of it are what the code
\* reads them as: no recorded version is ahead of its chat, no file is there twice.
THEOREM IndexTyped == Spec => []TypeOK
<1>1. Indexed => TypeOK
  BY TypeOKHolds
<1>. QED  BY <1>1, IndexInvariant, PTL

\* recall.go, step (9) and runRecallStatus: what the state file says of a chat is so, a
\* status that passes speaks of a collection that has every chat, and only a pass with
\* nothing left to do is stamped complete; whatever was cut and whatever others did
\* meanwhile, but for what emptied the collection under the state file.
THEOREM IndexTrue == Spec => IndexIsTrue
<1>1. Indexed => StateIsTrue
  BY StateIsTrueHolds
<1>2. Indexed /\ [Next]_vars => [CompleteIsComplete]_vars
  BY CompleteHolds
<1>3. Spec => [][Next]_vars
  BY PTL DEF Spec
<1>4. [](StateIsTrue) /\ [][CompleteIsComplete]_vars => IndexIsTrue
  <2>1. StateIsTrue' /\ [CompleteIsComplete]_vars => [StateIsTrue' /\ CompleteIsComplete]_vars
    OBVIOUS
  <2>. QED  BY <2>1, PTL DEF IndexIsTrue
<1>. QED  BY <1>1, <1>2, <1>3, <1>4, IndexInvariant, PTL

=============================================================================
