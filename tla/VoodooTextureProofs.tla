------------------------ MODULE VoodooTextureProofs ------------------------
(***************************************************************************)
(* Proofs about VoodooTexture, for a cache, a ring and a texture memory of *)
(* any size.  The bookkeeping is exact for one, two and four render        *)
(* threads; that the right texels are drawn follows from it when every     *)
(* thread's count is compared, which is so for one and two, and for the    *)
(* textures whose pages are all marked and all evict them.  Only Tracked   *)
(* is used of the arithmetic of pages.                                     *)
(***************************************************************************)
EXTENDS VoodooTexture, SequenceTheorems, FiniteSetTheorems, TLAPS

TexelSets == UNION {[CoveredPages(t) -> 0 .. 1] : t \in Textures}
Triangles == [tex : Textures, entry : Slots, want : TexelSets]

(* The places of a thread's queue that name slot c. *)
Places(s, c) == {i \in 1 .. Len(s) : s[i].entry = c}

-----------------------------------------------------------------------------
(* The inductive invariant, in parts.                                       *)

Typed ==
  /\ TypeOK
  /\ DOMAIN data = Slots
  /\ pending \in [Threads -> Seq(Triangles)]

(* A command of the FIFO thread has its texture, and room was waited for.   *)
Queueing ==
  fifo \in {"use", "search", "drain"} =>
    tex \in Textures /\ \A t \in Threads : Len(pending[t]) < PARAM_SIZE

(* A texture is in one slot, and searched a slot for only if in none.       *)
OneSlot ==
  /\ \A c, d \in Held : base[c] = base[d] => c = d
  /\ fifo \in {"search", "drain"} => Hits = {}

BookInv == Typed /\ Queueing /\ OneSlot /\ CountsMatch /\ CachedIsPresent

(* A slot that may be found holds what texture memory holds, if its texture *)
(* is tracked; such slots are evicted before a page of theirs is written.   *)
Fresh == \A c \in Held : Tracked(base[c]) => data[c] = Texels(base[c])
Evicted ==
  fifo \in {"flush", "write"} =>
    \A c \in Held : Tracked(base[c]) => page \notin CoveredPages(base[c])

TexelInv == Fresh /\ Evicted /\ RightTexture

-----------------------------------------------------------------------------
(* Counting places.                                                         *)

LEMMA PlacesFinite ==
  ASSUME NEW s \in Seq(Triangles), NEW c
  PROVE  /\ IsFiniteSet(Places(s, c))
         /\ Cardinality(Places(s, c)) \in 0 .. Len(s)
<1>1. Len(s) \in Nat BY LenProperties
<1>2. IsFiniteSet(1 .. Len(s)) /\ Cardinality(1 .. Len(s)) = Len(s)
  BY <1>1, FS_Interval, SMTT(30)
<1>3. Places(s, c) \in SUBSET (1 .. Len(s)) BY DEF Places
<1>4. IsFiniteSet(Places(s, c)) /\ Cardinality(Places(s, c)) <= Len(s)
  BY <1>2, <1>3, FS_Subset
<1> QED BY <1>1, <1>4, FS_CardinalityType

(* No place names a slot whose count is zero. *)
LEMMA NoPlaces ==
  ASSUME NEW s \in Seq(Triangles), NEW c, Cardinality(Places(s, c)) = 0
  PROVE  \A i \in 1 .. Len(s) : s[i].entry # c
<1>1. Places(s, c) = {} BY PlacesFinite, FS_EmptySet
<1> QED BY <1>1 DEF Places

(* A triangle queued is counted where it belongs. *)
LEMMA PlacesAppend ==
  ASSUME NEW s \in Seq(Triangles), NEW e \in Triangles, NEW c
  PROVE  Cardinality(Places(Append(s, e), c)) =
           Cardinality(Places(s, c)) + (IF e.entry = c THEN 1 ELSE 0)
<1> DEFINE n == Len(s)
           z == Append(s, e)
<1>1. /\ n \in Nat /\ Len(z) = n + 1
      /\ \A i \in 1 .. n : z[i] = s[i]
      /\ z[n + 1] = e
  BY LenProperties, AppendProperties
<1> HIDE DEF z, n
<1>2. 1 .. (n + 1) = (1 .. n) \cup {n + 1} /\ n + 1 \notin 1 .. n BY <1>1
<1>3. IsFiniteSet(Places(s, c)) /\ Cardinality(Places(s, c)) \in Nat
  BY PlacesFinite, FS_CardinalityType
<1>4. CASE e.entry = c
  <2>1. Places(z, c) = Places(s, c) \cup {n + 1} BY <1>1, <1>2, <1>4 DEF Places, n
  <2>2. n + 1 \notin Places(s, c) BY <1>2 DEF Places, n
  <2> QED BY <1>3, <1>4, <2>1, <2>2, FS_AddElement DEF z
<1>5. CASE e.entry # c
  <2>1. Places(z, c) = Places(s, c) BY <1>1, <1>2, <1>5 DEF Places, n
  <2> QED BY <1>3, <1>5, <2>1 DEF z
<1> QED BY <1>4, <1>5

(* A triangle drawn is taken off where it was counted. *)
LEMMA PlacesTail ==
  ASSUME NEW s \in Seq(Triangles), s # << >>, NEW c
  PROVE  Cardinality(Places(Tail(s), c)) =
           Cardinality(Places(s, c)) - (IF Head(s).entry = c THEN 1 ELSE 0)
<1> DEFINE n == Len(s)
           z == Tail(s)
           f == [i \in Places(z, c) |-> i + 1]
<1>1. /\ n \in Nat \ {0} /\ Len(z) = n - 1
      /\ \A i \in 1 .. n - 1 : z[i] = s[i + 1]
      /\ Head(s) = s[1]
  BY LenProperties, EmptySeq, HeadTailProperties
<1>2. z \in Seq(Triangles) BY HeadTailProperties
<1>3. IsFiniteSet(Places(s, c)) /\ Cardinality(Places(s, c)) \in Nat /\ IsFiniteSet(Places(z, c))
  BY <1>2, PlacesFinite, FS_CardinalityType
<1> HIDE DEF z
<1>4. f \in Bijection(Places(z, c), Places(s, c) \ {1})
  <2>1. \A i \in Places(z, c) : i \in 1 .. n - 1 /\ i + 1 \in Places(s, c) \ {1}
    BY <1>1 DEF Places
  <2>2. \A j \in Places(s, c) \ {1} : j - 1 \in Places(z, c) /\ j \in Int
    BY <1>1 DEF Places
  <2>3. f \in [Places(z, c) -> Places(s, c) \ {1}] BY <2>1
  <2>4. \A i, j \in Places(z, c) : f[i] = f[j] => i = j BY <2>1
  <2>5. \A j \in Places(s, c) \ {1} : \E i \in Places(z, c) : f[i] = j
    <3> TAKE j \in Places(s, c) \ {1}
    <3>1. f[j - 1] = j BY <2>2
    <3> QED BY <2>2, <3>1
  <2> QED BY <2>3, <2>4, <2>5, Zenon DEF Bijection, Injection, Surjection, IsInjective
<1>5. Cardinality(Places(z, c)) = Cardinality(Places(s, c) \ {1})
  BY <1>3, <1>4, FS_Bijection DEF ExistsBijection
<1>6. 1 \in Places(s, c) <=> Head(s).entry = c BY <1>1 DEF Places
<1>7. Cardinality(Places(s, c) \ {1}) =
        IF 1 \in Places(s, c) THEN Cardinality(Places(s, c)) - 1 ELSE Cardinality(Places(s, c))
  BY <1>3, FS_RemoveElement
<1> QED BY <1>3, <1>5, <1>6, <1>7 DEF z

-----------------------------------------------------------------------------
(* The bookkeeping.                                                         *)

LEMMA PageOfType == ASSUME NEW a \in Nat PROVE PageOf(a) \in Pages
<1>1. a \div TEX_PAGE \in Int BY VoodooTextureAssumption
<1> DEFINE b == a \div TEX_PAGE
<1> HIDE DEF b
<1>2. b % TEX_PAGES \in 0 .. TEX_PAGES - 1 BY <1>1, VoodooTextureAssumption DEF b
<1> QED BY <1>2 DEF PageOf, Pages, b

(* The pages of a range are pages of texture memory. *)
LEMMA PagesType ==
  ASSUME NEW t \in Textures
  PROVE  /\ CoveredPages(t) \subseteq Pages
         /\ \A r \in Ranges[t] : Marks(r) \subseteq Pages
         /\ MarkedPages(t) \subseteq Pages
<1>1. \A r \in Ranges[t] : r.start \in Nat /\ r.end \in Nat BY VoodooTextureAssumption
<1>2. \A r \in Ranges[t] : \A a \in r.start .. r.end : PageOf(a) \in Pages BY <1>1, PageOfType
<1>3. \A r \in Ranges[t] : Marks(r) \subseteq Pages BY <1>2 DEF Marks
<1>4. \A r \in Ranges[t] : Covers(r) \subseteq Pages
  <2>1. \A r \in Ranges[t] : \A a \in r.start .. r.end - 1 : PageOf(a) \in Pages BY <1>1, PageOfType
  <2> QED BY <2>1 DEF Covers
<1> QED BY <1>3, <1>4 DEF CoveredPages, MarkedPages

LEMMA TexelsType ==
  ASSUME Typed, NEW t \in Textures
  PROVE  Texels(t) \in TexelSets
<1>1. CoveredPages(t) \subseteq Pages BY PagesType
<1>2. Texels(t) \in [CoveredPages(t) -> 0 .. 1] BY <1>1 DEF Texels, Typed, TypeOK
<1> QED BY <1>2 DEF TexelSets

(* Giving a triangle to every thread keeps the counts. *)
LEMMA QueueCounts ==
  ASSUME BookInv, fifo \in {"use", "search"}, NEW c \in Slots, Queue(c)
  PROVE  /\ pending' \in [Threads -> Seq(Triangles)]
         /\ \A t \in Threads : Len(pending'[t]) <= PARAM_SIZE
         /\ owed' \in [Slots -> [Threads -> 0 .. PARAM_SIZE]]
         /\ CountsMatch'
<1> DEFINE e == [tex |-> tex, entry |-> c, want |-> Texels(tex)]
<1>1. e \in Triangles BY TexelsType DEF BookInv, Queueing, Triangles
<1>2. pending \in [Threads -> Seq(Triangles)] BY DEF BookInv, Typed
<1>3. pending' = [t \in Threads |-> Append(pending[t], e)] BY DEF Queue
<1>e. e.entry = c OBVIOUS
<1> HIDE DEF e
<1>4. pending' \in [Threads -> Seq(Triangles)] BY <1>1, <1>2, <1>3, AppendProperties
<1>5. \A t \in Threads : Len(pending'[t]) = Len(pending[t]) + 1 /\ Len(pending[t]) \in Nat
  BY <1>1, <1>2, <1>3, AppendProperties, LenProperties
<1>6. \A t \in Threads : Len(pending'[t]) \in 0 .. PARAM_SIZE
  BY <1>5, VoodooTextureAssumption DEF BookInv, Queueing
<1>7. \A d \in Slots, t \in Threads : owed'[d][t] = owed[d][t] + (IF d = c THEN 1 ELSE 0)
  BY DEF BookInv, Typed, TypeOK, Queue, Owe
<1>8. \A d \in Slots, t \in Threads : owed'[d][t] = Cardinality(Places(pending'[t], d))
  <2> TAKE d \in Slots, t \in Threads
  <2>1. Cardinality(Places(pending'[t], d)) =
          Cardinality(Places(pending[t], d)) + (IF c = d THEN 1 ELSE 0)
    BY <1>1, <1>2, <1>3, <1>e, PlacesAppend
  <2>2. owed[d][t] = Cardinality(Places(pending[t], d))
    BY DEF BookInv, CountsMatch, Places
  <2> QED BY <1>7, <2>1, <2>2
<1>9. \A d \in Slots, t \in Threads : owed'[d][t] \in 0 .. PARAM_SIZE
  <2> TAKE d \in Slots, t \in Threads
  <2>1. Cardinality(Places(pending'[t], d)) \in 0 .. Len(pending'[t]) BY <1>4, PlacesFinite
  <2> QED BY <1>6, <1>8, <2>1, VoodooTextureAssumption
<1>10. owed' \in [Slots -> [Threads -> 0 .. PARAM_SIZE]]
  <2>1. owed' = [d \in Slots |-> [t \in Threads |-> owed'[d][t]]]
    BY DEF BookInv, Typed, TypeOK, Queue, Owe
  <2> QED BY <1>9, <2>1
<1> QED BY <1>4, <1>6, <1>8, <1>10, VoodooTextureAssumption DEF CountsMatch, Places

(* A triangle drawn by one thread is given back by that thread only. *)
LEMMA DrawCounts ==
  ASSUME BookInv, NEW t \in Threads, Draw(t)
  PROVE  /\ pending' \in [Threads -> Seq(Triangles)]
         /\ \A u \in Threads : Len(pending'[u]) <= Len(pending[u])
         /\ owed' \in [Slots -> [Threads -> 0 .. PARAM_SIZE]]
         /\ CountsMatch'
<1> DEFINE s == pending[t]
           c == Head(s).entry
<1>1. pending \in [Threads -> Seq(Triangles)] /\ s # << >> BY DEF BookInv, Typed, Draw
<1>2. c \in Slots
  <2>1. Head(s) \in Triangles BY <1>1, HeadTailProperties
  <2> QED BY <2>1 DEF Triangles
<1>3. pending' = [pending EXCEPT ![t] = Tail(s)] BY DEF Draw
<1>4. /\ pending'[t] = Tail(s) /\ Tail(s) \in Seq(Triangles)
      /\ \A u \in Threads \ {t} : pending'[u] = pending[u]
      /\ pending' \in [Threads -> Seq(Triangles)]
  BY <1>1, <1>3, HeadTailProperties
<1>5. \A u \in Threads : /\ Len(pending'[u]) <= Len(pending[u])
                         /\ Len(pending[u]) \in Nat /\ Len(pending'[u]) \in Nat
                         /\ Len(pending[u]) <= PARAM_SIZE
  <2>1. \A u \in Threads : /\ Len(pending[u]) \in Nat /\ Len(pending'[u]) \in Nat
                           /\ Len(pending[u]) <= PARAM_SIZE
    BY <1>1, <1>4, LenProperties DEF BookInv, Typed, TypeOK
  <2>2. Len(pending'[t]) = Len(pending[t]) - 1 BY <1>1, <1>4, HeadTailProperties
  <2> QED BY <1>4, <2>1, <2>2
<1>6. owed' = [owed EXCEPT ![c][t] = @ - 1] BY DEF Draw, GiveBack
<1> HIDE DEF s, c
<1>7. \A d \in Slots, u \in Threads :
        owed'[d][u] = owed[d][u] - (IF d = c /\ u = t THEN 1 ELSE 0)
  BY <1>2, <1>6 DEF BookInv, Typed, TypeOK
<1>8. \A d \in Slots, u \in Threads : owed'[d][u] = Cardinality(Places(pending'[u], d))
  <2> TAKE d \in Slots, u \in Threads
  <2>1. owed[d][u] = Cardinality(Places(pending[u], d)) BY DEF BookInv, CountsMatch, Places
  <2>2. CASE u # t BY <1>4, <1>7, <2>1, <2>2 DEF BookInv, Typed, TypeOK
  <2>3. CASE u = t
    <3>1. Cardinality(Places(Tail(s), d)) = Cardinality(Places(s, d)) - (IF c = d THEN 1 ELSE 0)
      BY <1>1, PlacesTail DEF s, c
    <3> QED BY <1>4, <1>7, <2>1, <2>3, <3>1 DEF s
  <2> QED BY <2>2, <2>3
<1>9. \A d \in Slots, u \in Threads : owed'[d][u] \in 0 .. PARAM_SIZE
  <2> TAKE d \in Slots, u \in Threads
  <2>1. Cardinality(Places(pending'[u], d)) \in 0 .. Len(pending'[u]) BY <1>4, PlacesFinite
  <2> QED BY <1>5, <1>8, <2>1, VoodooTextureAssumption
<1>10. owed' \in [Slots -> [Threads -> 0 .. PARAM_SIZE]]
  <2>1. owed' = [d \in Slots |-> [u \in Threads |-> owed'[d][u]]]
    BY <1>2, <1>6 DEF BookInv, Typed, TypeOK
  <2> QED BY <1>9, <2>1
<1> QED BY <1>4, <1>5, <1>8, <1>10 DEF CountsMatch, Places

LEMMA NextSlotType == ASSUME NEW c \in Slots PROVE NextSlot(c) \in Slots
BY VoodooTextureAssumption DEF Slots, NextSlot

(* A hit is the only one. *)
LEMMA HitIs ==
  ASSUME BookInv, fifo = "use", Hits # {}
  PROVE  Min(Hits) \in Slots /\ base[Min(Hits)] = tex
<1>1. PICK c \in Slots : base[c] = tex BY DEF Hits
<1>2. \A d \in Hits : d = c
  BY <1>1, VoodooTextureAssumption DEF BookInv, Queueing, OneSlot, Hits, Held
<1>3. Hits = {c} BY <1>1, <1>2 DEF Hits
<1>4. c \in Int BY <1>1, VoodooTextureAssumption DEF Slots
<1>5. Min(Hits) = c BY <1>3, <1>4 DEF Min
<1> QED BY <1>1, <1>5

LEMMA BookStep ==
  ASSUME BookInv, [Next]_vars
  PROVE  BookInv'
<1>t. Typed /\ TypeOK BY DEF BookInv, Typed
<1>a. NoTexture \notin Textures
      /\ PARAM_SIZE \in Nat /\ TEX_CACHE_MAX \in Nat
  BY VoodooTextureAssumption
<1>1. ASSUME NEW t \in Textures, QueueTriangle(t) PROVE BookInv'
  BY <1>1, <1>t
     DEF QueueTriangle, cacheVars, BookInv, Typed, TypeOK, Queueing, OneSlot, CountsMatch,
         CachedIsPresent, Held, Hits
<1>2. CASE UseCached
  <2>1. Min(Hits) \in Slots BY <1>2, HitIs DEF UseCached
  <2>2. Queue(Min(Hits)) /\ fifo = "use" BY <1>2 DEF UseCached
  <2>3. /\ pending' \in [Threads -> Seq(Triangles)]
        /\ \A t \in Threads : Len(pending'[t]) <= PARAM_SIZE
        /\ owed' \in [Slots -> [Threads -> 0 .. PARAM_SIZE]]
        /\ CountsMatch'
    BY <2>1, <2>2, QueueCounts
  <2>4. Typed' BY <1>2, <1>t, <1>a, <2>2, <2>3 DEF UseCached, Queue, Typed, TypeOK
  <2>5. Queueing' /\ OneSlot' /\ CachedIsPresent'
    BY <1>2, <2>2 DEF UseCached, Queue, BookInv, Queueing, OneSlot, CachedIsPresent, Held
  <2> QED BY <2>3, <2>4, <2>5 DEF BookInv
<1>3. CASE NotCached
  BY <1>3, <1>t
     DEF NotCached, cacheVars, BookInv, Typed, TypeOK, Queueing, OneSlot, CountsMatch,
         CachedIsPresent, Held, Hits
<1>4. CASE SearchTake
  <2> DEFINE c == NextSlot(last)
  <2>1. c \in Slots BY <1>t, NextSlotType DEF TypeOK
  <2>2. /\ fifo = "search" /\ Queue(c) /\ last' = c /\ base' = [base EXCEPT ![c] = tex]
        /\ data' = [data EXCEPT ![c] = Texels(tex)] /\ present' = present \cup MarkedPages(tex)
        /\ mem' = mem /\ page' = page
    BY <1>4 DEF SearchTake
  <2>3. /\ pending' \in [Threads -> Seq(Triangles)]
        /\ \A t \in Threads : Len(pending'[t]) <= PARAM_SIZE
        /\ owed' \in [Slots -> [Threads -> 0 .. PARAM_SIZE]]
        /\ CountsMatch'
    BY <2>1, <2>2, QueueCounts
  <2> HIDE DEF c
  <2>4. tex \in Textures /\ MarkedPages(tex) \subseteq Pages BY <2>2, PagesType DEF BookInv, Queueing
  <2>5. Typed'
    <3>1. base' \in [Slots -> Textures \cup {NoTexture}] /\ DOMAIN data' = Slots
      BY <1>t, <2>1, <2>2, <2>4 DEF Typed, TypeOK
    <3>2. present' \subseteq Pages BY <1>t, <2>2, <2>4 DEF TypeOK
    <3>3. fifo' = "idle" /\ tex' = NoTexture /\ seen' = 0 BY <2>2 DEF Queue
    <3> QED BY <1>t, <1>a, <2>1, <2>2, <2>3, <3>1, <3>2, <3>3 DEF Typed, TypeOK
  <2>6. \A d \in Slots : base'[d] = IF d = c THEN tex ELSE base[d]
    BY <1>t, <2>1, <2>2 DEF TypeOK
  <2>7. OneSlot'
    <3>1. \A d \in Slots : base[d] # tex BY <2>2 DEF BookInv, OneSlot, Hits
    <3> QED BY <2>2, <2>6, <3>1 DEF Queue, BookInv, OneSlot, Held
  <2>8. CachedIsPresent' BY <2>2, <2>6 DEF BookInv, CachedIsPresent, Held
  <2>9. Queueing' BY <2>2 DEF Queue, Queueing
  <2> QED BY <2>3, <2>5, <2>7, <2>8, <2>9 DEF BookInv
<1>5. CASE SearchOn
  <2>1. last' \in Slots BY <1>5, <1>t, NextSlotType DEF SearchOn, TypeOK
  <2> QED
    BY <1>5, <1>t, <1>a, <2>1
       DEF SearchOn, BookInv, Typed, TypeOK, Queueing, OneSlot, CountsMatch,
           CachedIsPresent, Held, Hits
<1>6. CASE SearchFailed
  BY <1>6, <1>t
     DEF SearchFailed, cacheVars, BookInv, Typed, TypeOK, Queueing, OneSlot, CountsMatch,
         CachedIsPresent, Held, Hits
<1>7. CASE SearchAgain
  BY <1>7, <1>t, <1>a
     DEF SearchAgain, cacheVars, BookInv, Typed, TypeOK, Queueing, OneSlot, CountsMatch,
         CachedIsPresent, Held, Hits
<1>8. ASSUME NEW p \in Pages, TexWrite(p) PROVE BookInv'
  <2>1. fifo' \in {"flush", "write"} BY <1>8 DEF TexWrite
  <2>2. \/ /\ base' = [c \in Slots |-> IF c \in Over(p) THEN NoTexture ELSE base[c]]
           /\ present' = StillPresent(p)
        \/ UNCHANGED <<base, present>>
    BY <1>8 DEF TexWrite
  <2>3. CASE UNCHANGED <<base, present>>
    BY <1>8, <1>t, <2>1, <2>3
       DEF TexWrite, BookInv, Typed, TypeOK, Queueing, OneSlot, CountsMatch, CachedIsPresent, Held
  <2>4. CASE /\ base' = [c \in Slots |-> IF c \in Over(p) THEN NoTexture ELSE base[c]]
             /\ present' = StillPresent(p)
    <3>1. base' \in [Slots -> Textures \cup {NoTexture}] BY <1>t, <2>4 DEF TypeOK
    <3>2. \A c \in Held' : c \in Held /\ base'[c] = base[c] /\ c \notin Over(p)
      BY <2>4 DEF Held
    <3>3. present' \subseteq Pages
      <4>1. \A c \in Held : \A r \in Ranges[base[c]] : Marks(r) \subseteq Pages
        BY <1>t, PagesType DEF TypeOK, Held
      <4> SUFFICES ASSUME NEW q \in StillPresent(p) PROVE q \in Pages BY <2>4, Zenon
      <4>2. PICK r \in UNION {Ranges[base[c]] : c \in Held} : q \in Marks(r)
        BY Zenon DEF StillPresent
      <4> QED BY <4>1, <4>2, Zenon
    <3>4. Typed' BY <1>8, <1>t, <2>1, <3>1, <3>3 DEF TexWrite, Typed, TypeOK
    <3>5. OneSlot' BY <2>1, <3>2 DEF BookInv, OneSlot
    <3>6. CachedIsPresent'
      <4> SUFFICES ASSUME NEW c \in Held', NEW r \in Ranges[base'[c]], NEW q \in Marks(r)
                   PROVE  q \in present'
        BY Zenon DEF CachedIsPresent, MarkedPages
      <4>1. c \in Held /\ base'[c] = base[c] /\ p \notin EvictingPages(base[c]) BY <3>2 DEF Over
      <4>2. r \in UNION {Ranges[base[d]] : d \in Held} BY <4>1, Zenon
      <4>3. p \notin Evicts(r) BY <4>1, Zenon DEF EvictingPages
      <4> QED BY <2>4, <4>2, <4>3, Zenon DEF StillPresent
    <3>7. Queueing' /\ CountsMatch' BY <1>8, <2>1 DEF TexWrite, BookInv, Queueing, CountsMatch
    <3> QED BY <3>4, <3>5, <3>6, <3>7 DEF BookInv
  <2> QED BY <2>2, <2>3, <2>4
<1>9. CASE FlushIdle
  BY <1>9, <1>t
     DEF FlushIdle, cacheVars, BookInv, Typed, TypeOK, Queueing, OneSlot, CountsMatch,
         CachedIsPresent, Held, Hits
<1>10. CASE StoreTexel
  <2>1. mem' \in [Pages -> 0 .. 1] BY <1>10, <1>t DEF StoreTexel, TypeOK
  <2> QED
    BY <1>10, <1>t, <2>1
       DEF StoreTexel, cacheVars, BookInv, Typed, TypeOK, Queueing, OneSlot, CountsMatch,
           CachedIsPresent, Held, Hits
<1>11. ASSUME NEW t \in Threads, Draw(t) PROVE BookInv'
  <2>1. /\ pending' \in [Threads -> Seq(Triangles)]
        /\ \A u \in Threads : Len(pending'[u]) <= Len(pending[u])
        /\ owed' \in [Slots -> [Threads -> 0 .. PARAM_SIZE]]
        /\ CountsMatch'
    BY <1>11, DrawCounts
  <2>2. \A u \in Threads : Len(pending'[u]) \in Nat /\ Len(pending[u]) \in Nat
    BY <1>t, <2>1, LenProperties DEF Typed
  <2>3. Typed' BY <1>11, <1>t, <1>a, <2>1, <2>2 DEF Draw, Typed, TypeOK
  <2>4. Queueing' BY <1>11, <1>a, <2>1, <2>2 DEF Draw, BookInv, Queueing
  <2>5. OneSlot' /\ CachedIsPresent'
    BY <1>11 DEF Draw, BookInv, OneSlot, CachedIsPresent, Held, Hits
  <2> QED BY <2>1, <2>3, <2>4, <2>5 DEF BookInv
<1>12. CASE UNCHANGED vars
  BY <1>12, <1>t
     DEF vars, cacheVars, BookInv, Typed, TypeOK, Queueing, OneSlot, CountsMatch,
         CachedIsPresent, Held, Hits
<1> QED
  BY <1>1, <1>2, <1>3, <1>4, <1>5, <1>6, <1>7, <1>8, <1>9, <1>10, <1>11, <1>12
     DEF Next, FifoThread

LEMMA BookInit == Init => BookInv
<1> SUFFICES ASSUME Init PROVE BookInv OBVIOUS
<1>1. << >> \in Seq(Triangles) /\ Len(<< >>) = 0 BY EmptySeq
<1>2. Typed
  BY <1>1, VoodooTextureAssumption DEF Init, Typed, TypeOK, Slots
<1>3. CountsMatch
  <2> SUFFICES ASSUME NEW c \in Slots, NEW t \in Threads
               PROVE  owed[c][t] = Cardinality({i \in 1 .. Len(pending[t]) : pending[t][i].entry = c})
    BY DEF CountsMatch
  <2>1. {i \in 1 .. Len(pending[t]) : pending[t][i].entry = c} = {} BY <1>1 DEF Init
  <2> QED BY <2>1, FS_EmptySet DEF Init
<1>4. Held = {} BY DEF Init, Held
<1> QED BY <1>2, <1>3, <1>4 DEF Init, BookInv, Queueing, OneSlot, CachedIsPresent

LEMMA BookInvariance == Spec => []BookInv
<1>1. BookInv /\ [Next]_vars => BookInv' BY BookStep
<1> QED BY BookInit, <1>1, PTL DEF Spec

(* The reference counts are exact and the marks of a cached texture stay,   *)
(* for every order of queueing, drawing, evicting and writing and any       *)
(* number of render threads: no slot is leaked, none given back twice, and  *)
(* no eviction makes the writes to another cached texture go unnoticed.     *)
THEOREM BookkeepingCorrect == Spec => []CacheConsistent
<1>1. BookInv => CacheConsistent BY DEF BookInv, Typed, CacheConsistent
<1> QED BY BookInvariance, <1>1, PTL

-----------------------------------------------------------------------------
(* The texels.                                                              *)

(* With one or two threads every count is compared before a slot is reused: *)
(* no queued triangle names a slot that is taken.                           *)
LEMMA UnusedIsFree ==
  ASSUME RENDER_THREADS \in {1, 2}, BookInv, NEW c \in Slots, Unused(c), NEW t \in Threads
  PROVE  \A i \in 1 .. Len(pending[t]) : pending[t][i].entry # c
<1>1. t \in ComparedThreads BY DEF Threads, ComparedThreads
<1>2. Cardinality(Places(pending[t], c)) = 0
  BY <1>1 DEF Unused, BookInv, CountsMatch, Places
<1> QED BY <1>2, NoPlaces DEF BookInv, Typed

(* Queueing a triangle whose texels are in its slot. *)
LEMMA QueueTexels ==
  ASSUME BookInv, fifo \in {"use", "search"}, NEW c \in Slots, Queue(c),
         Tracked(tex) => data'[c] = Texels(tex),
         \A t \in Threads : \A i \in 1 .. Len(pending[t]) :
           Tracked(pending[t][i].tex) => data'[pending[t][i].entry] = pending[t][i].want
  PROVE  RightTexture'
<1> DEFINE e == [tex |-> tex, entry |-> c, want |-> Texels(tex)]
<1> SUFFICES ASSUME NEW t \in Threads, NEW i \in 1 .. Len(pending'[t]),
                    Tracked(pending'[t][i].tex)
             PROVE  data'[pending'[t][i].entry] = pending'[t][i].want
  BY DEF RightTexture
<1>1. e \in Triangles BY TexelsType DEF BookInv, Queueing, Triangles
<1>2. e.tex = tex /\ e.entry = c /\ e.want = Texels(tex) OBVIOUS
<1>3. pending'[t] = Append(pending[t], e) BY DEF Queue
<1> HIDE DEF e
<1>4. /\ Len(pending[t]) \in Nat /\ Len(pending'[t]) = Len(pending[t]) + 1
      /\ \A j \in 1 .. Len(pending[t]) : pending'[t][j] = pending[t][j]
      /\ pending'[t][Len(pending[t]) + 1] = e
  BY <1>1, <1>3, AppendProperties, LenProperties DEF BookInv, Typed
<1>5. i \in 1 .. Len(pending[t]) \/ i = Len(pending[t]) + 1 BY <1>4
<1> QED BY <1>2, <1>4, <1>5

LEMMA TexelStep ==
  ASSUME RENDER_THREADS \in {1, 2}, BookInv, TexelInv, [Next]_vars
  PROVE  TexelInv'
<1>t. Typed /\ TypeOK BY DEF BookInv, Typed
<1>1. ASSUME NEW t \in Textures, QueueTriangle(t) PROVE TexelInv'
  BY <1>1 DEF QueueTriangle, cacheVars, TexelInv, Fresh, Evicted, RightTexture, Held, Texels
<1>2. CASE UseCached
  <2>1. Min(Hits) \in Slots /\ base[Min(Hits)] = tex BY <1>2, HitIs DEF UseCached
  <2>2. Queue(Min(Hits)) /\ fifo = "use" /\ data' = data BY <1>2 DEF UseCached
  <2>3. Min(Hits) \in Held
    BY <2>1, <2>2, VoodooTextureAssumption DEF Held, BookInv, Queueing
  <2>4. Tracked(tex) => data'[Min(Hits)] = Texels(tex) BY <2>1, <2>2, <2>3 DEF TexelInv, Fresh
  <2>5. RightTexture' BY <2>1, <2>2, <2>4, QueueTexels DEF TexelInv, RightTexture
  <2> QED BY <1>2, <2>2, <2>5 DEF UseCached, Queue, TexelInv, Fresh, Evicted, Held, Texels
<1>3. CASE NotCached
  BY <1>3 DEF NotCached, cacheVars, TexelInv, Fresh, Evicted, RightTexture, Held, Texels
<1>4. CASE SearchTake
  <2> DEFINE c == NextSlot(last)
  <2>1. c \in Slots BY <1>t, NextSlotType DEF TypeOK
  <2>2. /\ fifo = "search" /\ Queue(c) /\ base' = [base EXCEPT ![c] = tex]
        /\ data' = [data EXCEPT ![c] = Texels(tex)] /\ mem' = mem /\ Unused(c)
    BY <1>4 DEF SearchTake
  <2> HIDE DEF c
  <2>3. data'[c] = Texels(tex) /\ \A d \in Slots \ {c} : data'[d] = data[d]
    BY <1>t, <2>1, <2>2 DEF Typed
  <2>4. \A t \in Threads : \A i \in 1 .. Len(pending[t]) :
          Tracked(pending[t][i].tex) => data'[pending[t][i].entry] = pending[t][i].want
    <3> SUFFICES ASSUME NEW t \in Threads, NEW i \in 1 .. Len(pending[t]),
                        Tracked(pending[t][i].tex)
                 PROVE  data'[pending[t][i].entry] = pending[t][i].want
      OBVIOUS
    <3>1. pending[t][i].entry # c BY <2>1, <2>2, UnusedIsFree
    <3>2. pending[t][i] \in Triangles BY <1>t, ElementOfSeq DEF Typed
    <3> QED BY <2>3, <3>1, <3>2 DEF TexelInv, RightTexture, Triangles
  <2>5. RightTexture' BY <2>1, <2>2, <2>3, <2>4, QueueTexels
  <2>6. Fresh'
    <3> SUFFICES ASSUME NEW d \in Held', Tracked(base'[d]) PROVE data'[d] = Texels(base'[d])
      BY <2>2 DEF Fresh, Texels
    <3>1. CASE d = c
      <4>1. base'[d] = tex BY <1>t, <2>1, <2>2, <3>1 DEF TypeOK
      <4> QED BY <2>3, <3>1, <4>1
    <3>2. CASE d # c
      <4>1. d \in Slots /\ base'[d] = base[d] /\ d \in Held
        BY <1>t, <2>1, <2>2, <3>2 DEF TypeOK, Held
      <4> QED BY <2>3, <3>2, <4>1 DEF TexelInv, Fresh
    <3> QED BY <3>1, <3>2
  <2> QED BY <2>2, <2>5, <2>6 DEF TexelInv, Evicted, Queue
<1>5. CASE SearchOn
  BY <1>5 DEF SearchOn, TexelInv, Fresh, Evicted, RightTexture, Held, Texels
<1>6. CASE SearchFailed
  BY <1>6 DEF SearchFailed, cacheVars, TexelInv, Fresh, Evicted, RightTexture, Held, Texels
<1>7. CASE SearchAgain
  BY <1>7 DEF SearchAgain, cacheVars, TexelInv, Fresh, Evicted, RightTexture, Held, Texels
<1>8. ASSUME NEW p \in Pages, TexWrite(p) PROVE TexelInv'
  <2>1. /\ page' = p /\ data' = data /\ mem' = mem /\ pending' = pending
        /\ \/ base' = [c \in Slots |-> IF c \in Over(p) THEN NoTexture ELSE base[c]]
           \/ base' = base /\ p \notin present
    BY <1>8 DEF TexWrite
  <2>2. \A c \in Held' : c \in Held /\ base'[c] = base[c] BY <2>1 DEF Held
  <2>3. ASSUME NEW c \in Held', Tracked(base'[c]) PROVE p \notin CoveredPages(base'[c])
    <3>1. CoveredPages(base[c]) \subseteq MarkedPages(base[c]) \cap EvictingPages(base[c])
      BY <2>2, <2>3 DEF Tracked
    <3>2. CASE base' = [d \in Slots |-> IF d \in Over(p) THEN NoTexture ELSE base[d]]
      <4>1. c \notin Over(p) BY <3>2 DEF Held
      <4> QED BY <2>2, <3>1, <4>1 DEF Over
    <3>3. CASE base' = base /\ p \notin present
      BY <2>2, <3>1, <3>3 DEF BookInv, CachedIsPresent
    <3> QED BY <2>1, <3>2, <3>3
  <2>4. Fresh' BY <2>1, <2>2 DEF TexelInv, Fresh, Texels
  <2>5. Evicted' BY <2>1, <2>3 DEF Evicted
  <2> QED BY <2>1, <2>4, <2>5 DEF TexelInv, RightTexture
<1>9. CASE FlushIdle
  BY <1>9 DEF FlushIdle, cacheVars, TexelInv, Fresh, Evicted, RightTexture, Over, Held, Texels
<1>10. CASE StoreTexel
  <2>1. \A c \in Held : Tracked(base[c]) => page \notin CoveredPages(base[c])
    BY <1>10 DEF StoreTexel, TexelInv, Evicted
  <2>2. \A c \in Held : base[c] \in Textures /\ CoveredPages(base[c]) \subseteq Pages
    BY <1>t, PagesType DEF TypeOK, Held
  <2>3. base' = base /\ data' = data /\ Held' = Held BY <1>10 DEF StoreTexel, cacheVars, Held
  <2>4. Fresh'
    <3> SUFFICES ASSUME NEW c \in Held, Tracked(base[c])
                 PROVE  data[c] = [q \in CoveredPages(base[c]) |-> mem'[q]]
      BY <2>3 DEF Fresh, Texels
    <3>1. \A q \in CoveredPages(base[c]) : mem'[q] = mem[q]
      BY <1>10, <1>t, <2>1, <2>2 DEF StoreTexel, TypeOK
    <3> QED BY <3>1 DEF TexelInv, Fresh, Texels
  <2> QED BY <1>10, <2>4 DEF StoreTexel, cacheVars, TexelInv, Evicted, RightTexture
<1>11. ASSUME NEW t \in Threads, Draw(t) PROVE TexelInv'
  <2>1. RightTexture'
    <3> SUFFICES ASSUME NEW u \in Threads, NEW i \in 1 .. Len(pending'[u]),
                        Tracked(pending'[u][i].tex)
                 PROVE  data'[pending'[u][i].entry] = pending'[u][i].want
      BY DEF RightTexture
    <3>1. data' = data /\ pending[t] # << >> /\ pending' = [pending EXCEPT ![t] = Tail(pending[t])]
      BY <1>11 DEF Draw
    <3>2. CASE u # t BY <1>t, <3>1, <3>2 DEF Typed, TexelInv, RightTexture
    <3>3. CASE u = t
      <4>1. pending'[t] = Tail(pending[t]) /\ pending[t] \in Seq(Triangles) BY <1>t, <3>1 DEF Typed
      <4>2. Len(pending[t]) \in Nat /\ Len(pending'[t]) = Len(pending[t]) - 1
            /\ pending'[t][i] = pending[t][i + 1]
        BY <3>1, <3>3, <4>1, HeadTailProperties, LenProperties, ZenonT(60)
      <4>3. i + 1 \in 1 .. Len(pending[t]) BY <3>3, <4>2
      <4> QED BY <3>1, <3>3, <4>2, <4>3 DEF TexelInv, RightTexture
    <3> QED BY <3>2, <3>3
  <2> QED BY <1>11, <2>1 DEF Draw, TexelInv, Fresh, Evicted, Over, Held, Texels
<1>12. CASE UNCHANGED vars
  BY <1>12 DEF vars, cacheVars, TexelInv, Fresh, Evicted, RightTexture, Over, Held, Texels
<1> QED
  BY <1>1, <1>2, <1>3, <1>4, <1>5, <1>6, <1>7, <1>8, <1>9, <1>10, <1>11, <1>12
     DEF Next, FifoThread

LEMMA TexelInit == Init => TexelInv
<1> SUFFICES ASSUME Init PROVE TexelInv OBVIOUS
<1>1. Held = {} BY DEF Init, Held
<1>2. \A t \in Threads : Len(pending[t]) = 0 BY DEF Init
<1> QED BY <1>1, <1>2 DEF Init, TexelInv, Fresh, Evicted, RightTexture

(* With one or two render threads every triangle of a tracked texture is    *)
(* drawn with the texels that texture memory held when it was queued,       *)
(* whatever other textures the cache holds.  (With four threads it is not:  *)
(* only the counts of two are compared.)                                    *)
THEOREM TextureCorrect ==
  ASSUME RENDER_THREADS \in {1, 2}
  PROVE  Spec => []RightTexture
<1>1. BookInv /\ TexelInv /\ [Next]_vars => TexelInv' BY TexelStep
<1>2. TexelInv => RightTexture BY DEF TexelInv
<1> QED BY BookInvariance, TexelInit, <1>1, <1>2, PTL DEF Spec
=============================================================================
