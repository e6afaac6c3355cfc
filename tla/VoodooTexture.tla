---------------------------- MODULE VoodooTexture ----------------------------
(***************************************************************************)
(* The texture cache of a Voodoo card (video/vid_voodoo_texture.c).        *)
(*                                                                         *)
(* The FIFO thread gives every triangle a slot of the cache that holds its *)
(* texture, decoding it from texture memory when no slot does; the render  *)
(* threads draw later, each at its own pace, from whatever the slot holds  *)
(* by then.  A slot may be reused once its reference count equals the      *)
(* count of every thread that drew with it.  A write to texture memory     *)
(* evicts the slots that show the written page, if the page is marked.     *)
(*                                                                         *)
(* A texture lies in up to four address ranges, not aligned to pages.  The *)
(* pages it covers, those that are marked and those whose writing evicts   *)
(* it are computed from the ranges in three different ways, and need not   *)
(* be the same: a texture whose pages are all marked and all evict it is   *)
(* Tracked.                                                                *)
(*                                                                         *)
(* VoodooRender shows that the ring hands every triangle to every thread   *)
(* in order and when an idle wait may return; here a thread's part of the  *)
(* ring is the sequence of triangles it has yet to draw, and an idle wait  *)
(* a step that is enabled when all are empty.  One texture unit is         *)
(* modelled: the second keeps a cache of its own in the same way.  The     *)
(* counts of a slot are only compared for equality, so owed[t] keeps       *)
(* refcount - refcount_r[t].                                               *)
(***************************************************************************)
EXTENDS Naturals, Sequences, FiniteSetsExt

CONSTANTS
  RENDER_THREADS,  \* render_threads
  PARAM_SIZE,      \* slots of the triangle ring
  TEX_CACHE_MAX,   \* slots of the texture cache
  Textures,        \* base address, levels of detail and palette of a texture
  TEX_PAGE,        \* 1 << TEX_DIRTY_SHIFT: bytes of a page
  TEX_PAGES,       \* (texture_mask + 1) >> TEX_DIRTY_SHIFT: pages of texture memory
  Ranges           \* the ranges addr_start .. addr_end - 1 of a texture

Threads == 0 .. RENDER_THREADS - 1
Slots == 0 .. TEX_CACHE_MAX - 1
Pages == 0 .. TEX_PAGES - 1
NoTexture == "none"        \* base = -1

ASSUME VoodooTextureAssumption ==
  /\ RENDER_THREADS \in {1, 2, 4}
  /\ PARAM_SIZE \in Nat \ {0}
  /\ TEX_CACHE_MAX \in Nat \ {0}
  /\ NoTexture \notin Textures
  /\ TEX_PAGE \in Nat \ {0} /\ TEX_PAGES \in Nat \ {0}
  /\ Ranges \in [Textures -> SUBSET [start : Nat, end : Nat]]

VARIABLES
  base,       \* texture_cache[].base with tLOD and palette_checksum
  data,       \* texture_cache[].data: the texels decoded into each slot
  owed,       \* owed[c][t] = texture_cache[c].refcount - refcount_r[t]
  present,    \* texture_present: pages some cached texture may lie in
  last,       \* texture_last_removed
  mem,        \* tex_mem: what each page holds
  pending,    \* the triangles each render thread has yet to draw
  fifo,       \* where the FIFO thread is
  tex,        \* the texture of the triangle being queued
  seen,       \* slots looked at in this round of the search
  page        \* the page being written

cacheVars == <<base, data, owed, present, last>>
vars == <<cacheVars, mem, pending, fifo, tex, seen, page>>

(* Addresses wrap around at the end of texture memory. *)
PageOf(a) == (a \div TEX_PAGE) % TEX_PAGES

(* The pages that texels are read from. *)
Covers(r) == {PageOf(a) : a \in r.start .. r.end - 1}

(* The marks step by a page from the start of the range up to its end: with *)
(* an unaligned start the last page may be missed, and a page marked that   *)
(* begins where the range ends.                                             *)
Marks(r) == {PageOf(a) : a \in {x \in r.start .. r.end : (x - r.start) % TEX_PAGE = 0}}

(* The pages whose writing evicts: from the page of the start up to the end *)
(* rounded up, or the end of texture memory when the range wraps around.    *)
Evicts(r) ==
  LET first == PageOf(r.start)
      stop == ((r.end % (TEX_PAGE * TEX_PAGES)) + TEX_PAGE - 1) \div TEX_PAGE
  IN  {p \in Pages : first <= p /\ (stop < first \/ p < stop)}

CoveredPages(t) == UNION {Covers(r) : r \in Ranges[t]}
MarkedPages(t) == UNION {Marks(r) : r \in Ranges[t]}
EvictingPages(t) == UNION {Evicts(r) : r \in Ranges[t]}
Tracked(t) == CoveredPages(t) \subseteq MarkedPages(t) \cap EvictingPages(t)

(* What a texture shows: the contents of its pages. *)
Texels(t) == [p \in CoveredPages(t) |-> mem[p]]
Blank == [p \in {} |-> 0]

Init ==
  /\ base = [c \in Slots |-> NoTexture]
  /\ data = [c \in Slots |-> Blank]
  /\ owed = [c \in Slots |-> [t \in Threads |-> 0]]
  /\ present = {} /\ last = 0
  /\ mem = [p \in Pages |-> 0]
  /\ pending = [t \in Threads |-> << >>]
  /\ fifo = "idle" /\ tex = NoTexture /\ seen = 0 /\ page \in Pages

TypeOK ==
  /\ base \in [Slots -> Textures \cup {NoTexture}]
  /\ owed \in [Slots -> [Threads -> 0 .. PARAM_SIZE]]
  /\ present \subseteq Pages /\ last \in Slots /\ mem \in [Pages -> 0 .. 1]
  /\ \A t \in Threads : Len(pending[t]) <= PARAM_SIZE
  /\ fifo \in {"idle", "use", "search", "drain", "flush", "write"}
  /\ tex \in Textures \cup {NoTexture} /\ page \in Pages
  /\ seen \in 0 .. TEX_CACHE_MAX

-----------------------------------------------------------------------------
(* voodoo_queue_triangle waits for room in the ring first.                  *)
QueueTriangle(t) ==
  /\ fifo = "idle"
  /\ \A u \in Threads : Len(pending[u]) < PARAM_SIZE
  /\ tex' = t
  /\ fifo' = "use"
  /\ UNCHANGED <<cacheVars, mem, pending, seen, page>>

Owe(c) == [owed EXCEPT ![c] = [t \in Threads |-> @[t] + 1]]

(* The triangle goes to every thread with its slot; want is what the guest  *)
(* means it to be drawn with.                                               *)
Queue(c) ==
  /\ owed' = Owe(c)
  /\ pending' = [t \in Threads |-> Append(pending[t],
                                       [tex |-> tex, entry |-> c, want |-> Texels(tex)])]
  /\ fifo' = "idle" /\ tex' = NoTexture /\ seen' = 0

(* voodoo_use_texture: a slot that holds the texture is used again ...      *)
Hits == {c \in Slots : base[c] = tex}

UseCached ==
  /\ fifo = "use"
  /\ Hits # {}
  /\ Queue(Min(Hits))
  /\ UNCHANGED <<base, data, present, last, mem, page>>

NotCached ==
  /\ fifo = "use"
  /\ Hits = {}
  /\ fifo' = "search"
  /\ UNCHANGED <<cacheVars, mem, pending, tex, seen, page>>

(* A plausible slip: the count of the first thread speaks for all. *)
FirstThreadOnly == {0}
(* The threads whose count is compared: the first and, if there is more     *)
(* than one, the second.                                                    *)
ComparedThreads == {t \in {0, 1} : t < RENDER_THREADS}

(* ... else the slots are searched for one nobody draws with any more, from *)
(* the one after the last one reused.  The threads draw on while the search *)
(* goes from slot to slot.                                                  *)
Unused(c) == \A t \in ComparedThreads : owed[c][t] = 0

NextSlot(c) == (c + 1) % TEX_CACHE_MAX

SearchTake ==
  /\ fifo = "search"
  /\ seen < TEX_CACHE_MAX
  /\ Unused(NextSlot(last))
  /\ LET c == NextSlot(last)
     IN  /\ last' = c
         /\ base' = [base EXCEPT ![c] = tex]
         /\ data' = [data EXCEPT ![c] = Texels(tex)]
         /\ present' = present \cup MarkedPages(tex)
         /\ Queue(c)
  /\ UNCHANGED <<mem, page>>

SearchOn ==
  /\ fifo = "search"
  /\ seen < TEX_CACHE_MAX
  /\ ~Unused(NextSlot(last))
  /\ last' = NextSlot(last)
  /\ seen' = seen + 1
  /\ UNCHANGED <<base, data, owed, present, mem, pending, fifo, tex, page>>

(* When a round found no slot, the render threads are waited for.           *)
SearchFailed ==
  /\ fifo = "search"
  /\ seen = TEX_CACHE_MAX
  /\ fifo' = "drain"
  /\ UNCHANGED <<cacheVars, mem, pending, tex, seen, page>>

AllIdle == \A t \in Threads : pending[t] = << >>

SearchAgain ==
  /\ fifo = "drain"
  /\ AllIdle
  /\ fifo' = "search" /\ seen' = 0
  /\ UNCHANGED <<cacheVars, mem, pending, tex, page>>

-----------------------------------------------------------------------------
(* voodoo_tex_writel: a write to a page that may be cached goes through     *)
(* flush_texture_cache, which forgets all marks, evicts the slots with a    *)
(* range over the page and marks the other ranges anew.                     *)

Held == {c \in Slots : base[c] # NoTexture}
Over(p) == {c \in Held : p \in EvictingPages(base[c])}

(* A plausible slip: the ranges of the slots that stay are not marked again. *)
NothingStays(p) == {}
StillPresent(p) ==
  UNION {Marks(r) : r \in {q \in UNION {Ranges[base[c]] : c \in Held} : p \notin Evicts(q)}}

(* With four threads only the first is asked here. *)
FlushCompared == IF RENDER_THREADS = 2 THEN {0, 1} ELSE {0}
InUse(c) == \E t \in FlushCompared : owed[c][t] # 0

TexWrite(p) ==
  /\ fifo = "idle"
  /\ page' = p
  /\ IF p \in present
     THEN /\ base' = [c \in Slots |-> IF c \in Over(p) THEN NoTexture ELSE base[c]]
          /\ present' = StillPresent(p)
          /\ fifo' = IF \E c \in Over(p) : InUse(c) THEN "flush" ELSE "write"
     ELSE fifo' = "write" /\ UNCHANGED <<base, present>>
  /\ UNCHANGED <<data, owed, last, mem, pending, tex, seen>>

FlushIdle ==
  /\ fifo = "flush"
  /\ AllIdle
  /\ fifo' = "write"
  /\ UNCHANGED <<cacheVars, mem, pending, tex, seen, page>>

StoreTexel ==
  /\ fifo = "write"
  /\ mem' = [mem EXCEPT ![page] = 1 - @]
  /\ fifo' = "idle"
  /\ UNCHANGED <<cacheVars, pending, tex, seen, page>>

-----------------------------------------------------------------------------
(* A plausible slip: only the first thread gives a texture back. *)
GiveBackFirst(c, t) == IF t = 0 THEN [owed EXCEPT ![c][t] = @ - 1] ELSE owed
GiveBack(c, t) == [owed EXCEPT ![c][t] = @ - 1]

(* voodoo_triangle draws with what the slot holds and counts the texture as *)
(* drawn.                                                                   *)
Draw(t) ==
  /\ pending[t] # << >>
  /\ owed' = GiveBack(Head(pending[t]).entry, t)
  /\ pending' = [pending EXCEPT ![t] = Tail(@)]
  /\ UNCHANGED <<base, data, present, last, mem, fifo, tex, seen, page>>

FifoThread ==
  \/ \E t \in Textures : QueueTriangle(t)
  \/ UseCached \/ NotCached \/ SearchTake \/ SearchOn \/ SearchFailed \/ SearchAgain
  \/ \E p \in Pages : TexWrite(p)
  \/ FlushIdle \/ StoreTexel

Next == FifoThread \/ \E t \in Threads : Draw(t)

(* The host schedules every thread; a command begun is carried on.          *)
CarryOn == fifo # "idle" /\ FifoThread
Spec ==
  Init /\ [][Next]_vars /\ WF_vars(CarryOn) /\ \A t \in Threads : WF_vars(Draw(t))

-----------------------------------------------------------------------------
(* Every render thread draws every triangle of a tracked texture with the   *)
(* texels the guest had put in texture memory when it queued the triangle:  *)
(* the slot is not given to another texture while a thread still needs it,  *)
(* and a texture that was written to is not found in the cache again,       *)
(* whatever textures with missed pages are cached beside it.                *)
RightTexture ==
  \A t \in Threads : \A i \in 1 .. Len(pending[t]) :
    Tracked(pending[t][i].tex) => data[pending[t][i].entry] = pending[t][i].want

(* What RightTexture rests on.                                              *)

(* A reference count is exactly the number of queued triangles that name    *)
(* the slot: none is leaked (the slot would never be reused, and the search *)
(* would wait for ever) and none is given back twice.                       *)
CountsMatch ==
  \A c \in Slots : \A t \in Threads :
    owed[c][t] = Cardinality({i \in 1 .. Len(pending[t]) : pending[t][i].entry = c})

(* The marks made when a texture was cached are there as long as it is,     *)
(* although every eviction of another one forgets all marks: the next write *)
(* to a marked page is looked into.                                         *)
CachedIsPresent == \A c \in Held : MarkedPages(base[c]) \subseteq present

(* The bookkeeping of the cache: the counts are exact and no mark is lost,  *)
(* whatever the order of drawing, evicting and writing.                     *)
CacheConsistent == TypeOK /\ CountsMatch /\ CachedIsPresent

(* A triangle always gets a slot in the end, however many textures are in   *)
(* use.                                                                     *)
SearchEnds == fifo = "use" ~> fifo = "idle"
=============================================================================
