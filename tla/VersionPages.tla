---------------------------- MODULE VersionPages ----------------------------
(***************************************************************************)
(* Where versions live: the packing of version records into shared pages   *)
(* (persist_commit), the reads that go through an index generation to such *)
(* a page (read_index_version and its record cache), the reference counts  *)
(* that return pages to the allocator (reclaim_covered, release_pages),    *)
(* and what MvccDatabase::open rebuilds from the pages after a crash.      *)
(*                                                                         *)
(* Mvcc studies transactions over versions that have no place.  Here the   *)
(* places are the subject and a transaction is reduced to its commit: a    *)
(* writer's begin and prepare_commit are adjacent, so its snapshot is the  *)
(* watermark, and a reader is a registered snapshot that gets keys.        *)
(*                                                                         *)
(* Abstractions.  A record's value is its timestamp and every record takes *)
(* one slot of a page.  The index is one leaf, written with the manifest   *)
(* in one batch; its page comes from the same pool and is never freed, so  *)
(* a manifest carries the mapping its leaf encodes.  Larger trees are the  *)
(* subject of BPlusTree.  The store below is the one DurableStore          *)
(* promises: a commit is durable together with all that was logged before  *)
(* it, and a crash keeps some prefix of what was logged after it.          *)
(***************************************************************************)
EXTENDS Integers, Sequences, FiniteSets, FiniteSetsExt

CONSTANTS
  Keys,
  Writers,        \* commits; each happens at most once
  Readers,
  Builders,       \* threads that call rebuild_index
  SlotsPerPage,   \* how many records fit a page
  MaxPages,
  Loads           \* name -> what a behaviour is about; one is chosen

\* A load: the sequence of keys each writer writes (the keys of a BTreeMap, so
\* each once), the writers that write tombstones, the keys that are read,
\* whether record_cache_bytes leaves room for a page, and a bound on crashes.
ASSUME LoadsAssumption ==
  \A name \in DOMAIN Loads :
    /\ Loads[name].writes \in [Writers -> Seq(Keys)]
    /\ \A w \in Writers : IsInjective(Loads[name].writes[w])
    /\ Loads[name].deletes \subseteq Writers
    /\ Loads[name].reads \subseteq Keys /\ Loads[name].cache \in BOOLEAN
    /\ Loads[name].max_crashes \in Nat
ASSUME WritersAssumption == IsFiniteSet(Writers)
ASSUME BoundsAssumption == SlotsPerPage \in Nat \ {0} /\ MaxPages \in Nat \ {0}

Pages == 0 .. MaxPages - 1
Slots == 1 .. SlotsPerPage
Times == 0 .. Cardinality(Writers)

Record == [key : Keys, timestamp : Times, live : BOOLEAN]
Version == [key : Keys, timestamp : Times, live : BOOLEAN, page : Pages]
Generation == [timestamp : Times, manifest : Pages, root : SUBSET Pages,
               entries : [Keys -> SUBSET Pages]]

VARIABLES
  load,             \* the name of the load, never changed
  log,              \* page contents: durable first, then one per relaxed batch
  free_pages,       \* PageAllocator
  next_page_id,
  open_page,        \* {} or {[page, slot]}: where the next record goes
  versions,         \* State: key -> set of versions with their page
  page_refs,
  intents,          \* keys claimed by commits in flight
  generations,
  dirty_keys,
  next_commit_timestamp,
  visible_through,
  completed_timestamps,
  record_cache,     \* page -> {} or {what a decode of it returned}
  writer,           \* each writer's pc, timestamp and places
  reader,           \* each reader's pc, snapshot and the get in progress
  builder,          \* each rebuild_index call
  crashes,
  committed         \* history: every version a commit has made visible

stateVars == <<versions, page_refs, intents, generations, dirty_keys,
               next_commit_timestamp, visible_through, completed_timestamps>>
storeVars == <<log, free_pages, next_page_id>>
vars == <<storeVars, stateVars, open_page, record_cache, writer, reader,
          builder, crashes, load, committed>>

WritesOf == Loads[load].writes
Deletes == Loads[load].deletes
CacheOn == Loads[load].cache
MaxCrashes == Loads[load].max_crashes

(***************************************************************************)
(* Pages.                                                                  *)
(***************************************************************************)
\* A page that was never written, and one that was emptied.
Absent == [exists |-> FALSE, slots |-> [i \in Slots |-> {}], manifest |-> {},
           node |-> FALSE]
Blank == [Absent EXCEPT !.exists = TRUE]

Current == log[Len(log)]

\* VersionRecord::decode_page walks the page until the bytes stop looking
\* like a record.
DecodePage(page) ==
  UNION {page.slots[i] : i \in {j \in Slots :
                                  \A h \in 1 .. j : page.slots[h] # {}}}

\* PageAllocator::reserve(1): the smallest free page, else a fresh one.
Reserve(alloc) ==
  IF alloc.free # {}
  THEN [page |-> Min(alloc.free),
        alloc |-> [alloc EXCEPT !.free = @ \ {Min(alloc.free)}]]
  ELSE [page |-> alloc.next, alloc |-> [alloc EXCEPT !.next = @ + 1]]

Allocator == [free |-> free_pages, next |-> next_page_id]

(***************************************************************************)
(* Lookups under the state lock.                                           *)
(***************************************************************************)
NewestAt(S, s) ==
  {v \in S : /\ v.timestamp <= s
             /\ \A u \in S : u.timestamp <= s => u.timestamp <= v.timestamp}

\* The ring is ordered by timestamp, then manifest page.
After(g, h) ==
  \/ g.timestamp > h.timestamp
  \/ g.timestamp = h.timestamp /\ g.manifest >= h.manifest

GenerationAt(gens, s) ==
  {g \in gens : /\ g.timestamp <= s
                /\ \A h \in gens : h.timestamp <= s => After(g, h)}

\* Mutant: a commit gives its snapshot up when it starts to persist.
ReadingSnapshots == {reader[r].snapshot : r \in {q \in Readers : reader[q].pc # "idle"}}

\* State.active: readers from begin to rollback, writers from begin to the
\* end_transaction that follows finish_prepared.
ActiveSnapshots ==
  {reader[r].snapshot : r \in {q \in Readers : reader[q].pc # "idle"}}
    \cup {writer[w].snapshot : w \in {q \in Writers : writer[q].pc \notin {"idle", "done"}}}

\* The answer to a read is {} or the timestamp of a live record.
Answer(S) == {v.timestamp : v \in {u \in S : u.live}}

\* What read_index_version reports when the page holds no record it can use.
Corrupt == {-1}

(***************************************************************************)
(* Commits.                                                                *)
(***************************************************************************)
IdleWriter == [pc |-> "idle", timestamp |-> 0, snapshot |-> 0, places |-> <<>>]
IdleReader == [pc |-> "idle", snapshot |-> 0, key |-> {}, page |-> {},
               held |-> {}, answer |-> {}]
IdleBuilder == [pc |-> "idle", generation |-> {}, edited |-> FALSE, freed |-> {}]

Init ==
  /\ load \in DOMAIN Loads
  /\ log = << [p \in Pages |-> Absent] >>
  /\ free_pages = {}
  /\ next_page_id = 0
  /\ open_page = {}
  /\ versions = [k \in Keys |-> {}]
  /\ page_refs = [p \in Pages |-> 0]
  /\ intents = {}
  /\ generations = {}
  /\ dirty_keys = {}
  /\ next_commit_timestamp = 1
  /\ visible_through = 0
  /\ completed_timestamps = {}
  /\ record_cache = [p \in Pages |-> {}]
  /\ writer = [w \in Writers |-> IdleWriter]
  /\ reader = [r \in Readers |-> IdleReader]
  /\ builder = [b \in Builders |-> IdleBuilder]
  /\ crashes = 0
  /\ committed = {}

\* begin and prepare_commit: there is something to write, no other commit
\* claims the keys and none has a version above the snapshot.
PrepareCommit(w) ==
  /\ writer[w].pc = "idle" /\ WritesOf[w] # <<>>
  /\ \A k \in Range(WritesOf[w]) :
       /\ k \notin intents
       /\ \A v \in versions[k] : v.timestamp <= visible_through
  /\ writer' = [writer EXCEPT ![w] = [pc |-> "prepared", places |-> <<>>,
                                      timestamp |-> next_commit_timestamp,
                                      snapshot |-> visible_through]]
  /\ next_commit_timestamp' = next_commit_timestamp + 1
  /\ intents' = intents \cup Range(WritesOf[w])
  /\ UNCHANGED <<storeVars, versions, page_refs, generations, dirty_keys,
                 visible_through, completed_timestamps, open_page,
                 record_cache, reader, builder, crashes, load, committed>>

\* Mutant: a full page takes one record more.
FitsPastEnd(o) == o.slot <= SlotsPerPage + 1

\* persist_commit's `rolls_over` is false: the record goes to the open page.
Fits(o) == o.slot <= SlotsPerPage

\* A writer enters the loop with the open-page lock and holds it to the end.
OpenPageLocked == \E w \in Writers : writer[w].pc = "placing"
InLoop(w) == \/ writer[w].pc = "prepared" /\ ~OpenPageLocked
             \/ writer[w].pc = "placing"

\* One turn of the loop: the next record gets its place.
TakeSlot(w, at) ==
  /\ open_page' = {[at EXCEPT !.slot = @ + 1]}
  /\ writer' = [writer EXCEPT
       ![w].places = Append(@, at),
       ![w].pc = IF Len(writer[w].places) + 1 = Len(WritesOf[w]) THEN "placed" ELSE "placing"]
  /\ UNCHANGED <<stateVars, record_cache, reader, builder, crashes, load, committed>>

PlaceRecord(w) ==
  /\ InLoop(w)
  /\ \E o \in open_page : Fits(o) /\ TakeSlot(w, o)
  /\ UNCHANGED storeVars

\* The log after a relaxed write of one page.
Relaxed(l, page, content) == Append(l, [l[Len(l)] EXCEPT ![page] = content])

\* The record does not fit: a page is reserved and blanked for it.  The append
\* that seals the page left behind adds no record to it.
RollOver(w) ==
  LET taken == Reserve(Allocator)
  IN  /\ InLoop(w)
      /\ \A o \in open_page : ~Fits(o)
      /\ taken.alloc.next <= MaxPages
      /\ free_pages' = taken.alloc.free
      /\ next_page_id' = taken.alloc.next
      /\ log' = Relaxed(log, taken.page, Blank)
      /\ TakeSlot(w, [page |-> taken.page, slot |-> 1])

RecordOf(w, i) == [key |-> WritesOf[w][i], timestamp |-> writer[w].timestamp,
                   live |-> w \notin Deletes]

\* The version a record on a page stands for.
At(page, record) == [key |-> record.key, timestamp |-> record.timestamp,
                     live |-> record.live, page |-> page]

Versions(w) == {At(writer[w].places[i].page, RecordOf(w, i)) : i \in DOMAIN WritesOf[w]}

PlacesOf(w) == {pl.page : pl \in Range(writer[w].places)}

\* The lock is released; the append is one durable batch.  Without a cache
\* there is no decode to drop.
AppendRecords(w) ==
  /\ writer[w].pc = "placed"
  /\ log' = << [p \in Pages |->
       IF p \notin PlacesOf(w) THEN Current[p]
       ELSE [Current[p] EXCEPT
               !.exists = TRUE,
               !.slots = [s \in Slots |->
                 LET here == {i \in DOMAIN writer[w].places :
                                writer[w].places[i] = [page |-> p, slot |-> s]}
                 IN  IF here = {} THEN Current[p].slots[s]
                     ELSE {RecordOf(w, i) : i \in here}]]] >>
  /\ writer' = [writer EXCEPT ![w].pc = IF CacheOn THEN "appended" ELSE "persisted"]
  /\ UNCHANGED <<stateVars, free_pages, next_page_id, open_page, record_cache,
                 reader, builder, crashes, load, committed>>

\* Any decode of the changed pages is dropped from the cache.
DropDecodes(w) ==
  /\ writer[w].pc = "appended"
  /\ record_cache' = [p \in Pages |-> IF p \in PlacesOf(w) THEN {} ELSE record_cache[p]]
  /\ writer' = [writer EXCEPT ![w].pc = "persisted"]
  /\ UNCHANGED <<storeVars, stateVars, open_page, reader, builder, crashes, load,
                 committed>>

\* finish_prepared: versions with their pages, one reference per version,
\* and the watermark over consecutive completed timestamps.
FinishPrepared(w) ==
  LET ts   == writer[w].timestamp
      done == completed_timestamps \cup {ts}
  IN  \E upto \in visible_through .. next_commit_timestamp - 1 :
      /\ writer[w].pc = "persisted"
      /\ (visible_through + 1) .. upto \subseteq done
      /\ upto + 1 \notin done
      /\ writer' = [writer EXCEPT ![w].pc = "finished"]
      /\ intents' = intents \ Range(WritesOf[w])
      /\ versions' = [k \in Keys |-> versions[k] \cup {v \in Versions(w) : v.key = k}]
      /\ page_refs' = [p \in Pages |-> page_refs[p] +
           Cardinality({v \in Versions(w) : v.page = p})]
      /\ dirty_keys' = dirty_keys \cup Range(WritesOf[w])
      /\ visible_through' = upto
      /\ completed_timestamps' = {n \in done : n > upto}
      /\ committed' = committed \cup Versions(w)
      /\ UNCHANGED <<storeVars, generations, next_commit_timestamp, open_page,
                     record_cache, reader, builder, crashes, load>>

EndTransaction(w) ==
  /\ writer[w].pc = "finished"
  /\ writer' = [writer EXCEPT ![w] = [IdleWriter EXCEPT !.pc = "done"]]
  /\ UNCHANGED <<storeVars, stateVars, open_page, record_cache, reader,
                 builder, crashes, load, committed>>

(***************************************************************************)
(* Reads.                                                                  *)
(***************************************************************************)
ReadOnly == UNCHANGED <<storeVars, stateVars, open_page, writer, builder,
                        crashes, load, committed>>

BeginRead(r) ==
  /\ reader[r].pc = "idle"
  /\ reader' = [reader EXCEPT ![r] = [IdleReader EXCEPT
                  !.pc = "active", !.snapshot = visible_through]]
  /\ ReadOnly /\ UNCHANGED record_cache

Answered(r, k, answer) ==
  reader' = [reader EXCEPT ![r] = [IdleReader EXCEPT
               !.pc = "answered", !.snapshot = reader[r].snapshot,
               !.key = {k}, !.answer = answer]]

\* Inner::read under the state lock, and the walk of the generation's tree:
\* its nodes never change.
Get(r, k) ==
  LET s      == reader[r].snapshot
      mapped == NewestAt(versions[k], s)
      pages  == UNION {g.entries[k] : g \in GenerationAt(generations, s)}
  IN  /\ reader[r].pc \in {"active", "answered"}
      /\ IF mapped # {} \/ pages = {}
         THEN Answered(r, k, Answer(mapped))
         ELSE reader' = [reader EXCEPT ![r] = [@ EXCEPT
                !.pc = IF CacheOn THEN "indexed" ELSE "missed",
                !.key = {k}, !.page = pages, !.answer = {}]]
      /\ ReadOnly /\ UNCHANGED record_cache

\* The newest record of the key the snapshot can see, among those decoded.
Visible(r, records) ==
  LET mine == NewestAt({c \in records : c.key \in reader[r].key},
                       reader[r].snapshot)
  IN  IF mine = {} THEN Corrupt ELSE Answer(mine)

KeyRead(r) == CHOOSE k \in Keys : k \in reader[r].key
PageRead(r) == CHOOSE p \in Pages : p \in reader[r].page

\* record_cache.get: a hit answers.
CacheHit(r) ==
  /\ reader[r].pc = "indexed"
  /\ record_cache[PageRead(r)] # {}
  /\ Answered(r, KeyRead(r), Visible(r, UNION record_cache[PageRead(r)]))
  /\ ReadOnly /\ UNCHANGED record_cache

CacheMiss(r) ==
  /\ reader[r].pc = "indexed"
  /\ record_cache[PageRead(r)] = {}
  /\ reader' = [reader EXCEPT ![r].pc = "missed"]
  /\ ReadOnly /\ UNCHANGED record_cache

\* storage.read_page and decode_page.  An absent or recordless page is an
\* error and is not cached; without a cache the decode answers at once.
ReadPage(r) ==
  LET decoded == DecodePage(Current[PageRead(r)])
  IN  /\ reader[r].pc = "missed"
      /\ IF decoded = {} \/ ~CacheOn
         THEN Answered(r, KeyRead(r), Visible(r, decoded))
         ELSE reader' = [reader EXCEPT ![r].pc = "decoded", ![r].held = decoded]
      /\ ReadOnly /\ UNCHANGED record_cache

\* record_cache.insert.
CacheFill(r) ==
  /\ reader[r].pc = "decoded"
  /\ record_cache' = [record_cache EXCEPT ![PageRead(r)] = {reader[r].held}]
  /\ Answered(r, KeyRead(r), Visible(r, reader[r].held))
  /\ ReadOnly

EndRead(r) ==
  /\ reader[r].pc \in {"active", "answered"}
  /\ reader' = [reader EXCEPT ![r] = IdleReader]
  /\ ReadOnly /\ UNCHANGED record_cache

(***************************************************************************)
(* Index generations and page reclamation.                                 *)
(***************************************************************************)
Latest == {g \in generations : \A h \in generations : After(g, h)}

\* The dirty keys that changed since the latest generation.
Mutated(k) ==
  /\ k \in dirty_keys
  /\ \E n \in NewestAt(versions[k], visible_through), g \in Latest :
       n.timestamp > g.timestamp

\* The page a live newest version is on.
PageOf(k) == {v.page : v \in {u \in NewestAt(versions[k], visible_through) : u.live}}

BaseEntries(k) == UNION {g.entries[k] : g \in Latest}

\* rebuild_index, first critical section: the latest generation edited by the
\* keys that changed since, or everything when there is none.  A delete of a
\* key the leaf does not hold leaves the leaf as it is.
Capture(b) ==
  /\ builder[b].pc = "idle"
  /\ \A g \in Latest : g.timestamp # visible_through
  /\ builder' = [builder EXCEPT ![b] = [pc |-> "captured", freed |-> {},
       edited |-> Latest = {} \/ \E k \in Keys :
                    Mutated(k) /\ (PageOf(k) # {} \/ BaseEntries(k) # {}),
       generation |-> {[timestamp |-> visible_through, manifest |-> 0,
         root |-> UNION {g.root : g \in Latest},
         entries |-> [k \in Keys |->
           IF Latest = {} \/ Mutated(k) THEN PageOf(k) ELSE BaseEntries(k)]]}]]
  /\ UNCHANGED <<storeVars, stateVars, open_page, record_cache, writer,
                 reader, crashes, load, committed>>

\* The new leaf's page, when the plan has one, and the manifest's: reserved
\* one after the other.
NeedsLeaf(b, g) == builder[b].edited /\ \E k \in Keys : g.entries[k] # {}
LeafPage(b, g) == IF NeedsLeaf(b, g) THEN {Reserve(Allocator).page}
                  ELSE IF builder[b].edited THEN {} ELSE g.root
AfterLeaf(b, g) == IF NeedsLeaf(b, g) THEN Reserve(Allocator).alloc ELSE Allocator

\* The generation is written, leaf and manifest in one unsynced batch.
WriteGeneration(b) ==
  \E g \in builder[b].generation :
    LET taken == Reserve(AfterLeaf(b, g))
        built == [g EXCEPT !.manifest = taken.page, !.root = LeafPage(b, g)]
    IN  /\ builder[b].pc = "captured"
        /\ taken.alloc.next <= MaxPages
        /\ builder' = [builder EXCEPT ![b].pc = "written", ![b].generation = {built}]
        /\ log' = Append(log, [p \in Pages |->
             IF p = taken.page THEN [Blank EXCEPT !.manifest = {built}]
             ELSE IF NeedsLeaf(b, g) /\ p \in built.root THEN [Blank EXCEPT !.node = TRUE]
             ELSE Current[p]])
        /\ free_pages' = taken.alloc.free
        /\ next_page_id' = taken.alloc.next
        /\ UNCHANGED <<stateVars, open_page, record_cache, writer, reader,
                       crashes, load, committed>>

\* Versions below the newest one the oldest snapshot sees.
Drained(S, oldest) == {v \in S : v.timestamp <= oldest} \ NewestAt(S, oldest)

\* Mutant: a page is freed when the first of its versions goes.
ReleasedAtFirst(refs, gone) ==
  [p \in Pages |-> IF \E v \in gone : v.page = p THEN 0 ELSE refs[p]]

\* reclaim_covered's `release`: one reference per drained version.
Released(refs, gone) ==
  [p \in Pages |-> Max({0, refs[p] - Cardinality({v \in gone : v.page = p})})]

\* Pages whose last reference went, but for the page still open.
Freed(refs, left, protect) == {p \in Pages : refs[p] > 0 /\ left[p] = 0} \ protect

\* State::reclaim_covered on st = [versions, page_refs, generations,
\* dirty_keys, intents]: the state it leaves and the pages it returns.
ReclaimCovered(st, oldest, protect) ==
  LET cover == GenerationAt(st.generations, oldest)
      ring  == IF cover = {} THEN st.generations
               ELSE {g \in st.generations : \A c \in cover : After(g, c)}
      kept  == [k \in Keys |-> st.versions[k] \ Drained(st.versions[k], oldest)]
      gone  == UNION {Drained(st.versions[k], oldest) : k \in Keys}
      left  == Released(st.page_refs, gone)
      covered(k) == /\ Cardinality(kept[k]) = 1
                    /\ \E c \in cover, v \in kept[k] : v.timestamp <= c.timestamp
                    /\ k \notin st.dirty_keys
                    /\ k \notin st.intents
  IN  [versions    |-> [k \in Keys |-> IF covered(k) THEN {} ELSE kept[k]],
       page_refs   |-> left,
       generations |-> ring,
       freed       |-> {g.manifest : g \in st.generations \ ring}
                         \cup Freed(st.page_refs, left, protect)]

\* rebuild_index, last critical section: publish_generation, the dirty keys
\* it settles, and the sweep, which waits for the open-page lock and spares
\* that page.
Publish(b) ==
  /\ builder[b].pc = "written"
  /\ ~OpenPageLocked
  /\ \E g \in builder[b].generation :
     \E dirty \in {{k \in dirty_keys : \E v \in versions[k] : v.timestamp > g.timestamp}} :
     \E swept \in {ReclaimCovered([versions |-> versions, page_refs |-> page_refs,
                                   generations |-> generations \cup {g},
                                   dirty_keys |-> dirty, intents |-> intents],
                                  Min(ActiveSnapshots \cup {visible_through}),
                                  {o.page : o \in open_page})} :
       /\ versions' = swept.versions
       /\ page_refs' = swept.page_refs
       /\ generations' = swept.generations
       /\ dirty_keys' = dirty
       /\ builder' = [builder EXCEPT ![b] =
            [pc |-> IF CacheOn THEN "published" ELSE "dropped",
             generation |-> {}, edited |-> FALSE, freed |-> swept.freed]]
       /\ UNCHANGED <<storeVars, intents, next_commit_timestamp, visible_through,
                      completed_timestamps, open_page, record_cache, writer,
                      reader, crashes, load, committed>>

\* Decodes of freed pages leave the cache before the pages recirculate.
DropFreedDecodes(b) ==
  /\ builder[b].pc = "published"
  /\ record_cache' = [p \in Pages |-> IF p \in builder[b].freed THEN {} ELSE record_cache[p]]
  /\ builder' = [builder EXCEPT ![b].pc = "dropped"]
  /\ UNCHANGED <<storeVars, stateVars, open_page, writer, reader, crashes, load,
                 committed>>

\* PageAllocator::release.
ReleasePages(b) ==
  /\ builder[b].pc = "dropped"
  /\ free_pages' = free_pages \cup {p \in builder[b].freed : p < next_page_id}
  /\ builder' = [builder EXCEPT ![b] = IdleBuilder]
  /\ UNCHANGED <<log, next_page_id, stateVars, open_page, record_cache,
                 writer, reader, crashes, load, committed>>

(***************************************************************************)
(* A crash, and MvccDatabase::open on the pages it left.                   *)
(***************************************************************************)
PageCount(pages) == Max({0} \cup {p + 1 : p \in {q \in Pages : pages[q].exists}})

\* The versions open finds: a manifest page is not searched for records.
Recovered(pages) ==
  UNION {{At(p, r) : r \in DecodePage(pages[p])} :
           p \in {q \in Pages : pages[q].manifest = {}}}

\* The manifests open keeps: none is newer than the newest record.
NewestFound(found) == Max({0} \cup {v.timestamp : v \in found})
Manifests(pages, found) ==
  {g \in UNION {pages[p].manifest : p \in Pages} : g.timestamp <= NewestFound(found)}

\* open refuses two records of one key and timestamp, and a newest generation
\* whose root is not a node.
Openable(pages) ==
  LET gens == Manifests(pages, Recovered(pages))
  IN  /\ \A u, v \in Recovered(pages) :
           u.key = v.key /\ u.timestamp = v.timestamp => u = v
      /\ \A g \in gens : (\A h \in gens : After(g, h)) =>
           \A p \in g.root : pages[p].node

\* Mutants: nothing is left for the index to catch up with; the greatest
\* timestamp is handed out again.
NothingDirty(found, indexed_through) == {}
ResumeAt(newest) == newest

\* open's seed of dirty_keys, and the first timestamp it hands out.
DirtySeed(found, indexed_through) ==
  {v.key : v \in {u \in found : u.timestamp > indexed_through}}
ResumeAfter(newest) == newest + 1

\* The state open rebuilds, before its sweep.
Rebuilt(found, gens) ==
  LET last == Max({0} \cup {g.timestamp : g \in gens})
  IN  [newest      |-> NewestFound(found),
       versions    |-> [k \in Keys |-> {v \in found : v.key = k}],
       page_refs   |-> [p \in Pages |-> Cardinality({v \in found : v.page = p})],
       generations |-> gens,
       dirty_keys  |-> DirtySeed(found, last),
       intents     |-> {}]

Reopen(pages) ==
  \E found \in {Recovered(pages)} :
  \E st \in {Rebuilt(found, Manifests(pages, found))} :
  \E swept \in {ReclaimCovered(st, st.newest, {})} :
    /\ versions' = swept.versions
    /\ page_refs' = swept.page_refs
    /\ generations' = swept.generations
    /\ dirty_keys' = st.dirty_keys
    /\ next_commit_timestamp' = ResumeAfter(st.newest)
    /\ visible_through' = st.newest
    /\ free_pages' = swept.freed
    /\ next_page_id' = PageCount(pages)
    /\ committed' = committed \cup found

\* What was logged after the last sync survives up to some point.  Commits
\* in flight are over, whether or not their records reached the log.  A read
\* in progress makes no difference to what a crash leaves, so crashes are
\* only tried between reads.
Crash ==
  /\ crashes < MaxCrashes
  /\ \A r \in Readers : reader[r].pc = "idle"
  /\ crashes' = crashes + 1
  /\ \E i \in DOMAIN log :
       /\ Openable(log[i])
       /\ log' = <<log[i]>>
       /\ Reopen(log[i])
  /\ open_page' = {}
  /\ intents' = {}
  /\ completed_timestamps' = {}
  /\ record_cache' = [p \in Pages |-> {}]
  /\ writer' = [w \in Writers |-> IF writer[w].pc = "idle" THEN IdleWriter
                                  ELSE [IdleWriter EXCEPT !.pc = "done"]]
  /\ reader' = [r \in Readers |-> IdleReader]
  /\ builder' = [b \in Builders |-> IdleBuilder]
  /\ UNCHANGED load

Next ==
  \/ \E w \in Writers : PrepareCommit(w) \/ PlaceRecord(w) \/ RollOver(w)
       \/ AppendRecords(w) \/ DropDecodes(w) \/ FinishPrepared(w) \/ EndTransaction(w)
  \/ \E r \in Readers : BeginRead(r) \/ CacheHit(r) \/ CacheMiss(r)
       \/ ReadPage(r) \/ CacheFill(r) \/ EndRead(r) \/ \E k \in Loads[load].reads : Get(r, k)
  \/ \E b \in Builders : Capture(b) \/ WriteGeneration(b) \/ Publish(b)
       \/ DropFreedDecodes(b) \/ ReleasePages(b)
  \/ Crash

Spec == Init /\ [][Next]_vars

(***************************************************************************)
(* Properties.                                                             *)
(***************************************************************************)
\* Every variable has its type; a page holds at most one record per slot.
TypeOK ==
  /\ \A p \in Pages :
       /\ Current[p].exists \in BOOLEAN
       /\ \A s \in Slots : Current[p].slots[s] \subseteq Record
       /\ \A s \in Slots : Cardinality(Current[p].slots[s]) <= 1
       /\ Current[p].manifest \subseteq Generation
       /\ Current[p].node \in BOOLEAN
  /\ free_pages \subseteq Pages
  /\ next_page_id \in 0 .. MaxPages
  /\ open_page \subseteq [page : Pages, slot : 1 .. SlotsPerPage + 1]
  /\ versions \in [Keys -> SUBSET Version]
  /\ page_refs \in [Pages -> Nat]
  /\ intents \subseteq Keys
  /\ generations \subseteq Generation
  /\ dirty_keys \subseteq Keys
  /\ next_commit_timestamp \in Nat
  /\ visible_through \in Times
  /\ completed_timestamps \subseteq Times
  /\ \A p \in Pages : \A d \in record_cache[p] : d \subseteq Record
  /\ committed \subseteq Version

\* What a snapshot is owed: the newest record committed at or below it.
Expected(k, s) == Answer(NewestAt({c \in committed : c.key = k}, s))

\* A get that has been answered has the value its snapshot is owed, not an
\* error and not the record of another version: whatever commits, reuse of
\* pages, publications and sweeps ran between the steps of
\* read_index_version.
ReadersAnswered ==
  \A r \in Readers : reader[r].pc = "answered" =>
    reader[r].answer = Expected(KeyRead(r), reader[r].snapshot)

\* What the map, else the generation and the page it names, hold for s.
Held(k, s) ==
  LET mapped == NewestAt(versions[k], s)
      pages  == UNION {g.entries[k] : g \in GenerationAt(generations, s)}
  IN  IF mapped # {} \/ pages = {} THEN Answer(mapped)
      ELSE Answer(NewestAt({c \in UNION {DecodePage(Current[p]) : p \in pages} :
                              c.key = k}, s))

\* For every active snapshot and for a transaction that began now, every key
\* resolves to its newest committed version: also right after `open`, when
\* the map and the reference counts come from the pages alone.
SnapshotsServed ==
  \A s \in ActiveSnapshots \cup {visible_through}, k \in Keys :
    Held(k, s) = Expected(k, s)

\* Pages something may still read or write: those of versions in the map, of
\* commits in flight, of the open page, of index entries some snapshot
\* resolves, the leaves of the ring, and the newest manifest.
InUse ==
  (UNION {{v.page : v \in versions[k]} : k \in Keys})
    \cup (UNION {PlacesOf(w) : w \in {q \in Writers : writer[q].pc # "done"}})
    \cup {o.page : o \in open_page}
    \cup (UNION {UNION {UNION {g.entries[k] : g \in GenerationAt(generations, s)} :
                          k \in {j \in Keys : NewestAt(versions[j], s) = {}}} :
                   s \in ActiveSnapshots \cup {visible_through}})
    \cup (UNION {reader[r].page : r \in Readers})
    \cup (UNION {g.root : g \in generations})
    \cup {g.manifest : g \in Latest}

\* "The caller vouches that nothing can reference these pages anymore": no
\* page in the free pool, or on its way there, is in use.  A commit that has
\* taken a slot of a page which has since been sealed is protected only by
\* the snapshot it still holds.
FreePagesUnused ==
  \A p \in free_pages \cup UNION {builder[b].freed : b \in Builders} : p \notin InUse

\* open never meets two records of one key and timestamp, nor a newest
\* manifest whose root page is not a node, whatever prefix of the unsynced log
\* survives.
OpenSucceeds == \A i \in DOMAIN log : Openable(log[i])

\* With no commit in flight, a new transaction sees for every key the newest
\* commit ever acknowledged, crash or no crash.  wal.rs: "The offset is
\* explicit so two writers filling the same page cannot corrupt it by
\* reaching the log out of order."
AckedSurvive ==
  (\A w \in Writers : writer[w].pc \in {"idle", "done"}) =>
    \A k \in Keys : Held(k, visible_through) = Expected(k, Cardinality(Writers))
====
