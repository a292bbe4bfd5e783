--------------------------- MODULE CatalogProofs ---------------------------
(***************************************************************************)
(* Every stale list is about to be deleted, but for the known exceptions.  *)
(* A step can break this in three ways: the tables change under an entry,  *)
(* a stale list is put into the cache, or a request that was about to      *)
(* delete an entry gives up.                                               *)
(***************************************************************************)
EXTENDS Catalog, FiniteSetTheorems, TLAPS

Shapes ==
  /\ DOMAIN sources = Sources /\ DOMAIN articles = Sources
  /\ DOMAIN cache = Keys
  /\ DOMAIN at = Handlers /\ DOMAIN todo = Handlers

\* Only a source that exists has been collected from.
CollectedExists == \A s \in Sources : sources[s] = "none" => articles[s] = {}

\* Who has keys to delete is deleting them.
DeletersDelete ==
  \A h \in Handlers : todo[h] # {} => at[h] \in {"invalidate", "storing"}

Inv == Shapes /\ CollectedExists /\ DeletersDelete /\ StaleIsPending

\* Stale is what StaleIsPending is about, key by key.
Covered(k) == Stale(k) /\ k \notin stranded => Pending(k)

LEMMA InvInit == Init => Inv
  BY DEF Init, Inv, Shapes, CollectedExists, DeletersDelete, StaleIsPending, Stale

-----------------------------------------------------------------------------
(* What a list depends on.                                                 *)

LEMMA ArticleListKept ==
  ASSUME NEW filter, UNCHANGED articles,
         \A s \in Sources : Visible(s)' <=> Visible(s)
  PROVE  ArticleList(filter)' = ArticleList(filter)
<1>1. ArticleList(filter)' =
        {<<s, articles[s]>> : s \in {s \in Sources :
           Visible(s)' /\ \A state \in articles[s] : Passes(state, filter)}}
  BY DEF ArticleList
<1>2. {s \in Sources : Visible(s)' /\ \A state \in articles[s] : Passes(state, filter)}
      = {s \in Sources : Visible(s) /\ \A state \in articles[s] : Passes(state, filter)}
  OBVIOUS
<1> QED
  BY <1>1, <1>2 DEF ArticleList

\* A list of articles stays, whatever becomes of the sources' fields.
LEMMA ListKept ==
  ASSUME NEW k \in Keys, UNCHANGED articles,
         \A s \in Sources : Visible(s)' <=> Visible(s),
         k \in SourceKeys => UNCHANGED sources
  PROVE  List(k)' = List(k)
<1>1. CASE k \in SourceKeys
  BY <1>1 DEF List, SourceList, Live
<1>2. CASE k \notin SourceKeys
  <2>1. ArticleList(k[2])' = ArticleList(k[2])
    BY ArticleListKept
  <2> QED
    BY <1>2, <2>1 DEF List
<1> QED
  BY <1>1, <1>2

LEMMA SourceListKept ==
  ASSUME NEW k \in SourceKeys, UNCHANGED sources
  PROVE  List(k)' = List(k)
  BY DEF List, SourceList, Live

LEMMA TablesKept ==
  ASSUME NEW k \in Keys, UNCHANGED tables
  PROVE  List(k)' = List(k)
<1>1. \A s \in Sources : Visible(s)' <=> Visible(s)
  BY DEF tables, Visible, Live
<1> QED
  BY <1>1, ListKept DEF tables

-----------------------------------------------------------------------------
(* How a key stays covered.                                                *)

\* Requests go on, and none that is about to delete gives up.
NoneGivesUp ==
  \A h \in Handlers :
    /\ todo[h] \subseteq todo'[h]
    /\ at[h] = "reread" => at'[h] = "reread"

LEMMA PendingKept ==
  ASSUME NEW k \in Keys, Pending(k), NoneGivesUp
  PROVE  Pending(k)'
  BY DEF Pending, NoneGivesUp

LEMMA CoveredKept ==
  ASSUME Inv, NEW k \in Keys, cache'[k] = cache[k], List(k)' = List(k),
         k \in stranded => k \in stranded', Pending(k) => Pending(k)'
  PROVE  Covered(k)'
<1>1. Stale(k)' => Stale(k)
  BY DEF Stale
<1>2. Covered(k)
  BY DEF Inv, StaleIsPending, Covered
<1> QED
  BY <1>1, <1>2 DEF Covered

\* The handler changes what it does, and nothing else happens.
LEMMA QuietStep ==
  ASSUME Inv, UNCHANGED <<tables, redis>>, NoneGivesUp,
         DOMAIN at' = Handlers, DOMAIN todo' = Handlers, DeletersDelete'
  PROVE  Inv'
<1>1. Shapes' /\ CollectedExists'
  BY DEF Inv, Shapes, CollectedExists, tables, redis
<1>2. ASSUME NEW k \in Keys PROVE Covered(k)'
  <2>1. List(k)' = List(k)
    BY TablesKept
  <2>2. Pending(k) => Pending(k)'
    BY PendingKept
  <2> QED
    BY <2>1, <2>2, CoveredKept DEF redis
<1> QED
  BY <1>1, <1>2 DEF Inv, StaleIsPending, Covered

-----------------------------------------------------------------------------
(* Lists.                                                                  *)

LEMMA GetListKeepsInv ==
  ASSUME Inv, NEW h \in Handlers, NEW k, GetList(h, k)
  PROVE  Inv'
<1>1. /\ at[h] = "idle" /\ at' = [at EXCEPT ![h] = "fill"]
      /\ todo' = todo /\ UNCHANGED <<tables, redis>>
  BY DEF GetList, Goto
<1>2. NoneGivesUp /\ DeletersDelete' /\ DOMAIN at' = Handlers /\ DOMAIN todo' = Handlers
  BY <1>1 DEF NoneGivesUp, DeletersDelete, Inv, Shapes
<1> QED
  BY <1>1, <1>2, QuietStep

LEMMA FillKeepsInv ==
  ASSUME Inv, NEW h \in Handlers, Fill(h)
  PROVE  Inv'
<1>1. /\ at[h] = "fill" /\ at' = [at EXCEPT ![h] = "idle"]
      /\ todo' = todo /\ UNCHANGED tables
  BY DEF Fill, Respond, Goto
<1>2. NoneGivesUp /\ DeletersDelete' /\ DOMAIN at' = Handlers /\ DOMAIN todo' = Handlers
  BY <1>1 DEF NoneGivesUp, DeletersDelete, Inv, Shapes
<1>3. CASE UNCHANGED redis
  BY <1>1, <1>2, <1>3, QuietStep
<1>4. CASE \E k \in target[h] : SetList(h, k)
  <2>1. PICK k \in target[h] : SetList(h, k)
    BY <1>4
  <2>2. cache' = [cache EXCEPT ![k] = {[rows |-> rows[h], left |-> CacheTTL]}]
    BY <2>1 DEF SetList
  <2>3. ASSUME NEW j \in Keys PROVE Covered(j)'
    <3>1. List(j)' = List(j)
      BY <1>1, TablesKept
    <3>2. Pending(j) => Pending(j)'
      BY <1>2, PendingKept
    <3>3. CASE j # k
      <4>1. cache'[j] = cache[j] /\ (j \in stranded => j \in stranded')
        BY <2>1, <2>2, <3>3 DEF SetList, Inv, Shapes
      <4> QED
        BY <3>1, <3>2, <4>1, CoveredKept
    <3>4. CASE j = k
      <4>1. cache'[j] = {[rows |-> rows[h], left |-> CacheTTL]}
        BY <2>2, <3>4 DEF Inv, Shapes
      <4>2. Stale(j)' => rows[h] # List(j)
        BY <3>1, <4>1 DEF Stale
      <4>3. rows[h] # List(j) /\ ~Pending(j) => j \in stranded'
        BY <2>1, <3>4 DEF SetList
      <4> QED
        BY <3>2, <4>2, <4>3 DEF Covered
    <3> QED
      BY <3>3, <3>4
  <2>4. Shapes' /\ CollectedExists'
    BY <1>1, <1>2, <2>2 DEF Inv, Shapes, CollectedExists, tables
  <2> QED
    BY <1>2, <2>3, <2>4 DEF Inv, StaleIsPending, Covered
<1> QED
  BY <1>3, <1>4 DEF Fill

-----------------------------------------------------------------------------
(* Changes of the tables.                                                  *)

\* The lists of sources are about to be deleted, those of articles do not
\* change: a new source has no articles.
LEMMA WriteSourceKeepsInv ==
  ASSUME Inv, NEW h \in Handlers, NEW s \in Sources, NEW from,
         from \in {{"none"}, Fields}, WriteSource(h, s, from)
  PROVE  Inv'
<1>1. /\ at[h] = "idle" /\ at' = [at EXCEPT ![h] = "invalidate"]
      /\ todo' = [todo EXCEPT ![h] = SourceKeys]
      /\ UNCHANGED <<articles, redis>>
  BY DEF WriteSource, Invalidates, Goto
<1>2. todo[h] = {}
  BY <1>1 DEF Inv, DeletersDelete
<1>3. NoneGivesUp /\ DeletersDelete' /\ todo'[h] = SourceKeys
  BY <1>1, <1>2 DEF NoneGivesUp, DeletersDelete, Inv, Shapes
<1>4. PICK fields \in Fields : sources' = [sources EXCEPT ![s] = fields]
  BY DEF WriteSource
<1>5. CollectedExists' /\ Shapes'
  BY <1>1, <1>4 DEF Inv, CollectedExists, Shapes, Fields, redis
<1>6. \A t \in Sources : Visible(t)' <=> Visible(t)
  <2>1. sources[s] \in Fields \/ articles[s] = {}
    BY DEF WriteSource, Inv, CollectedExists
  <2> QED
    BY <1>1, <1>4, <2>1 DEF Visible, Live, Inv, Shapes
<1>7. ASSUME NEW k \in Keys PROVE Covered(k)'
  <2>1. CASE k \in SourceKeys
    BY <1>3, <2>1 DEF Covered, Pending
  <2>2. CASE k \notin SourceKeys
    <3>1. List(k)' = List(k)
      BY <1>1, <1>6, <2>2, ListKept
    <3>2. Pending(k) => Pending(k)'
      BY <1>3, PendingKept
    <3> QED
      BY <1>1, <3>1, <3>2, CoveredKept DEF redis
  <2> QED
    BY <2>1, <2>2
<1> QED
  BY <1>3, <1>5, <1>7 DEF Inv, StaleIsPending, Covered

LEMMA DeleteSourceKeepsInv ==
  ASSUME Inv, NEW h \in Handlers, NEW s \in Sources, DeleteSource(h, s)
  PROVE  Inv'
<1>1. /\ at[h] = "idle" /\ at' = [at EXCEPT ![h] = "invalidate"]
      /\ todo' = [todo EXCEPT ![h] = SourceKeys]
      /\ sources' = [sources EXCEPT ![s] = "deleted"]
      /\ stranded' = stranded \cup (Cached \cap ArticleKeys)
      /\ UNCHANGED <<articles, cache>>
  BY DEF DeleteSource, Invalidates, Goto
<1>2. NoneGivesUp /\ DeletersDelete' /\ todo'[h] = SourceKeys
  BY <1>1 DEF NoneGivesUp, DeletersDelete, Inv, Shapes
<1>3. CollectedExists' /\ Shapes'
  BY <1>1 DEF Inv, CollectedExists, Shapes
<1>4. ASSUME NEW k \in Keys PROVE Covered(k)'
  <2>1. CASE k \in SourceKeys
    BY <1>2, <2>1 DEF Covered, Pending
  <2>2. CASE k \in ArticleKeys
    BY <1>1, <2>2 DEF Covered, Stale, Cached
  <2> QED
    BY <2>1, <2>2 DEF Keys
<1> QED
  BY <1>2, <1>3, <1>4 DEF Inv, StaleIsPending, Covered

LEMMA FindArticleKeepsInv ==
  ASSUME Inv, NEW h \in Handlers, NEW s, NEW f, FindArticle(h, s, f)
  PROVE  Inv'
<1>1. /\ at[h] = "idle" /\ at' = [at EXCEPT ![h] = "upsert"]
      /\ todo' = todo /\ UNCHANGED <<tables, redis>>
  BY DEF FindArticle, Goto
<1>2. NoneGivesUp /\ DeletersDelete' /\ DOMAIN at' = Handlers /\ DOMAIN todo' = Handlers
  BY <1>1 DEF NoneGivesUp, DeletersDelete, Inv, Shapes
<1> QED
  BY <1>1, <1>2, QuietStep

\* A flag changes lists of articles only, and they are about to be deleted.
LEMMA UpsertStateKeepsInv ==
  ASSUME Inv, NEW h \in Handlers, UpsertState(h)
  PROVE  Inv'
<1>1. at[h] = "upsert" /\ todo' = todo /\ UNCHANGED <<sources, redis>>
  BY DEF UpsertState
<1>2. CASE at' = [at EXCEPT ![h] = "idle"] /\ UNCHANGED articles
  <2>1. NoneGivesUp /\ DeletersDelete' /\ DOMAIN at' = Handlers /\ DOMAIN todo' = Handlers
    BY <1>1, <1>2 DEF NoneGivesUp, DeletersDelete, Inv, Shapes
  <2>2. UNCHANGED <<tables, redis>>
    BY <1>1, <1>2 DEF tables
  <2> QED
    BY <2>1, <2>2, QuietStep
<1>3. CASE /\ at' = [at EXCEPT ![h] = "reread"]
           /\ \E s \in Sources, f \in Flags, on \in BOOLEAN :
                articles' = [articles EXCEPT ![s] = WithFlag(@, f, on)]
  <2>1. NoneGivesUp /\ DeletersDelete' /\ at'[h] = "reread"
    BY <1>1, <1>3 DEF NoneGivesUp, DeletersDelete, Inv, Shapes
  <2>2. PICK s \in Sources, f \in Flags, on \in BOOLEAN :
          articles' = [articles EXCEPT ![s] = WithFlag(articles[s], f, on)]
    BY <1>3
  <2>3. articles[s] = {} => WithFlag(articles[s], f, on) = {}
    BY DEF WithFlag
  <2>4. CollectedExists'
    BY <1>1, <2>2, <2>3 DEF Inv, CollectedExists, Shapes
  <2>5. Shapes'
    BY <1>1, <1>3, <2>2 DEF Inv, Shapes, redis
  <2>6. ASSUME NEW k \in Keys PROVE Covered(k)'
    <3>1. CASE k \in ArticleKeys
      BY <2>1, <3>1 DEF Covered, Pending
    <3>2. CASE k \in SourceKeys
      <4>1. List(k)' = List(k)
        BY <1>1, <3>2, SourceListKept
      <4>2. Pending(k) => Pending(k)'
        BY <2>1, PendingKept
      <4> QED
        BY <1>1, <4>1, <4>2, CoveredKept DEF redis
    <3> QED
      BY <3>1, <3>2 DEF Keys
  <2> QED
    BY <2>1, <2>4, <2>5, <2>6 DEF Inv, StaleIsPending, Covered
<1> QED
  BY <1>2, <1>3 DEF UpsertState, Respond, Goto

\* A request that gives up before it deletes strands what it would have deleted.
LEMMA RereadKeepsInv ==
  ASSUME Inv, NEW h \in Handlers, RereadArticle(h)
  PROVE  Inv'
<1>1. at[h] = "reread" /\ todo[h] = {} /\ UNCHANGED <<tables, cache>>
  BY DEF RereadArticle, Inv, DeletersDelete
<1>2. CASE /\ at' = [at EXCEPT ![h] = "invalidate"]
           /\ todo' = [todo EXCEPT ![h] = ArticleKeys]
           /\ UNCHANGED stranded
  <2>1. DeletersDelete' /\ todo'[h] = ArticleKeys
        /\ \A g \in Handlers : g # h => at'[g] = at[g] /\ todo'[g] = todo[g]
    BY <1>2 DEF DeletersDelete, Inv, Shapes
  <2>2. Shapes' /\ CollectedExists'
    BY <1>1, <1>2 DEF Inv, Shapes, CollectedExists, tables
  <2>3. ASSUME NEW k \in Keys PROVE Covered(k)'
    <3>1. Pending(k) => Pending(k)'
      BY <1>1, <2>1 DEF Pending
    <3>2. List(k)' = List(k)
      BY <1>1, TablesKept
    <3> QED
      BY <1>1, <1>2, <3>1, <3>2, CoveredKept
  <2> QED
    BY <2>1, <2>2, <2>3 DEF Inv, StaleIsPending, Covered
<1>3. CASE /\ at' = [at EXCEPT ![h] = "idle"] /\ UNCHANGED todo
           /\ stranded' = stranded \cup (Cached \cap ArticleKeys)
  <2>1. DeletersDelete' /\ \A g \in Handlers : g # h => at'[g] = at[g]
    BY <1>1, <1>3 DEF DeletersDelete, Inv, Shapes
  <2>2. Shapes' /\ CollectedExists'
    BY <1>1, <1>3 DEF Inv, Shapes, CollectedExists, tables
  <2>3. ASSUME NEW k \in Keys PROVE Covered(k)'
    <3>1. CASE k \in ArticleKeys
      BY <1>1, <1>3, <3>1 DEF Covered, Stale, Cached
    <3>2. CASE k \notin ArticleKeys
      <4>1. Pending(k) => Pending(k)'
        BY <1>3, <3>2 DEF Pending
      <4>2. List(k)' = List(k)
        BY <1>1, TablesKept
      <4> QED
        BY <1>1, <1>3, <4>1, <4>2, CoveredKept
    <3> QED
      BY <3>1, <3>2
  <2> QED
    BY <2>1, <2>2, <2>3 DEF Inv, StaleIsPending, Covered
<1> QED
  BY <1>2, <1>3 DEF RereadArticle, Respond, Invalidates, Goto

LEMMA SaveKeepsInv ==
  ASSUME Inv, NEW h \in Handlers, NEW s, SaveCollectedItems(h, s)
  PROVE  Inv'
<1>1. /\ at[h] = "idle" /\ at' = [at EXCEPT ![h] = "storing"]
      /\ todo' = [todo EXCEPT ![h] = ArticleKeys]
      /\ UNCHANGED <<tables, redis>>
  BY DEF SaveCollectedItems, Goto
<1>2. todo[h] = {}
  BY <1>1 DEF Inv, DeletersDelete
<1>3. NoneGivesUp /\ DeletersDelete' /\ DOMAIN at' = Handlers /\ DOMAIN todo' = Handlers
  BY <1>1, <1>2 DEF NoneGivesUp, DeletersDelete, Inv, Shapes
<1> QED
  BY <1>1, <1>3, QuietStep

\* What a collection inserts is not deleted from the lists any more; but the
\* list of sources is.
LEMMA CommitKeepsInv ==
  ASSUME Inv, NEW h \in Handlers, Commit(h)
  PROVE  Inv'
<1>1. at[h] = "storing" /\ todo[h] = {} /\ UNCHANGED cache
  BY DEF Commit
<1>2. CASE /\ at' = [at EXCEPT ![h] = "idle"] /\ UNCHANGED <<tables, stranded, todo>>
  <2>1. NoneGivesUp /\ DeletersDelete' /\ DOMAIN at' = Handlers /\ DOMAIN todo' = Handlers
    BY <1>1, <1>2 DEF NoneGivesUp, DeletersDelete, Inv, Shapes
  <2>2. UNCHANGED <<tables, redis>>
    BY <1>1, <1>2 DEF redis
  <2> QED
    BY <2>1, <2>2, QuietStep
<1>3. ASSUME NEW s \in Sources, Live(s), NEW fields \in Fields,
             sources' = [sources EXCEPT ![s] = fields],
             \/ /\ articles' = [articles EXCEPT ![s] = IF @ = {} THEN {{}} ELSE @]
                /\ stranded' = stranded \cup (Cached \cap ArticleKeys)
             \/ UNCHANGED <<articles, stranded>>,
             at' = [at EXCEPT ![h] = "invalidate"],
             todo' = [todo EXCEPT ![h] = SourceKeys]
      PROVE  Inv'
  <2>1. NoneGivesUp /\ DeletersDelete' /\ todo'[h] = SourceKeys
    BY <1>1, <1>3 DEF NoneGivesUp, DeletersDelete, Inv, Shapes
  <2>2. Shapes'
    BY <1>1, <1>3 DEF Inv, Shapes
  <2>3. CollectedExists'
    BY <1>3 DEF Inv, CollectedExists, Shapes, Fields
  <2>4. ASSUME NEW k \in Keys PROVE Covered(k)'
    <3>1. CASE k \in SourceKeys
      BY <2>1, <3>1 DEF Covered, Pending
    <3>2. CASE k \in ArticleKeys /\ stranded' = stranded \cup (Cached \cap ArticleKeys)
      BY <1>1, <3>2 DEF Covered, Stale, Cached
    <3>3. CASE k \notin SourceKeys /\ UNCHANGED <<articles, stranded>>
      <4>1. \A t \in Sources : Visible(t)' <=> Visible(t)
        BY <1>3, <3>3 DEF Visible, Live, Inv, Shapes
      <4>2. List(k)' = List(k)
        BY <3>3, <4>1, ListKept
      <4>3. Pending(k) => Pending(k)'
        BY <2>1, PendingKept
      <4> QED
        BY <1>1, <3>3, <4>2, <4>3, CoveredKept
    <3> QED
      BY <1>3, <3>1, <3>2, <3>3 DEF Keys
  <2> QED
    BY <2>1, <2>2, <2>3, <2>4 DEF Inv, StaleIsPending, Covered
<1> QED
  BY <1>2, <1>3 DEF Commit, Respond, Invalidates, Goto

-----------------------------------------------------------------------------
(* DeleteUser and time.                                                    *)

LEMMA DeleteKeyKeepsInv ==
  ASSUME Inv, NEW h \in Handlers, DeleteKey(h)
  PROVE  Inv'
<1>1. PICK k \in todo[h] :
        /\ cache' = [cache EXCEPT ![k] = {}]
        /\ stranded' = stranded \ {k}
        /\ todo' = [todo EXCEPT ![h] = todo[h] \ {k}]
        /\ IF at[h] = "invalidate" /\ todo[h] = {k}
           THEN at' = [at EXCEPT ![h] = "idle"] ELSE at' = at
  BY DEF DeleteKey, DeletedBy, Respond, Goto
<1>2. at[h] \in {"invalidate", "storing"}
  BY <1>1 DEF Inv, DeletersDelete
<1>3. UNCHANGED tables
  BY DEF DeleteKey
<1>4. Shapes' /\ CollectedExists'
  BY <1>1, <1>3 DEF Inv, Shapes, CollectedExists, tables
<1>5. DeletersDelete'
  BY <1>1, <1>2 DEF Inv, Shapes, DeletersDelete
<1>6. ASSUME NEW j \in Keys PROVE Covered(j)'
  <2>1. CASE j = k
    BY <1>1, <2>1 DEF Covered, Stale, Inv, Shapes
  <2>2. CASE j # k
    <3>1. cache'[j] = cache[j] /\ (j \in stranded => j \in stranded')
      BY <1>1, <2>2 DEF Inv, Shapes
    <3>2. Pending(j) => Pending(j)'
      BY <1>1, <1>2, <2>2 DEF Pending, Inv, Shapes
    <3>3. List(j)' = List(j)
      BY <1>3, TablesKept
    <3> QED
      BY <3>1, <3>2, <3>3, CoveredKept
  <2> QED
    BY <2>1, <2>2
<1> QED
  BY <1>4, <1>5, <1>6 DEF Inv, StaleIsPending, Covered

LEMMA AbortKeepsInv ==
  ASSUME Inv, NEW h \in Handlers, Abort(h)
  PROVE  Inv'
<1>1. /\ todo[h] # {}
      /\ stranded' = stranded \cup (todo[h] \cap Cached)
      /\ todo' = [todo EXCEPT ![h] = {}]
      /\ UNCHANGED <<tables, cache>>
  BY DEF Abort
<1>2. at[h] \in {"invalidate", "storing"}
  BY <1>1 DEF Inv, DeletersDelete
<1>3. at' = at \/ at' = [at EXCEPT ![h] = "idle"]
  BY DEF Abort, Respond, Goto
<1>4. Shapes' /\ CollectedExists' /\ DeletersDelete'
  BY <1>1, <1>3 DEF Inv, Shapes, CollectedExists, DeletersDelete, tables
<1>5. ASSUME NEW k \in Keys PROVE Covered(k)'
  <2>1. CASE k \in todo[h]
    BY <1>1, <2>1 DEF Covered, Stale, Cached
  <2>2. CASE k \notin todo[h]
    <3>1. Pending(k) => Pending(k)'
      BY <1>1, <1>2, <1>3, <2>2 DEF Pending, Inv, Shapes
    <3>2. List(k)' = List(k)
      BY <1>1, TablesKept
    <3> QED
      BY <1>1, <3>1, <3>2, CoveredKept
  <2> QED
    BY <2>1, <2>2
<1> QED
  BY <1>4, <1>5 DEF Inv, StaleIsPending, Covered

\* An entry that is left is as stale as before.
LEMMA TickKeepsInv ==
  ASSUME Inv, Tick
  PROVE  Inv'
<1>1. UNCHANGED <<sources, articles, at, todo>>
  BY DEF Tick, tables, local
<1>2. Shapes' /\ CollectedExists' /\ DeletersDelete'
  BY <1>1 DEF Inv, Shapes, CollectedExists, DeletersDelete, Tick
<1>3. ASSUME NEW k \in Keys PROVE Covered(k)'
  <2>1. List(k)' = List(k)
    BY <1>1, TablesKept DEF tables
  <2>2. Pending(k)' = Pending(k)
    BY <1>1 DEF Pending
  <2>3. cache'[k] = {e \in {Aged(e) : e \in cache[k]} : e.left > 0}
    BY DEF Tick
  <2>4. \A e : Aged(e).rows = e.rows
    BY DEF Aged
  <2>5. Stale(k)' => Stale(k) /\ cache'[k] # {}
    BY <2>1, <2>3, <2>4 DEF Stale
  <2>6. k \in stranded /\ cache'[k] # {} => k \in stranded'
    BY DEF Tick
  <2>7. Covered(k)
    BY DEF Inv, StaleIsPending, Covered
  <2> QED
    BY <2>2, <2>5, <2>6, <2>7 DEF Covered
<1> QED
  BY <1>2, <1>3 DEF Inv, StaleIsPending, Covered

-----------------------------------------------------------------------------

LEMMA StepKeepsInv == Inv /\ [Next]_vars => Inv'
<1> SUFFICES ASSUME Inv, [Next]_vars PROVE Inv'
  OBVIOUS
<1>1. ASSUME NEW h \in Handlers, SourceRequest(h) PROVE Inv'
  <2>1. ListSources(h) => Inv'
    BY GetListKeepsInv DEF ListSources
  <2>2. ASSUME NEW s \in Sources,
               CreateSource(h, s) \/ UpdateSource(h, s) \/ DeleteSource(h, s)
        PROVE  Inv'
    BY <2>2, WriteSourceKeepsInv, DeleteSourceKeepsInv DEF CreateSource, UpdateSource
  <2> QED
    BY <1>1, <2>1, <2>2 DEF SourceRequest
<1>2. ASSUME NEW h \in Handlers, ArticleRequest(h) PROVE Inv'
  BY <1>2, GetListKeepsInv, FindArticleKeepsInv DEF ArticleRequest, ListArticles
<1>3. ASSUME NEW h \in Handlers, Handle(h) PROVE Inv'
  BY <1>3, FillKeepsInv, UpsertStateKeepsInv, RereadKeepsInv, CommitKeepsInv,
     DeleteKeyKeepsInv, AbortKeepsInv DEF Handle
<1>4. ASSUME NEW h \in Handlers, NEW s \in Sources, SaveCollectedItems(h, s) PROVE Inv'
  BY <1>4, SaveKeepsInv
<1>5. CASE UNCHANGED vars
  <2>1. UNCHANGED <<tables, redis, at, todo>>
    BY <1>5 DEF vars, local
  <2>2. NoneGivesUp /\ DeletersDelete' /\ DOMAIN at' = Handlers /\ DOMAIN todo' = Handlers
    BY <2>1 DEF NoneGivesUp, DeletersDelete, Inv, Shapes
  <2> QED
    BY <2>1, <2>2, QuietStep
<1> QED
  BY <1>1, <1>2, <1>3, <1>4, <1>5, TickKeepsInv DEF Next

\* A stale list is about to be deleted or has been missed in one of the known
\* ways, for any number of concurrent requests, sources and flags.
THEOREM StaleIsPendingHolds == Spec => []StaleIsPending
<1>1. Init => Inv
  BY InvInit
<1>2. Inv /\ [Next]_vars => Inv'
  BY StepKeepsInv
<1>3. Inv => StaleIsPending
  BY DEF Inv
<1> QED
  BY <1>1, <1>2, <1>3, PTL DEF Spec

-----------------------------------------------------------------------------
(* Types.  What a handler holds depends on its step; an entry of the cache  *)
(* is one list that its key can have.                                       *)

TablesTyped ==
  /\ sources \in [Sources -> {"none", "deleted"} \cup Fields]
  /\ articles \in [Sources -> {{}} \cup {{state} : state \in SUBSET Flags}]

EntryOf(k, e) == e.rows \in ListsOf(k) /\ e.left \in 1..CacheTTL

CacheTyped ==
  /\ DOMAIN cache = Keys
  /\ \A k \in Keys : cache[k] = {} \/ \E e : cache[k] = {e} /\ EntryOf(k, e)
  /\ stranded \subseteq Cached

Holds(h) ==
  /\ at[h] = "fill" => /\ target[h] \subseteq Keys
                       /\ \A k \in target[h] : rows[h] \in ListsOf(k)
  /\ at[h] = "upsert" => target[h] \subseteq Sources \X Flags
  /\ at[h] \in {"reread", "storing"} => target[h] \subseteq {<<s>> : s \in Sources}
  /\ at[h] \in {"idle", "invalidate"} => target[h] = {}
  /\ at[h] # "fill" => rows[h] = {}

HandlersTyped ==
  /\ at \in [Handlers -> Steps] /\ todo \in [Handlers -> SUBSET Keys]
  /\ DOMAIN target = Handlers /\ DOMAIN rows = Handlers
  /\ \A h \in Handlers : Holds(h)

TypeInv == TablesTyped /\ CacheTyped /\ HandlersTyped

LEMMA TypeInvImplies == TypeInv => TypeOK
<1> SUFFICES ASSUME TypeInv PROVE TypeOK
  OBVIOUS
<1>1. ASSUME NEW k \in Keys
      PROVE  /\ \A e \in cache[k] : e.rows \in ListsOf(k) /\ e.left \in 1..CacheTTL
             /\ Cardinality(cache[k]) <= 1
  <2>1. cache[k] = {} \/ \E e : cache[k] = {e} /\ EntryOf(k, e)
    BY DEF TypeInv, CacheTyped
  <2>2. Cardinality({}) = 0 /\ \A e : Cardinality({e}) = 1
    BY FS_EmptySet, FS_Singleton
  <2>3. Cardinality(cache[k]) \in {0, 1}
    BY <2>1, <2>2
  <2> QED
    BY <2>1, <2>3 DEF EntryOf
<1>2. ASSUME NEW h \in Handlers
      PROVE  /\ target[h] \subseteq CASE at[h] = "fill" -> Keys
                                     [] at[h] = "upsert" -> Sources \X Flags
                                     [] at[h] \in {"reread", "storing"} ->
                                          {<<s>> : s \in Sources}
                                     [] OTHER -> {}
             /\ IF at[h] = "fill" THEN \A k \in target[h] : rows[h] \in ListsOf(k)
                                  ELSE rows[h] = {}
  <2>1. Holds(h) /\ at[h] \in Steps
    BY DEF TypeInv, HandlersTyped
  <2> QED
    BY <2>1 DEF Holds, Steps
<1> QED
  BY <1>1, <1>2 DEF TypeInv, TablesTyped, CacheTyped, HandlersTyped, TypeOK

LEMMA TypeInvInit == Init => TypeInv
<1> SUFFICES ASSUME Init PROVE TypeInv
  OBVIOUS
<1>1. TablesTyped /\ CacheTyped
  BY DEF Init, TablesTyped, CacheTyped
<1>2. HandlersTyped
  BY DEF Init, HandlersTyped, Holds, Steps
<1> QED
  BY <1>1, <1>2 DEF TypeInv

\* What is read is a list the key can have.
LEMMA ListsAreLists ==
  ASSUME TablesTyped, NEW k \in Keys
  PROVE  List(k) \in ListsOf(k)
<1>1. CASE k \in SourceKeys
  <2>1. SourceList \subseteq Sources \X Fields
    BY DEF SourceList, Live
  <2> QED
    BY <1>1, <2>1 DEF List, ListsOf
<1>2. CASE k \notin SourceKeys
  <2>1. ASSUME NEW s \in Sources, Visible(s)
        PROVE  articles[s] \in {{state} : state \in SUBSET Flags}
    BY <2>1 DEF TablesTyped, Visible
  <2>2. ArticleList(k[2]) \subseteq Sources \X {{state} : state \in SUBSET Flags}
    BY <2>1 DEF ArticleList
  <2> QED
    BY <1>2, <2>2 DEF List, ListsOf
<1> QED
  BY <1>1, <1>2

\* One handler moves, the others stay.
LEMMA OneMoves ==
  ASSUME HandlersTyped, NEW h \in Handlers,
         at' \in [Handlers -> Steps], todo' \in [Handlers -> SUBSET Keys],
         DOMAIN target' = Handlers, DOMAIN rows' = Handlers,
         \A g \in Handlers \ {h} :
           at'[g] = at[g] /\ target'[g] = target[g] /\ rows'[g] = rows[g],
         Holds(h)'
  PROVE  HandlersTyped'
<1>1. ASSUME NEW g \in Handlers PROVE Holds(g)'
  <2>1. CASE g = h
    BY <2>1
  <2>2. CASE g # h
    BY <2>2 DEF HandlersTyped, Holds
  <2> QED
    BY <2>1, <2>2
<1> QED
  BY <1>1 DEF HandlersTyped

LEMMA CacheTypedKept ==
  ASSUME CacheTyped, UNCHANGED cache, stranded' \subseteq stranded \cup Cached
  PROVE  CacheTyped'
<1>1. Cached' = Cached
  BY DEF Cached
<1> QED
  BY <1>1 DEF CacheTyped

LEMMA GetListTyped ==
  ASSUME TypeInv, NEW h \in Handlers, NEW k \in Keys, GetList(h, k)
  PROVE  TypeInv'
<1>1. /\ target' = [target EXCEPT ![h] = {k}]
      /\ rows' = [rows EXCEPT ![h] = List(k)]
      /\ at' = [at EXCEPT ![h] = "fill"]
      /\ UNCHANGED <<sources, articles, cache, stranded, todo>>
  BY DEF GetList, Goto, tables, redis
<1>2. TablesTyped' /\ CacheTyped'
  BY <1>1, CacheTypedKept DEF TypeInv, TablesTyped
<1>3. HandlersTyped'
  <2>1. List(k) \in ListsOf(k)
    BY ListsAreLists DEF TypeInv
  <2>2. Holds(h)'
    BY <1>1, <2>1 DEF TypeInv, HandlersTyped, Holds
  <2>3. at' \in [Handlers -> Steps] /\ todo' \in [Handlers -> SUBSET Keys]
    BY <1>1 DEF TypeInv, HandlersTyped, Steps
  <2>4. DOMAIN target' = Handlers /\ DOMAIN rows' = Handlers
        /\ \A g \in Handlers \ {h} :
             at'[g] = at[g] /\ target'[g] = target[g] /\ rows'[g] = rows[g]
    BY <1>1 DEF TypeInv, HandlersTyped
  <2> QED
    BY <2>2, <2>3, <2>4, OneMoves DEF TypeInv
<1> QED
  BY <1>2, <1>3 DEF TypeInv

LEMMA FillTyped ==
  ASSUME CacheTTL \in Nat \ {0}, TypeInv, NEW h \in Handlers, Fill(h)
  PROVE  TypeInv'
<1>1. /\ at[h] = "fill" /\ at' = [at EXCEPT ![h] = "idle"]
      /\ target' = [target EXCEPT ![h] = {}] /\ rows' = [rows EXCEPT ![h] = {}]
      /\ UNCHANGED <<sources, articles, todo>>
  BY DEF Fill, Respond, Goto, tables
<1>2. TablesTyped'
  BY <1>1 DEF TypeInv, TablesTyped
<1>3. HandlersTyped'
  <2>1. Holds(h)'
    BY <1>1 DEF TypeInv, HandlersTyped, Holds
  <2>2. at' \in [Handlers -> Steps] /\ todo' \in [Handlers -> SUBSET Keys]
    BY <1>1 DEF TypeInv, HandlersTyped, Steps
  <2>3. DOMAIN target' = Handlers /\ DOMAIN rows' = Handlers
        /\ \A g \in Handlers \ {h} :
             at'[g] = at[g] /\ target'[g] = target[g] /\ rows'[g] = rows[g]
    BY <1>1 DEF TypeInv, HandlersTyped
  <2> QED
    BY <2>1, <2>2, <2>3, OneMoves DEF TypeInv
<1>4. CASE UNCHANGED redis
  BY <1>2, <1>3, <1>4, CacheTypedKept DEF TypeInv, redis
<1>5. CASE \E k \in target[h] : SetList(h, k)
  <2>1. PICK k \in target[h] : SetList(h, k)
    BY <1>5
  <2>2. k \in Keys /\ rows[h] \in ListsOf(k)
    BY <1>1 DEF TypeInv, HandlersTyped, Holds
  <2> DEFINE e == [rows |-> rows[h], left |-> CacheTTL]
  <2>3. EntryOf(k, e)
    BY <2>2 DEF EntryOf
  <2>4. cache' = [cache EXCEPT ![k] = {e}] /\ stranded' \subseteq stranded \cup {k}
    BY <2>1 DEF SetList
  <2> HIDE DEF e
  <2>5. DOMAIN cache' = Keys /\ cache'[k] = {e}
        /\ \A j \in Keys \ {k} : cache'[j] = cache[j]
    BY <2>2, <2>4 DEF TypeInv, CacheTyped
  <2>6. \A j \in Keys : cache'[j] = {} \/ \E d : cache'[j] = {d} /\ EntryOf(j, d)
    BY <2>3, <2>5 DEF TypeInv, CacheTyped
  <2>7. stranded' \subseteq Cached'
    BY <2>2, <2>4, <2>5 DEF TypeInv, CacheTyped, Cached
  <2>8. CacheTyped'
    BY <2>5, <2>6, <2>7 DEF CacheTyped, EntryOf
  <2> QED
    BY <1>2, <1>3, <2>8 DEF TypeInv
<1> QED
  BY <1>2, <1>3, <1>4, <1>5 DEF Fill, TypeInv

\* A change after which the handler deletes lists.
LEMMA InvalidatesTyped ==
  ASSUME HandlersTyped, NEW h \in Handlers, NEW keys \in SUBSET Keys,
         Invalidates(h, keys), UNCHANGED rows, at[h] # "fill",
         DOMAIN target' = Handlers, target'[h] = {},
         \A g \in Handlers \ {h} : target'[g] = target[g]
  PROVE  HandlersTyped'
<1>1. /\ at' = [at EXCEPT ![h] = "invalidate"] /\ todo' = [todo EXCEPT ![h] = keys]
  BY DEF Invalidates, Goto
<1>2. Holds(h)'
  BY <1>1 DEF HandlersTyped, Holds
<1>3. at' \in [Handlers -> Steps] /\ todo' \in [Handlers -> SUBSET Keys]
  BY <1>1 DEF HandlersTyped, Steps
<1>4. DOMAIN rows' = Handlers
      /\ \A g \in Handlers \ {h} : at'[g] = at[g] /\ rows'[g] = rows[g]
  BY <1>1 DEF HandlersTyped
<1> QED
  BY <1>2, <1>3, <1>4, OneMoves

\* An answer of a handler that holds no list.
LEMMA RespondTyped ==
  ASSUME HandlersTyped, NEW h \in Handlers,
         at' = [at EXCEPT ![h] = "idle"], UNCHANGED <<rows, todo>>, at[h] # "fill",
         DOMAIN target' = Handlers, target'[h] = {},
         \A g \in Handlers \ {h} : target'[g] = target[g]
  PROVE  HandlersTyped'
<1>1. Holds(h)'
  BY DEF HandlersTyped, Holds
<1>2. at' \in [Handlers -> Steps] /\ todo' \in [Handlers -> SUBSET Keys]
  BY DEF HandlersTyped, Steps
<1>3. DOMAIN rows' = Handlers
      /\ \A g \in Handlers \ {h} : at'[g] = at[g] /\ rows'[g] = rows[g]
  BY DEF HandlersTyped
<1> QED
  BY <1>1, <1>2, <1>3, OneMoves

\* A step to another one with something to do, todo apart.
LEMMA GoesOnTyped ==
  ASSUME HandlersTyped, NEW h \in Handlers, NEW step \in {"upsert", "reread", "storing"},
         NEW T, target' = [target EXCEPT ![h] = T],
         T \subseteq (IF step = "upsert" THEN Sources \X Flags ELSE {<<s>> : s \in Sources}),
         Goto(h, step), UNCHANGED rows, at[h] # "fill", todo' \in [Handlers -> SUBSET Keys]
  PROVE  HandlersTyped'
<1>1. /\ at' = [at EXCEPT ![h] = step]
  BY DEF Goto
<1>2. Holds(h)'
  BY <1>1 DEF HandlersTyped, Holds
<1>3. at' \in [Handlers -> Steps]
  BY <1>1 DEF HandlersTyped, Steps
<1>4. DOMAIN rows' = Handlers /\ DOMAIN target' = Handlers
      /\ \A g \in Handlers \ {h} :
           at'[g] = at[g] /\ rows'[g] = rows[g] /\ target'[g] = target[g]
  BY <1>1 DEF HandlersTyped
<1> QED
  BY <1>2, <1>3, <1>4, OneMoves

LEMMA WriteSourceTyped ==
  ASSUME TypeInv, NEW h \in Handlers, NEW s \in Sources, NEW from, WriteSource(h, s, from)
  PROVE  TypeInv'
<1>1. at[h] = "idle" /\ UNCHANGED <<articles, cache, stranded, target, rows>>
  BY DEF WriteSource, redis
<1>2. TablesTyped'
  BY <1>1 DEF WriteSource, TypeInv, TablesTyped
<1>3. HandlersTyped'
  BY <1>1, InvalidatesTyped DEF WriteSource, TypeInv, HandlersTyped, Holds, Keys
<1> QED
  BY <1>1, <1>2, <1>3, CacheTypedKept DEF TypeInv

LEMMA DeleteSourceTyped ==
  ASSUME TypeInv, NEW h \in Handlers, NEW s \in Sources, DeleteSource(h, s)
  PROVE  TypeInv'
<1>1. /\ at[h] = "idle" /\ UNCHANGED <<articles, cache, target, rows>>
      /\ sources' = [sources EXCEPT ![s] = "deleted"]
      /\ stranded' \subseteq stranded \cup Cached
  BY DEF DeleteSource
<1>2. TablesTyped'
  BY <1>1 DEF TypeInv, TablesTyped
<1>3. HandlersTyped'
  BY <1>1, InvalidatesTyped DEF DeleteSource, TypeInv, HandlersTyped, Holds, Keys
<1> QED
  BY <1>1, <1>2, <1>3, CacheTypedKept DEF TypeInv

LEMMA UpsertStateTyped ==
  ASSUME TypeInv, NEW h \in Handlers, UpsertState(h)
  PROVE  TypeInv'
<1>1. at[h] = "upsert" /\ UNCHANGED <<sources, cache, stranded, rows, todo>>
  BY DEF UpsertState, redis
<1>2. CacheTyped' /\ todo' \in [Handlers -> SUBSET Keys]
  BY <1>1, CacheTypedKept DEF TypeInv, HandlersTyped
<1>3. CASE Respond(h) /\ target' = [target EXCEPT ![h] = {}] /\ UNCHANGED articles
  <2>1. HandlersTyped'
    BY <1>1, <1>3, RespondTyped DEF TypeInv, HandlersTyped, Respond, Goto
  <2> QED
    BY <1>1, <1>2, <1>3, <2>1 DEF TypeInv, TablesTyped
<1>4. ASSUME NEW s \in Sources, NEW f \in Flags, NEW on \in BOOLEAN,
             articles' = [articles EXCEPT ![s] = WithFlag(@, f, on)],
             target' = [target EXCEPT ![h] = {<<s>>}], Goto(h, "reread")
      PROVE  TypeInv'
  <2> DEFINE States == {{}} \cup {{state} : state \in SUBSET Flags}
  <2>1. articles \in [Sources -> States]
    BY DEF TypeInv, TablesTyped
  <2>2. \A state \in SUBSET Flags :
          state \cup {f} \in SUBSET Flags /\ state \ {f} \in SUBSET Flags
    OBVIOUS
  <2>3. WithFlag(articles[s], f, on) \in States
    <3>1. CASE articles[s] = {}
      BY <3>1 DEF WithFlag
    <3>2. CASE \E state \in SUBSET Flags : articles[s] = {state}
      <4>1. PICK state \in SUBSET Flags : articles[s] = {state}
        BY <3>2
      <4>2. WithFlag(articles[s], f, on)
              = {IF on THEN state \cup {f} ELSE state \ {f}}
        BY <4>1 DEF WithFlag
      <4> QED
        BY <2>2, <4>2
    <3> QED
      BY <2>1, <3>1, <3>2
  <2>4. TablesTyped'
    <3>1. articles' = [articles EXCEPT ![s] = WithFlag(articles[s], f, on)]
      BY <1>4
    <3>2. articles' \in [Sources -> States]
      BY <2>1, <2>3, <3>1
    <3> QED
      BY <1>1, <3>2 DEF TypeInv, TablesTyped
  <2>5. HandlersTyped'
    <3>1. {<<s>>} \subseteq {<<t>> : t \in Sources}
      OBVIOUS
    <3> QED
      BY <1>1, <1>2, <1>4, <3>1, GoesOnTyped DEF TypeInv
  <2> QED
    BY <1>2, <2>4, <2>5 DEF TypeInv
<1> QED
  BY <1>3, <1>4 DEF UpsertState

LEMMA RereadTyped ==
  ASSUME TypeInv, NEW h \in Handlers, RereadArticle(h)
  PROVE  TypeInv'
<1>1. /\ at[h] = "reread" /\ UNCHANGED <<sources, articles, cache, rows>>
      /\ target' = [target EXCEPT ![h] = {}] /\ stranded' \subseteq stranded \cup Cached
  BY DEF RereadArticle, tables
<1>2. TablesTyped' /\ CacheTyped'
  BY <1>1, CacheTypedKept DEF TypeInv, TablesTyped
<1>3. DOMAIN target' = Handlers /\ target'[h] = {}
      /\ \A g \in Handlers \ {h} : target'[g] = target[g]
  BY <1>1 DEF TypeInv, HandlersTyped
<1>4. CASE Invalidates(h, ArticleKeys)
  <2>1. HandlersTyped'
    BY <1>1, <1>3, <1>4, InvalidatesTyped DEF TypeInv, Keys
  <2> QED
    BY <1>2, <2>1 DEF TypeInv
<1>5. CASE Respond(h) /\ UNCHANGED todo
  <2>1. HandlersTyped'
    BY <1>1, <1>3, <1>5, RespondTyped DEF TypeInv, Respond, Goto
  <2> QED
    BY <1>2, <2>1 DEF TypeInv
<1> QED
  BY <1>4, <1>5 DEF RereadArticle

LEMMA CommitTyped ==
  ASSUME TypeInv, NEW h \in Handlers, Commit(h)
  PROVE  TypeInv'
<1>1. /\ at[h] = "storing" /\ UNCHANGED <<cache, rows>>
      /\ target' = [target EXCEPT ![h] = {}]
  BY DEF Commit
<1>2. DOMAIN target' = Handlers /\ target'[h] = {}
      /\ \A g \in Handlers \ {h} : target'[g] = target[g]
  BY <1>1 DEF TypeInv, HandlersTyped
<1>3. CASE Respond(h) /\ UNCHANGED <<tables, stranded, todo>>
  <2>1. HandlersTyped'
    BY <1>1, <1>2, <1>3, RespondTyped DEF TypeInv, Respond, Goto
  <2>2. TablesTyped' /\ CacheTyped'
    BY <1>1, <1>3, CacheTypedKept DEF TypeInv, TablesTyped, tables
  <2> QED
    BY <2>1, <2>2 DEF TypeInv
<1>4. ASSUME NEW s \in Sources, NEW fields \in Fields,
             sources' = [sources EXCEPT ![s] = fields],
             \/ /\ articles' = [articles EXCEPT ![s] = IF @ = {} THEN {{}} ELSE @]
                /\ stranded' = stranded \cup (Cached \cap ArticleKeys)
             \/ UNCHANGED <<articles, stranded>>,
             Invalidates(h, SourceKeys)
      PROVE  TypeInv'
  <2>1. HandlersTyped'
    BY <1>1, <1>2, <1>4, InvalidatesTyped DEF TypeInv, Keys
  <2>2. CacheTyped'
    BY <1>1, <1>4, CacheTypedKept DEF TypeInv
  <2>3. TablesTyped'
    <3> DEFINE States == {{}} \cup {{state} : state \in SUBSET Flags}
    <3>1. sources' \in [Sources -> {"none", "deleted"} \cup Fields]
      BY <1>4 DEF TypeInv, TablesTyped
    <3>2. articles \in [Sources -> States]
      BY DEF TypeInv, TablesTyped
    <3>3. {{}} \in States
      OBVIOUS
    <3>4. articles' \in [Sources -> States]
      BY <1>4, <3>2, <3>3
    <3> QED
      BY <3>1, <3>4 DEF TablesTyped
  <2> QED
    BY <2>1, <2>2, <2>3 DEF TypeInv
<1> QED
  BY <1>3, <1>4 DEF Commit

\* What a deletion by DeleteUser leaves of a handler: it ends with the last key.
LEMMA DeletingTyped ==
  ASSUME HandlersTyped, NEW h \in Handlers,
         todo' \in [Handlers -> SUBSET Keys], UNCHANGED <<target, rows>>,
         at[h] = "invalidate", at' = [at EXCEPT ![h] = "idle"]
  PROVE  HandlersTyped'
<1>1. at' \in [Handlers -> Steps]
  BY DEF HandlersTyped, Steps
<1>2. Holds(h)' /\ \A g \in Handlers \ {h} : at'[g] = at[g]
  BY DEF HandlersTyped, Holds
<1> QED
  BY <1>1, <1>2, OneMoves DEF HandlersTyped

LEMMA DeleteKeyTyped ==
  ASSUME TypeInv, NEW h \in Handlers, DeleteKey(h)
  PROVE  TypeInv'
<1>1. PICK k \in todo[h] :
        /\ cache' = [cache EXCEPT ![k] = {}]
        /\ stranded' = stranded \ {k}
        /\ todo' = [todo EXCEPT ![h] = todo[h] \ {k}]
        /\ \/ at' = at
           \/ at[h] = "invalidate" /\ at' = [at EXCEPT ![h] = "idle"]
        /\ UNCHANGED <<tables, target, rows>>
  BY DEF DeleteKey, DeletedBy, Respond, Goto
<1>2. HandlersTyped'
  <2>1. todo' \in [Handlers -> SUBSET Keys]
    BY <1>1 DEF TypeInv, HandlersTyped
  <2>2. CASE at' = at
    BY <1>1, <2>1, <2>2 DEF TypeInv, HandlersTyped, Holds
  <2>3. CASE at[h] = "invalidate" /\ at' = [at EXCEPT ![h] = "idle"]
    BY <1>1, <2>1, <2>3, DeletingTyped DEF TypeInv
  <2> QED
    BY <1>1, <2>2, <2>3
<1>3. CacheTyped'
  <2>1. k \in Keys
    BY <1>1 DEF TypeInv, HandlersTyped
  <2>2. /\ DOMAIN cache' = Keys /\ cache'[k] = {}
        /\ \A j \in Keys \ {k} : cache'[j] = cache[j]
    BY <1>1, <2>1 DEF TypeInv, CacheTyped
  <2>3. stranded' \subseteq Cached'
    BY <1>1, <2>2 DEF TypeInv, CacheTyped, Cached
  <2> QED
    BY <2>2, <2>3 DEF TypeInv, CacheTyped, EntryOf
<1> QED
  BY <1>1, <1>2, <1>3 DEF TypeInv, TablesTyped, tables

LEMMA AbortTyped ==
  ASSUME TypeInv, NEW h \in Handlers, Abort(h)
  PROVE  TypeInv'
<1>1. /\ stranded' \subseteq stranded \cup Cached
      /\ todo' = [todo EXCEPT ![h] = {}]
      /\ \/ at' = at
         \/ at[h] = "invalidate" /\ at' = [at EXCEPT ![h] = "idle"]
      /\ UNCHANGED <<sources, articles, cache, target, rows>>
  BY DEF Abort, Respond, Goto, tables
<1>2. HandlersTyped'
  <2>1. todo' \in [Handlers -> SUBSET Keys]
    BY <1>1 DEF TypeInv, HandlersTyped
  <2>2. CASE at' = at
    BY <1>1, <2>1, <2>2 DEF TypeInv, HandlersTyped, Holds
  <2>3. CASE at[h] = "invalidate" /\ at' = [at EXCEPT ![h] = "idle"]
    BY <1>1, <2>1, <2>3, DeletingTyped DEF TypeInv
  <2> QED
    BY <1>1, <2>2, <2>3
<1> QED
  BY <1>1, <1>2, CacheTypedKept DEF TypeInv, TablesTyped

LEMMA TickTyped ==
  ASSUME CacheTTL \in Nat \ {0}, TypeInv, Tick
  PROVE  TypeInv'
<1>1. UNCHANGED <<sources, articles, at, target, rows, todo>>
  BY DEF Tick, tables, local
<1>2. TablesTyped' /\ HandlersTyped'
  BY <1>1 DEF TypeInv, TablesTyped, HandlersTyped, Holds
<1>3. /\ cache' = [k \in Keys |-> {e \in {Aged(e) : e \in cache[k]} : e.left > 0}]
      /\ stranded' = {k \in stranded : cache'[k] # {}}
  BY DEF Tick
<1>4. ASSUME NEW k \in Keys
      PROVE  cache'[k] = {} \/ \E e : cache'[k] = {e} /\ EntryOf(k, e)
  <2>1. CASE cache[k] = {}
    BY <1>3, <2>1
  <2>2. ASSUME NEW e, cache[k] = {e}, EntryOf(k, e)
        PROVE  cache'[k] = {} \/ \E d : cache'[k] = {d} /\ EntryOf(k, d)
    <3>1. cache'[k] = {d \in {Aged(e)} : d.left > 0}
      BY <1>3, <2>2
    <3>2. Aged(e).left > 0 => EntryOf(k, Aged(e))
      <4>1. e.left \in 1..CacheTTL /\ e.rows \in ListsOf(k)
        BY <2>2 DEF EntryOf
      <4>2. Aged(e).left = e.left - 1 /\ Aged(e).rows = e.rows
        BY DEF Aged
      <4> QED
        BY <4>1, <4>2 DEF EntryOf
    <3>3. CASE Aged(e).left > 0
      <4>1. cache'[k] = {Aged(e)}
        BY <3>1, <3>3
      <4> QED
        BY <3>2, <3>3, <4>1
    <3>4. CASE ~(Aged(e).left > 0)
      BY <3>1, <3>4
    <3> QED
      BY <3>3, <3>4
  <2> QED
    BY <2>1, <2>2 DEF TypeInv, CacheTyped
<1>5. stranded' \subseteq Cached'
  BY <1>3 DEF TypeInv, CacheTyped, Cached
<1>6. CacheTyped'
  BY <1>3, <1>4, <1>5 DEF CacheTyped, EntryOf
<1> QED
  BY <1>2, <1>6 DEF TypeInv

LEMMA StepKeepsTypes ==
  ASSUME CacheTTL \in Nat \ {0}, TypeInv, [Next]_vars
  PROVE  TypeInv'
<1>1. ASSUME NEW h \in Handlers, SourceRequest(h) PROVE TypeInv'
  <2>1. ListSources(h) => TypeInv'
    BY GetListTyped DEF ListSources, Keys
  <2>2. ASSUME NEW s \in Sources,
               CreateSource(h, s) \/ UpdateSource(h, s) \/ DeleteSource(h, s)
        PROVE  TypeInv'
    BY <2>2, WriteSourceTyped, DeleteSourceTyped DEF CreateSource, UpdateSource
  <2> QED
    BY <1>1, <2>1, <2>2 DEF SourceRequest
<1>2. ASSUME NEW h \in Handlers, NEW s \in Sources, NEW f \in Flags, FindArticle(h, s, f)
      PROVE  TypeInv'
  <2>1. /\ at[h] = "idle" /\ target' = [target EXCEPT ![h] = {<<s, f>>}]
        /\ Goto(h, "upsert")
        /\ UNCHANGED <<sources, articles, cache, stranded, rows, todo>>
    BY <1>2 DEF FindArticle, tables, redis
  <2>2. HandlersTyped'
    <3>1. {<<s, f>>} \subseteq Sources \X Flags /\ todo' \in [Handlers -> SUBSET Keys]
      BY <2>1 DEF TypeInv, HandlersTyped
    <3> QED
      BY <2>1, <3>1, GoesOnTyped DEF TypeInv
  <2> QED
    BY <2>1, <2>2, CacheTypedKept DEF TypeInv, TablesTyped
<1>3. ASSUME NEW h \in Handlers, ListArticles(h) PROVE TypeInv'
  BY <1>3, GetListTyped DEF ListArticles, Keys
<1>4. ASSUME NEW h \in Handlers, NEW s \in Sources, SaveCollectedItems(h, s)
      PROVE  TypeInv'
  <2>1. /\ at[h] = "idle" /\ target' = [target EXCEPT ![h] = {<<s>>}]
        /\ todo' = [todo EXCEPT ![h] = ArticleKeys] /\ Goto(h, "storing")
        /\ UNCHANGED <<sources, articles, cache, stranded, rows>>
    BY <1>4 DEF SaveCollectedItems, tables, redis
  <2>2. todo' \in [Handlers -> SUBSET Keys] /\ {<<s>>} \subseteq {<<t>> : t \in Sources}
    BY <2>1 DEF TypeInv, HandlersTyped, Keys
  <2>3. HandlersTyped'
    BY <2>1, <2>2, GoesOnTyped DEF TypeInv
  <2> QED
    BY <2>1, <2>3, CacheTypedKept DEF TypeInv, TablesTyped
<1>5. ASSUME NEW h \in Handlers, Handle(h) PROVE TypeInv'
  BY <1>5, FillTyped, UpsertStateTyped, RereadTyped, CommitTyped, DeleteKeyTyped,
     AbortTyped DEF Handle
<1>6. CASE UNCHANGED vars
  <2>1. UNCHANGED <<sources, articles, cache, stranded, at, target, rows, todo>>
    BY <1>6 DEF vars, tables, redis, local
  <2> QED
    BY <2>1, CacheTypedKept DEF TypeInv, TablesTyped, HandlersTyped, Holds
<1> QED
  BY <1>1, <1>2, <1>3, <1>4, <1>5, <1>6, TickTyped DEF Next, ArticleRequest
=============================================================================
