------------------------------ MODULE Catalog ------------------------------
(***************************************************************************)
(* The sources and articles of one user, and their lists in Redis:         *)
(* internal/module/source and internal/module/article, used by concurrent  *)
(* requests, and the part of a collection that changes what they list.     *)
(* Lists are cached under one key per filter; a change of the tables       *)
(* deletes the user's keys one after the other (DeleteUser scans), and a   *)
(* list that misses reads the tables first and fills the cache later.      *)
(*                                                                         *)
(* One action is one transaction or one Redis call.  Every source has one  *)
(* article.  Time is relative: an entry has what is left of its TTL.       *)
(***************************************************************************)
EXTENDS Integers, FiniteSets

CONSTANTS
  Handlers,  \* requests and collections in progress at a time
  Sources,   \* source ids; the article collected from a source has its name
  Flags,     \* the flags a user sets on an article: read, saved
  CacheTTL

VARIABLES
  sources,   \* source -> "none", "deleted" or its visible fields
  articles,  \* source -> {the state of its stored article} or {}
  cache,     \* key -> {entry of Redis} or {}
  stranded,  \* keys of lists that only their TTL will remove
  at,        \* handler -> its next step
  target,    \* handler -> the source, the article or the key it is about
  rows,      \* handler -> the list it read
  todo       \* handler -> keys DeleteUser has still to delete

tables == <<sources, articles>>
redis == <<cache, stranded>>
local == <<target, rows, todo>>
vars == <<tables, redis, at, local>>

\* The fields a list shows, the name or the last fetch: one of two values.
Fields == {"v1", "v2"}

\* One list of sources; the articles unfiltered, and by each flag.
SourceKeys == {<<"sources">>}
ArticleKeys == {<<"articles", filter>> : filter \in {{}} \cup {{f} : f \in Flags}}
Keys == SourceKeys \cup ArticleKeys

Live(s) == sources[s] \in Fields
Visible(s) == Live(s) /\ articles[s] # {}

\* ListByUserID.
SourceList == {<<s, sources[s]>> : s \in {s \in Sources : Live(s)}}

\* applyArticleFilters.
Passes(state, filter) == filter \subseteq state

\* Mutant: the articles of deleted sources are listed.
ArticleListOfAll(filter) ==
  {<<s, articles[s]>> : s \in {s \in Sources :
     \A state \in articles[s] : Passes(state, filter)}}

\* ListByUser.
ArticleList(filter) ==
  {<<s, articles[s]>> : s \in {s \in Sources :
     Visible(s) /\ \A state \in articles[s] : Passes(state, filter)}}

List(k) == IF k \in SourceKeys THEN SourceList ELSE ArticleList(k[2])

Steps == {"idle", "fill", "upsert", "reread", "invalidate", "storing"}

Init ==
  /\ sources = [s \in Sources |-> "none"]
  /\ articles = [s \in Sources |-> {}]
  /\ cache = [k \in Keys |-> {}]
  /\ stranded = {}
  /\ at = [h \in Handlers |-> "idle"]
  /\ target = [h \in Handlers |-> {}]
  /\ rows = [h \in Handlers |-> {}]
  /\ todo = [h \in Handlers |-> {}]

Goto(h, step) == at' = [at EXCEPT ![h] = step]

\* The handler answers, whether it is done or something failed.
Respond(h) == Goto(h, "idle")

\* deleteUserListCache comes next.
Invalidates(h, keys) ==
  /\ todo' = [todo EXCEPT ![h] = keys]
  /\ Goto(h, "invalidate")

Cached == {k \in Keys : cache[k] # {}}

-----------------------------------------------------------------------------
(* ListSources and ListArticles.                                           *)

\* GetList: a hit answers and changes nothing; after a miss, or an error, the
\* tables are read.  Nothing depends on what happens between the two.
GetList(h, k) ==
  /\ at[h] = "idle"
  /\ target' = [target EXCEPT ![h] = {k}]
  /\ rows' = [rows EXCEPT ![h] = List(k)]
  /\ Goto(h, "fill")
  /\ UNCHANGED <<tables, redis, todo>>

ListSources(h) == \E k \in SourceKeys : GetList(h, k)
ListArticles(h) == \E k \in ArticleKeys : GetList(h, k)

\* Requests that are about to delete the entry of k.
Pending(k) ==
  \E h \in Handlers : k \in todo[h] \/ (at[h] = "reread" /\ k \in ArticleKeys)

\* SetList.  A list read before a change may be put back after the change
\* deleted it.
SetList(h, k) ==
  /\ cache' = [cache EXCEPT ![k] = {[rows |-> rows[h], left |-> CacheTTL]}]
  /\ stranded' = IF rows[h] # List(k) /\ ~Pending(k)
                 THEN stranded \cup {k} ELSE stranded \ {k}

Fill(h) ==
  /\ at[h] = "fill"
  /\ (\E k \in target[h] : SetList(h, k)) \/ UNCHANGED redis
  /\ Respond(h)
  /\ target' = [target EXCEPT ![h] = {}]
  /\ rows' = [rows EXCEPT ![h] = {}]
  /\ UNCHANGED <<tables, todo>>

-----------------------------------------------------------------------------
(* Changes of sources.                                                     *)

\* CreateSource and UpdateSource.  Invalid input, a duplicate URL and a source
\* that is gone change nothing.
WriteSource(h, s, from) ==
  /\ at[h] = "idle"
  /\ sources[s] \in from
  /\ \E fields \in Fields : sources' = [sources EXCEPT ![s] = fields]
  /\ Invalidates(h, SourceKeys)
  /\ UNCHANGED <<articles, redis, target, rows>>

CreateSource(h, s) == WriteSource(h, s, {"none"})
UpdateSource(h, s) == WriteSource(h, s, Fields)

\* The lists of articles, which lose the articles of s, are left alone.
DeleteSource(h, s) ==
  /\ at[h] = "idle"
  /\ Live(s)
  /\ sources' = [sources EXCEPT ![s] = "deleted"]
  /\ Invalidates(h, SourceKeys)
  /\ stranded' = stranded \cup (Cached \cap ArticleKeys)
  /\ UNCHANGED <<articles, cache, target, rows>>

-----------------------------------------------------------------------------
(* UpdateState: MarkRead and Save.                                         *)

FindArticle(h, s, f) ==
  /\ at[h] = "idle"
  /\ Visible(s)
  /\ target' = [target EXCEPT ![h] = {<<s, f>>}]
  /\ Goto(h, "upsert")
  /\ UNCHANGED <<tables, redis, rows, todo>>

\* ON CONFLICT updates the columns of the flag, and no other.
WithFlag(states, f, on) ==
  {IF on THEN state \cup {f} ELSE state \ {f} : state \in states}

UpsertState(h) ==
  /\ at[h] = "upsert"
  /\ \/ /\ \E s \in Sources, f \in Flags, on \in BOOLEAN :
             /\ <<s, f>> \in target[h]
             /\ articles' = [articles EXCEPT ![s] = WithFlag(@, f, on)]
             /\ target' = [target EXCEPT ![h] = {<<s>>}]
        /\ Goto(h, "reread")
     \/ /\ Respond(h)
        /\ target' = [target EXCEPT ![h] = {}]
        /\ UNCHANGED articles
  /\ UNCHANGED <<sources, redis, rows, todo>>

\* The row is read again for the answer: if that fails, or the source is gone,
\* UpdateState returns without touching the cache.
RereadArticle(h) ==
  /\ at[h] = "reread"
  /\ \/ /\ \A s \in Sources : <<s>> \in target[h] => Visible(s)
        /\ Invalidates(h, ArticleKeys)
        /\ UNCHANGED stranded
     \/ /\ Respond(h)
        /\ stranded' = stranded \cup (Cached \cap ArticleKeys)
        /\ UNCHANGED todo
  /\ target' = [target EXCEPT ![h] = {}]
  /\ UNCHANGED <<tables, cache, rows>>

-----------------------------------------------------------------------------
(* A collection.  SaveCollectedItems deletes the lists of articles inside   *)
(* the transaction, before the articles are visible to anyone.              *)

SaveCollectedItems(h, s) ==
  /\ at[h] = "idle"
  /\ Live(s)
  /\ target' = [target EXCEPT ![h] = {<<s>>}]
  /\ todo' = [todo EXCEPT ![h] = ArticleKeys]
  /\ Goto(h, "storing")
  /\ UNCHANGED <<tables, redis, rows>>

\* The transaction ends; Update finds the source still there, or rolls back.
\* What is listed of the source changes in both cases: a failed run is noted.
Commit(h) ==
  /\ at[h] = "storing"
  /\ todo[h] = {}
  /\ \/ /\ \E s \in Sources :
             /\ <<s>> \in target[h]
             /\ Live(s)
             /\ \E fields \in Fields : sources' = [sources EXCEPT ![s] = fields]
             /\ \/ /\ articles' = [articles EXCEPT ![s] = IF @ = {} THEN {{}} ELSE @]
                   /\ stranded' = stranded \cup (Cached \cap ArticleKeys)
                \/ UNCHANGED <<articles, stranded>>
        /\ Invalidates(h, SourceKeys)
     \/ /\ Respond(h)
        /\ UNCHANGED <<tables, stranded, todo>>
  /\ target' = [target EXCEPT ![h] = {}]
  /\ UNCHANGED <<cache, rows>>

-----------------------------------------------------------------------------
(* DeleteUser.                                                             *)

\* Mutant: only the unfiltered list is deleted.
DeletedByUnfiltered(keys) == {k \in keys : \A f \in Flags : k # <<"articles", {f}>>}

\* The pattern of DeleteUser matches every filter.
DeletedBy(keys) == keys

\* One key the scan found, or none under it.
DeleteKey(h) ==
  /\ \E k \in todo[h] :
       /\ cache' = [cache EXCEPT ![k] = IF k \in DeletedBy(todo[h]) THEN {} ELSE @]
       /\ stranded' = IF k \in DeletedBy(todo[h]) THEN stranded \ {k} ELSE stranded
       /\ todo' = [todo EXCEPT ![h] = @ \ {k}]
       /\ IF at[h] = "invalidate" /\ todo[h] = {k} THEN Respond(h) ELSE UNCHANGED at
  /\ UNCHANGED <<tables, target, rows>>

\* Redis fails, the request is cancelled or the process dies: the remaining
\* keys are not deleted, and the error is ignored.
Abort(h) ==
  /\ todo[h] # {}
  /\ stranded' = stranded \cup (todo[h] \cap Cached)
  /\ todo' = [todo EXCEPT ![h] = {}]
  /\ IF at[h] = "invalidate" THEN Respond(h) ELSE UNCHANGED at
  /\ UNCHANGED <<tables, cache, target, rows>>

Aged(entry) == [rows |-> entry.rows, left |-> entry.left - 1]

Tick ==
  /\ cache' = [k \in Keys |-> {e \in {Aged(e) : e \in cache[k]} : e.left > 0}]
  /\ stranded' = {k \in stranded : cache'[k] # {}}
  /\ UNCHANGED <<tables, at, local>>

\* The handlers of the two modules; reading one source or article changes
\* nothing.
SourceRequest(h) ==
  \/ ListSources(h)
  \/ \E s \in Sources : CreateSource(h, s) \/ UpdateSource(h, s) \/ DeleteSource(h, s)

ArticleRequest(h) ==
  \/ ListArticles(h)
  \/ \E s \in Sources, f \in Flags : FindArticle(h, s, f)

Handle(h) ==
  \/ Fill(h) \/ UpsertState(h) \/ RereadArticle(h)
  \/ Commit(h) \/ DeleteKey(h) \/ Abort(h)

Next ==
  \/ \E h \in Handlers :
       \/ SourceRequest(h) \/ ArticleRequest(h) \/ Handle(h)
       \/ \E s \in Sources : SaveCollectedItems(h, s)
  \/ Tick

Spec == Init /\ [][Next]_vars

-----------------------------------------------------------------------------
(* Properties.                                                             *)

ListsOf(k) ==
  SUBSET (Sources \X (IF k \in SourceKeys THEN Fields ELSE {{s} : s \in SUBSET Flags}))

\* Every variable stays in its domain.
TypeOK ==
  /\ sources \in [Sources -> {"none", "deleted"} \cup Fields]
  /\ articles \in [Sources -> {{}} \cup {{state} : state \in SUBSET Flags}]
  /\ \A k \in Keys : \A e \in cache[k] : e.rows \in ListsOf(k) /\ e.left \in 1..CacheTTL
  /\ \A k \in Keys : Cardinality(cache[k]) <= 1
  /\ stranded \subseteq Cached
  /\ at \in [Handlers -> Steps]
  /\ \A h \in Handlers :
       target[h] \subseteq CASE at[h] = "fill" -> Keys
                             [] at[h] = "upsert" -> Sources \X Flags
                             [] at[h] \in {"reread", "storing"} -> {<<s>> : s \in Sources}
                             [] OTHER -> {}
  /\ \A h \in Handlers :
       IF at[h] = "fill" THEN \A k \in target[h] : rows[h] \in ListsOf(k)
                         ELSE rows[h] = {}
  /\ todo \in [Handlers -> SUBSET Keys]

Stale(k) == \E e \in cache[k] : e.rows # List(k)

\* A cached list that differs from the tables is about to be deleted by the
\* request that changed them, unless a list that was being read put it back, a
\* deletion was cut short, or the change is one of the two that delete too
\* early or nothing: a collection and the deletion of a source.
StaleIsPending == \A k \in Keys : Stale(k) /\ k \notin stranded => Pending(k)
=============================================================================
