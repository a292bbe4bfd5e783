----------------------------- MODULE Assistant -----------------------------
(***************************************************************************)
(* What a user asks of the assistant, and the settings it works with:      *)
(* internal/module/ai but for the queue of summaries (SummaryQueue).  A    *)
(* request reads articles, takes the assistant of the user's settings,     *)
(* calls it and stores what it returns; sources are deleted and settings   *)
(* saved meanwhile.  One action is one query, and the calls of the         *)
(* assistant, which change nothing, go with the query that follows.        *)
(*                                                                         *)
(* Each provider has one embedding model and version, known by its name;   *)
(* an article is its source's only one.                                    *)
(* Bound: MaxCalls requests but for saves in progress at a time.           *)
(***************************************************************************)
EXTENDS Naturals, FiniteSets

CONSTANTS
  Handlers,   \* requests in progress at a time
  Articles,
  ApiKeys,
  MaxCalls

VARIABLES
  settings,   \* {row of user_ai_settings} or {}
  given,      \* {the key last given} or {}, if it was removed
  crossed,    \* then, a save that keeps the key had read it before
  gone,       \* articles whose source is deleted
  vectors,    \* article_embeddings: article and model
  digest,     \* {articles of the day's digest} or {}
  task        \* handler -> {its request} or {}

rows == <<vectors, digest>>
saved == <<settings, given, crossed>>
vars == <<saved, gone, rows, task>>

Providers == {"local", "remote"}
Default == "local"
Secrets == {{}} \cup {{k} : k \in ApiKeys}

Init ==
  /\ settings = {} /\ given = {} /\ crossed = FALSE
  /\ gone = {}
  /\ vectors = {} /\ digest = {}
  /\ task = [h \in Handlers |-> {}]

Respond(h) == task' = [task EXCEPT ![h] = {}]
Goto(h, t) == task' = [task EXCEPT ![h] = {t}]

\* An error of a query or of the assistant, or the end of the process.
Fail(h) == task[h] # {} /\ Respond(h) /\ UNCHANGED <<saved, gone, rows>>

-----------------------------------------------------------------------------
(* UpdateAISettings.                                                       *)

StoredKey == UNION {row.key : row \in settings}

Saves(h) == \E t \in task[h] : t.step = "save"

\* The row is read for its key, which is kept unless the request has one: an
\* empty key removes it.
FindAISettings(h, provider) ==
  /\ task[h] = {}
  /\ \/ Goto(h, [step |-> "save", keeps |-> TRUE,
                 row |-> [provider |-> provider, key |-> StoredKey]])
     \/ \E key \in Secrets :
          Goto(h, [step |-> "save", keeps |-> FALSE,
                   row |-> [provider |-> provider, key |-> key]])
  /\ UNCHANGED <<saved, gone, rows>>

\* Whether the row can be read again for the answer makes no difference.
UpsertAISettings(h) ==
  /\ Saves(h)
  /\ \E t \in task[h] :
       /\ settings' = {t.row}
       /\ IF t.keeps
          THEN UNCHANGED <<given, crossed>>
          ELSE /\ given' = t.row.key
               /\ crossed' = \E o \in Handlers : \E u \in task[o] :
                               u.step = "save" /\ u.keeps
  /\ Respond(h)
  /\ UNCHANGED <<gone, rows>>

-----------------------------------------------------------------------------
(* The requests to the assistant.                                          *)

\* Mutant: articles of deleted sources are listed.
ListedAll(articles) == articles \subseteq Articles

\* The articles of some list: those of a source that is not deleted.
Listed(articles) == articles \subseteq Articles \ gone

\* old: what was gone when the request began.
Begin(h, kind, step, model, articles) ==
  /\ task[h] = {}
  /\ Cardinality({o \in Handlers : task[o] # {} /\ ~Saves(o)}) < MaxCalls
  /\ Listed(articles)
  /\ Goto(h, [step |-> step, kind |-> kind, model |-> model, inputs |-> articles,
              todo |-> {}, old |-> gone])
  /\ UNCHANGED <<saved, gone, rows>>

GenerateEmbedding(h, a) == Begin(h, "embedding", "assistant", Default, {a})

\* With a vector of the default model, or after generating one.
SimilarArticles(h, a) ==
  Begin(h, "similar", IF <<a, Default>> \in vectors THEN "retrieve" ELSE "assistant",
        Default, {a})

\* The twenty newest articles, that is all here.
GenerateDigest(h) ==
  Begin(h, "digest", "assistant", Default, {a \in Articles : Listed({a})})

RAGSearch(h) == Begin(h, "search", "assistant", Default, {})

\* The assistant of the settings; a remote one needs its key.
AssistantForUser(h) ==
  \E t \in task[h], provider \in Providers :
    /\ t.step = "assistant"
    /\ IF settings = {} THEN provider = Default
                        ELSE \E row \in settings : provider = row.provider
    /\ provider = "remote" => StoredKey # {}
    /\ Goto(h, [t EXCEPT !.model = provider,
                         !.step = IF t.kind = "search" THEN "retrieve" ELSE "store"])
    /\ UNCHANGED <<saved, gone, rows>>

\* Found again for the answer, or for the comparison, if the source is there.
UpsertEmbedding(h) ==
  \E t \in task[h] :
    /\ t.step = "store" /\ t.kind # "digest"
    /\ vectors' = vectors \cup (t.inputs \X {t.model})
    /\ IF t.kind = "similar" /\ t.inputs \cap gone = {}
       THEN Goto(h, [t EXCEPT !.step = "retrieve"])
       ELSE Respond(h)
    /\ UNCHANGED <<saved, gone, digest>>

\* Of two requests for a day's digest the later to write wins.
UpsertDigest(h) ==
  \E t \in task[h] :
    /\ t.step = "store" /\ t.kind = "digest"
    /\ digest' = {t.inputs}
    /\ Respond(h)
    /\ UNCHANGED <<saved, gone, vectors>>

\* ListEmbeddingsByUser; what is closest is looked up, the article asked about
\* is not.  A search whose query cannot be embedded goes on without vectors.
Retrieve(h) ==
  \E t \in task[h], closest \in SUBSET Articles :
    /\ t.step = "retrieve"
    /\ Listed(closest)
    /\ closest \X {t.model} \subseteq vectors
    /\ closest \cap t.inputs = {}
    /\ Goto(h, [t EXCEPT !.step = "find", !.todo = closest, !.inputs = {}])
    /\ UNCHANGED <<saved, gone, rows>>

\* An article that cannot be found any more is passed over.
FindArticle(h) ==
  \E t \in task[h], a \in Articles :
    /\ t.step = "find" /\ a \in t.todo
    /\ \/ Listed({a}) /\ Goto(h, [t EXCEPT !.todo = @ \ {a}, !.inputs = @ \cup {a}])
       \/ Goto(h, [t EXCEPT !.todo = @ \ {a}])
    /\ UNCHANGED <<saved, gone, rows>>

\* A search that has found nothing lists the articles that contain its words.
SearchArticles(h) ==
  \E t \in task[h], found \in SUBSET Articles :
    /\ t.step = "find" /\ t.kind = "search" /\ t.todo = {} /\ t.inputs = {}
    /\ Listed(found)
    /\ Goto(h, [t EXCEPT !.step = "answer", !.inputs = found])
    /\ UNCHANGED <<saved, gone, rows>>

\* The similar articles, or the assistant's answer from what was found.
Answer(h) ==
  /\ \E t \in task[h] :
       \/ t.step = "answer"
       \/ t.step = "find" /\ t.todo = {} /\ (t.kind = "similar" \/ t.inputs # {})
  /\ Respond(h)
  /\ UNCHANGED <<saved, gone, rows>>

DeleteSource(a) ==
  /\ a \notin gone
  /\ gone' = gone \cup {a}
  /\ UNCHANGED <<saved, rows, task>>

\* The handlers of the module; what only reads is left out.
Request(h) ==
  \/ \E provider \in Providers : FindAISettings(h, provider)
  \/ \E a \in Articles : GenerateEmbedding(h, a) \/ SimilarArticles(h, a)
  \/ GenerateDigest(h) \/ RAGSearch(h)

Handle(h) ==
  \/ UpsertAISettings(h) \/ AssistantForUser(h)
  \/ UpsertEmbedding(h) \/ UpsertDigest(h)
  \/ Retrieve(h) \/ FindArticle(h) \/ SearchArticles(h) \/ Answer(h)

Next ==
  \/ \E h \in Handlers : Request(h) \/ Handle(h) \/ Fail(h)
  \/ \E a \in Articles : DeleteSource(a)

Spec == Init /\ [][Next]_vars

-----------------------------------------------------------------------------
(* Properties.                                                             *)

\* The requests that can be in progress.
Saving ==
  [step : {"save"}, keeps : BOOLEAN, row : [provider : Providers, key : Secrets]]
Calling ==
  [step : {"assistant", "store", "retrieve", "find", "answer"},
   kind : {"embedding", "similar", "digest", "search"}, model : Providers,
   inputs : SUBSET Articles, todo : SUBSET Articles, old : SUBSET Articles]

\* Every variable stays in its domain.
TypeOK ==
  /\ settings \subseteq [provider : Providers, key : Secrets]
  /\ Cardinality(settings) <= 1
  /\ given \in Secrets
  /\ crossed \in BOOLEAN
  /\ gone \subseteq Articles
  /\ vectors \subseteq Articles \X Providers
  /\ digest \subseteq SUBSET Articles /\ Cardinality(digest) <= 1
  /\ \A h \in Handlers :
       Cardinality(task[h]) <= 1 /\ task[h] \subseteq Saving \cup Calling

\* What the user took away is not put to use again.  No request gives the assistant
\* an article whose source was deleted before it began, or makes an answer or a
\* digest of it, though its vector is still stored.  (A digest stored before is
\* handed back as it is by GetDigest, which only reads.)  And the key in the
\* settings is the last one given, whatever else is saved, but for a save that
\* had read the row before.
NothingComesBack ==
  /\ \A h \in Handlers : \A t \in task[h] : t.step # "save" => t.inputs \cap t.old = {}
  /\ crossed \/ StoredKey = given
=============================================================================
