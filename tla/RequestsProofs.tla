--------------------------- MODULE RequestsProofs ---------------------------
(***************************************************************************)
(* The four kinds of requests together.  What SessionsProofs and           *)
(* CatalogProofs show of sessions and of lists is shown here of the        *)
(* behaviours of Requests; what holds of the dead letters and of the       *)
(* assistant is proved here, over the instances Dead and AI.               *)
(***************************************************************************)
EXTENDS Requests, SessionsProofs, FiniteSetTheorems

-----------------------------------------------------------------------------
(* The assistant.  NothingComesBack is not inductive: an article a request  *)
(* may still be given must not have been gone when it began, and a save     *)
(* that keeps the key carries the key it will store.                        *)

\* What the assistant's variables range over; a request is one record.
Assisting ==
  /\ \/ settings = {}
     \/ \E row \in [provider : AI!Providers, key : AI!Secrets] : settings = {row}
  /\ given \in AI!Secrets /\ crossed \in BOOLEAN
  /\ gone \subseteq Articles
  /\ vectors \subseteq Articles \X AI!Providers
  /\ digest = {} \/ \E articlesOfDay \in SUBSET Articles : digest = {articlesOfDay}
  /\ DOMAIN task = Handlers
  /\ \A h \in Handlers :
       task[h] = {} \/ \E t \in AI!Saving \cup AI!Calling : task[h] = {t}

\* What was gone when a request began is still gone, and not among its inputs.
GoneIsLeftOut ==
  \A h \in Handlers : \A t \in task[h] :
    t.step # "save" => t.old \subseteq gone /\ t.inputs \cap t.old = {}

\* The key last given is in the row, and in the hands of those who keep it.
LastKeyIsKept ==
  ~crossed =>
    /\ AI!StoredKey = given
    /\ \A h \in Handlers : \A t \in task[h] :
         t.step = "save" /\ t.keeps => t.row.key = given

AIInv == Assisting /\ GoneIsLeftOut /\ LastKeyIsKept

LEMMA AtMostOne ==
  ASSUME NEW S, S = {} \/ \E x : S = {x}
  PROVE  AI!Cardinality(S) <= 1
<1>1. Cardinality(S) \in {0, 1}
  BY FS_Singleton, FS_EmptySet
<1>2. AI!Cardinality(S) = Cardinality(S)
  BY DEF AI!Cardinality, Cardinality
<1> QED
  BY <1>1, <1>2

LEMMA AIInvImplies == AIInv => AI!NothingComesBack /\ AI!TypeOK
<1> SUFFICES ASSUME AIInv PROVE AI!NothingComesBack /\ AI!TypeOK
  OBVIOUS
<1>1. AI!NothingComesBack
  BY DEF AIInv, GoneIsLeftOut, LastKeyIsKept, AI!NothingComesBack
<1>2. /\ settings \subseteq [provider : AI!Providers, key : AI!Secrets]
      /\ AI!Cardinality(settings) <= 1
  BY AtMostOne DEF AIInv, Assisting
<1>3. digest \subseteq SUBSET Articles /\ AI!Cardinality(digest) <= 1
  BY AtMostOne DEF AIInv, Assisting
<1>4. \A h \in Handlers :
        AI!Cardinality(task[h]) <= 1 /\ task[h] \subseteq AI!Saving \cup AI!Calling
  BY AtMostOne DEF AIInv, Assisting
<1> QED
  BY <1>1, <1>2, <1>3, <1>4 DEF AIInv, Assisting, AI!TypeOK

LEMMA AIInvInit == AI!Init => AIInv
<1> SUFFICES ASSUME AI!Init PROVE AIInv
  OBVIOUS
<1>1. AI!StoredKey = {}
  BY DEF AI!Init, AI!StoredKey
<1> QED
  BY <1>1 DEF AI!Init, AIInv, Assisting, GoneIsLeftOut, LastKeyIsKept, AI!Secrets

\* The key of the one row, or none.
LEMMA StoredKeys ==
  /\ settings = {} => AI!StoredKey = {}
  /\ \A row : settings = {row} => AI!StoredKey = row.key
  /\ Assisting => AI!StoredKey \in AI!Secrets
<1>1. settings = {} => AI!StoredKey = {}
  BY DEF AI!StoredKey
<1>2. \A row : settings = {row} => AI!StoredKey = row.key
  BY DEF AI!StoredKey
<1> QED
  BY <1>1, <1>2 DEF Assisting, AI!Secrets

\* A request to the assistant ends, or goes on with articles that were there
\* when it began.
LEMMA RequestGoesOn ==
  ASSUME AIInv, NEW h \in Handlers, NEW T,
         T = {} \/ \E t \in AI!Calling :
           /\ T = {t}
           /\ t.old \subseteq gone /\ t.inputs \cap t.old = {},
         task' = [task EXCEPT ![h] = T],
         UNCHANGED <<settings, given, crossed, gone>>,
         vectors' \subseteq Articles \X AI!Providers,
         digest' = {} \/ \E D \in SUBSET Articles : digest' = {D}
  PROVE  AIInv'
<1>1. /\ DOMAIN task' = Handlers /\ task'[h] = T
      /\ \A o \in Handlers \ {h} : task'[o] = task[o]
  BY DEF AIInv, Assisting
<1>2. \A t \in AI!Calling : t.step # "save"
  BY DEF AI!Calling
<1>3. Assisting'
  BY <1>1 DEF AIInv, Assisting
<1>4. GoneIsLeftOut'
  BY <1>1 DEF AIInv, GoneIsLeftOut
<1>5. LastKeyIsKept'
  <2>1. \A t \in T : t.step # "save"
    BY <1>2
  <2>2. AI!StoredKey' = AI!StoredKey
    BY DEF AI!StoredKey
  <2> QED
    BY <1>1, <2>1, <2>2 DEF AIInv, LastKeyIsKept
<1> QED
  BY <1>3, <1>4, <1>5 DEF AIInv

\* A request begins with articles that are there.
LEMMA BeginKeeps ==
  ASSUME AIInv, NEW h \in Handlers, NEW kind \in {"embedding", "similar", "digest", "search"},
         NEW step \in {"assistant", "retrieve"}, NEW articlesAsked,
         AI!Begin(h, kind, step, AI!Default, articlesAsked)
  PROVE  AIInv'
<1> DEFINE t == [step |-> step, kind |-> kind, model |-> AI!Default,
                 inputs |-> articlesAsked, todo |-> {}, old |-> gone]
<1>1. articlesAsked \subseteq Articles \ gone
  BY DEF AI!Begin, AI!Listed
<1>2. AI!Default \in AI!Providers /\ gone \subseteq Articles
  BY DEF AI!Default, AI!Providers, AIInv, Assisting
<1>3. t \in AI!Calling
  BY <1>1, <1>2 DEF AI!Calling
<1>4. t.old \subseteq gone /\ t.inputs \cap t.old = {}
  BY <1>1
<1>5. /\ task' = [task EXCEPT ![h] = {t}]
      /\ UNCHANGED <<settings, given, crossed, gone, vectors, digest>>
  BY DEF AI!Begin, AI!Goto, AI!saved, AI!rows
<1> HIDE DEF t
<1> QED
  BY <1>3, <1>4, <1>5, RequestGoesOn DEF AIInv, Assisting

\* What the record of a request in progress is.
LEMMA InProgress ==
  ASSUME AIInv, NEW h \in Handlers, NEW t \in task[h], t.step # "save"
  PROVE  /\ t \in AI!Calling
         /\ t.old \subseteq gone /\ t.inputs \cap t.old = {}
         /\ t.inputs \subseteq Articles /\ t.model \in AI!Providers
         /\ t.todo \subseteq Articles
<1>1. t \in AI!Saving \cup AI!Calling
  BY DEF AIInv, Assisting
<1>2. t \in AI!Calling
  BY <1>1 DEF AI!Saving
<1>3. t.inputs \subseteq Articles /\ t.model \in AI!Providers /\ t.todo \subseteq Articles
  BY <1>2 DEF AI!Calling
<1> QED
  BY <1>2, <1>3 DEF AIInv, GoneIsLeftOut

\* A request in progress moves on with other inputs.
LEMMA MovesOn ==
  ASSUME AIInv, NEW h \in Handlers, NEW t \in task[h], t.step # "save",
         NEW u, DOMAIN u = DOMAIN t, u.kind = t.kind, u.old = t.old,
         u = [t EXCEPT !.step = u.step, !.model = u.model,
                       !.inputs = u.inputs, !.todo = u.todo],
         u.step \in {"assistant", "store", "retrieve", "find", "answer"},
         u.model \in AI!Providers, u.inputs \subseteq Articles, u.todo \subseteq Articles,
         u.inputs \cap t.old = {},
         task' = [task EXCEPT ![h] = {u}],
         UNCHANGED <<settings, given, crossed, gone, digest>>,
         vectors' \subseteq Articles \X AI!Providers
  PROVE  AIInv'
<1>1. t \in AI!Calling /\ t.old \subseteq gone
  BY InProgress
<1>2. u \in AI!Calling
  BY <1>1 DEF AI!Calling
<1>3. u.old \subseteq gone /\ u.inputs \cap u.old = {}
  BY <1>1
<1> QED
  BY <1>2, <1>3, RequestGoesOn DEF AIInv, Assisting

LEMMA AssistantForUserKeeps ==
  ASSUME AIInv, NEW h \in Handlers, AI!AssistantForUser(h)
  PROVE  AIInv'
<1>1. PICK t \in task[h], provider \in AI!Providers :
        /\ t.step = "assistant"
        /\ AI!Goto(h, [t EXCEPT !.model = provider,
                         !.step = IF t.kind = "search" THEN "retrieve" ELSE "store"])
        /\ UNCHANGED <<settings, given, crossed, gone, vectors, digest>>
  BY DEF AI!AssistantForUser, AI!saved, AI!rows
<1> DEFINE step == IF t.kind = "search" THEN "retrieve" ELSE "store"
           u == [t EXCEPT !.model = provider, !.step = step]
<1>2. /\ t \in AI!Calling /\ t.inputs \subseteq Articles /\ t.todo \subseteq Articles
      /\ t.inputs \cap t.old = {}
  BY <1>1, InProgress
<1>3. /\ DOMAIN u = DOMAIN t /\ u.kind = t.kind /\ u.old = t.old
      /\ u.step = step /\ u.model = provider /\ u.inputs = t.inputs /\ u.todo = t.todo
      /\ u = [t EXCEPT !.step = u.step, !.model = u.model,
                       !.inputs = u.inputs, !.todo = u.todo]
  BY <1>2 DEF AI!Calling
<1>4. step \in {"assistant", "store", "retrieve", "find", "answer"}
  OBVIOUS
<1>5. task' = [task EXCEPT ![h] = {u}]
  BY <1>1 DEF AI!Goto
<1> HIDE DEF step, u
<1>6. vectors' \subseteq Articles \X AI!Providers
  BY <1>1 DEF AIInv, Assisting
<1> QED
  BY <1>1, <1>2, <1>3, <1>4, <1>5, <1>6, MovesOn

LEMMA UpsertEmbeddingKeeps ==
  ASSUME AIInv, NEW h \in Handlers, AI!UpsertEmbedding(h)
  PROVE  AIInv'
<1>1. PICK t \in task[h] :
        /\ t.step = "store"
        /\ vectors' = vectors \cup (t.inputs \X {t.model})
        /\ \/ AI!Goto(h, [t EXCEPT !.step = "retrieve"])
           \/ AI!Respond(h)
        /\ UNCHANGED <<settings, given, crossed, gone, digest>>
  BY DEF AI!UpsertEmbedding, AI!saved
<1>2. /\ t \in AI!Calling /\ t.inputs \subseteq Articles /\ t.todo \subseteq Articles
      /\ t.inputs \cap t.old = {} /\ t.model \in AI!Providers
  BY <1>1, InProgress
<1>3. vectors' \subseteq Articles \X AI!Providers
  BY <1>1, <1>2 DEF AIInv, Assisting
<1>4. CASE AI!Respond(h)
  BY <1>1, <1>3, <1>4, RequestGoesOn DEF AI!Respond, AIInv, Assisting
<1>5. CASE AI!Goto(h, [t EXCEPT !.step = "retrieve"])
  <2> DEFINE u == [t EXCEPT !.step = "retrieve"]
  <2>1. /\ DOMAIN u = DOMAIN t /\ u.kind = t.kind /\ u.old = t.old
        /\ u.step = "retrieve" /\ u.model = t.model
        /\ u.inputs = t.inputs /\ u.todo = t.todo
        /\ u = [t EXCEPT !.step = u.step, !.model = u.model,
                         !.inputs = u.inputs, !.todo = u.todo]
    BY <1>2 DEF AI!Calling
  <2>2. task' = [task EXCEPT ![h] = {u}]
    BY <1>5 DEF AI!Goto
  <2> HIDE DEF u
  <2> QED
    BY <1>1, <1>2, <1>3, <2>1, <2>2, MovesOn
<1> QED
  BY <1>1, <1>4, <1>5

LEMMA RetrieveKeeps ==
  ASSUME AIInv, NEW h \in Handlers, AI!Retrieve(h)
  PROVE  AIInv'
<1>1. PICK t \in task[h], closest \in SUBSET Articles :
        /\ t.step = "retrieve"
        /\ AI!Goto(h, [t EXCEPT !.step = "find", !.todo = closest, !.inputs = {}])
        /\ UNCHANGED <<settings, given, crossed, gone, vectors, digest>>
  BY DEF AI!Retrieve, AI!saved, AI!rows
<1> DEFINE u == [t EXCEPT !.step = "find", !.todo = closest, !.inputs = {}]
<1>2. t \in AI!Calling /\ t.model \in AI!Providers
  BY <1>1, InProgress
<1>3. /\ DOMAIN u = DOMAIN t /\ u.kind = t.kind /\ u.old = t.old
      /\ u.step = "find" /\ u.model = t.model /\ u.inputs = {} /\ u.todo = closest
      /\ u = [t EXCEPT !.step = u.step, !.model = u.model,
                       !.inputs = u.inputs, !.todo = u.todo]
  BY <1>2 DEF AI!Calling
<1>4. task' = [task EXCEPT ![h] = {u}]
  BY <1>1 DEF AI!Goto
<1> HIDE DEF u
<1>5. vectors' \subseteq Articles \X AI!Providers
  BY <1>1 DEF AIInv, Assisting
<1>6. u.inputs \subseteq Articles /\ u.todo \subseteq Articles /\ u.inputs \cap t.old = {}
  BY <1>3
<1> QED
  BY <1>1, <1>2, <1>3, <1>4, <1>5, <1>6, MovesOn

LEMMA FindArticleKeeps ==
  ASSUME AIInv, NEW h \in Handlers, AI!FindArticle(h)
  PROVE  AIInv'
<1>1. PICK t \in task[h], a \in Articles :
        /\ t.step = "find"
        /\ \/ /\ AI!Listed({a})
              /\ AI!Goto(h, [t EXCEPT !.todo = @ \ {a}, !.inputs = @ \cup {a}])
           \/ AI!Goto(h, [t EXCEPT !.todo = @ \ {a}])
        /\ UNCHANGED <<settings, given, crossed, gone, vectors, digest>>
  BY DEF AI!FindArticle, AI!saved, AI!rows
<1>2. /\ t \in AI!Calling /\ t.model \in AI!Providers
      /\ t.inputs \subseteq Articles /\ t.todo \subseteq Articles
      /\ t.inputs \cap t.old = {} /\ t.old \subseteq gone
  BY <1>1, InProgress
<1>3. PICK added \in SUBSET {a} :
        /\ added # {} => a \notin gone
        /\ AI!Goto(h, [t EXCEPT !.todo = t.todo \ {a}, !.inputs = t.inputs \cup added])
  <2>1. CASE AI!Listed({a}) /\ AI!Goto(h, [t EXCEPT !.todo = @ \ {a}, !.inputs = @ \cup {a}])
    BY <2>1 DEF AI!Listed
  <2>2. CASE AI!Goto(h, [t EXCEPT !.todo = @ \ {a}])
    <3>1. [t EXCEPT !.todo = t.todo \ {a}]
          = [t EXCEPT !.todo = t.todo \ {a}, !.inputs = t.inputs \cup {}]
      BY <1>2 DEF AI!Calling
    <3> QED
      BY <2>2, <3>1
  <2> QED
    BY <1>1, <2>1, <2>2
<1> DEFINE u == [t EXCEPT !.todo = t.todo \ {a}, !.inputs = t.inputs \cup added]
<1>4. /\ DOMAIN u = DOMAIN t /\ u.kind = t.kind /\ u.old = t.old
      /\ u.step = "find" /\ u.model = t.model
      /\ u.inputs = t.inputs \cup added /\ u.todo = t.todo \ {a}
      /\ u = [t EXCEPT !.step = u.step, !.model = u.model,
                       !.inputs = u.inputs, !.todo = u.todo]
  BY <1>1, <1>2 DEF AI!Calling
<1>5. task' = [task EXCEPT ![h] = {u}]
  BY <1>3 DEF AI!Goto
<1> HIDE DEF u
<1>6. /\ u.inputs \subseteq Articles /\ u.todo \subseteq Articles
      /\ u.inputs \cap t.old = {}
  BY <1>2, <1>3, <1>4
<1>7. vectors' \subseteq Articles \X AI!Providers
  BY <1>1 DEF AIInv, Assisting
<1> QED
  BY <1>1, <1>2, <1>4, <1>5, <1>6, <1>7, MovesOn

LEMMA SearchArticlesKeeps ==
  ASSUME AIInv, NEW h \in Handlers, AI!SearchArticles(h)
  PROVE  AIInv'
<1>1. PICK t \in task[h], found \in SUBSET Articles :
        /\ t.step = "find"
        /\ AI!Listed(found)
        /\ AI!Goto(h, [t EXCEPT !.step = "answer", !.inputs = found])
        /\ UNCHANGED <<settings, given, crossed, gone, vectors, digest>>
  BY DEF AI!SearchArticles, AI!saved, AI!rows
<1> DEFINE u == [t EXCEPT !.step = "answer", !.inputs = found]
<1>2. /\ t \in AI!Calling /\ t.model \in AI!Providers /\ t.todo \subseteq Articles
      /\ t.old \subseteq gone
  BY <1>1, InProgress
<1>3. /\ DOMAIN u = DOMAIN t /\ u.kind = t.kind /\ u.old = t.old
      /\ u.step = "answer" /\ u.model = t.model /\ u.inputs = found /\ u.todo = t.todo
      /\ u = [t EXCEPT !.step = u.step, !.model = u.model,
                       !.inputs = u.inputs, !.todo = u.todo]
  BY <1>2 DEF AI!Calling
<1>4. task' = [task EXCEPT ![h] = {u}]
  BY <1>1 DEF AI!Goto
<1> HIDE DEF u
<1>5. found \cap t.old = {}
  BY <1>1, <1>2 DEF AI!Listed
<1>6. vectors' \subseteq Articles \X AI!Providers
  BY <1>1 DEF AIInv, Assisting
<1> QED
  BY <1>1, <1>2, <1>3, <1>4, <1>5, <1>6, MovesOn

LEMMA UpsertDigestKeeps ==
  ASSUME AIInv, NEW h \in Handlers, AI!UpsertDigest(h)
  PROVE  AIInv'
<1>1. PICK t \in task[h] :
        /\ t.step = "store"
        /\ digest' = {t.inputs}
        /\ task' = [task EXCEPT ![h] = {}]
        /\ UNCHANGED <<settings, given, crossed, gone, vectors>>
  BY DEF AI!UpsertDigest, AI!Respond, AI!saved
<1>2. t.inputs \in SUBSET Articles
  BY <1>1, InProgress
<1>3. vectors' \subseteq Articles \X AI!Providers
  BY <1>1 DEF AIInv, Assisting
<1> QED
  BY <1>1, <1>2, <1>3, RequestGoesOn

\* The answer, or the end, of any request.
LEMMA EndKeeps ==
  ASSUME AIInv, NEW h \in Handlers, AI!Answer(h) \/ AI!Fail(h)
  PROVE  AIInv'
<1>1. /\ task' = [task EXCEPT ![h] = {}]
      /\ UNCHANGED <<settings, given, crossed, gone, vectors, digest>>
  BY DEF AI!Answer, AI!Fail, AI!Respond, AI!saved, AI!rows
<1> QED
  BY <1>1, RequestGoesOn DEF AIInv, Assisting

LEMMA FindAISettingsKeeps ==
  ASSUME AIInv, NEW h \in Handlers, NEW provider \in AI!Providers,
         AI!FindAISettings(h, provider)
  PROVE  AIInv'
<1>1. PICK keeps \in BOOLEAN, key \in AI!Secrets :
        /\ keeps => key = AI!StoredKey
        /\ task' = [task EXCEPT ![h] = {[step |-> "save", keeps |-> keeps,
                                         row |-> [provider |-> provider, key |-> key]]}]
  BY StoredKeys DEF AI!FindAISettings, AI!Goto, AIInv
<1>2. UNCHANGED <<settings, given, crossed, gone, vectors, digest>>
  BY DEF AI!FindAISettings, AI!saved, AI!rows
<1> DEFINE t == [step |-> "save", keeps |-> keeps,
                 row |-> [provider |-> provider, key |-> key]]
<1>3. t \in AI!Saving /\ t.step = "save" /\ t.keeps = keeps /\ t.row.key = key
  BY DEF AI!Saving
<1>4. /\ DOMAIN task' = Handlers /\ task'[h] = {t}
      /\ \A o \in Handlers \ {h} : task'[o] = task[o]
  BY <1>1 DEF AIInv, Assisting
<1> HIDE DEF t
<1>5. Assisting'
  BY <1>2, <1>3, <1>4 DEF AIInv, Assisting
<1>6. GoneIsLeftOut'
  BY <1>2, <1>3, <1>4 DEF AIInv, GoneIsLeftOut
<1>7. LastKeyIsKept'
  <2>1. AI!StoredKey' = AI!StoredKey
    BY <1>2 DEF AI!StoredKey
  <2> QED
    BY <1>1, <1>2, <1>3, <1>4, <2>1 DEF AIInv, LastKeyIsKept
<1> QED
  BY <1>5, <1>6, <1>7 DEF AIInv

LEMMA UpsertAISettingsKeeps ==
  ASSUME AIInv, NEW h \in Handlers, AI!UpsertAISettings(h)
  PROVE  AIInv'
<1>1. PICK t \in task[h] :
        /\ settings' = {t.row}
        /\ IF t.keeps
           THEN UNCHANGED <<given, crossed>>
           ELSE /\ given' = t.row.key
                /\ crossed' = \E o \in Handlers : \E u \in task[o] :
                                u.step = "save" /\ u.keeps
  BY DEF AI!UpsertAISettings
<1>2. /\ task' = [task EXCEPT ![h] = {}]
      /\ UNCHANGED <<gone, vectors, digest>>
      /\ \E u \in task[h] : u.step = "save"
  BY DEF AI!UpsertAISettings, AI!Saves, AI!Respond, AI!rows
<1>3. t.step = "save" /\ t \in AI!Saving
  <2>1. t \in AI!Saving \cup AI!Calling /\ task[h] = {t}
    BY DEF AIInv, Assisting
  <2> QED
    BY <1>2, <2>1 DEF AI!Calling
<1>4. /\ t.row \in [provider : AI!Providers, key : AI!Secrets]
      /\ t.row.key \in AI!Secrets /\ t.keeps \in BOOLEAN
  BY <1>3 DEF AI!Saving
<1>5. /\ DOMAIN task' = Handlers /\ task'[h] = {}
      /\ \A o \in Handlers \ {h} : task'[o] = task[o]
  BY <1>2 DEF AIInv, Assisting
<1>6. given' \in AI!Secrets /\ crossed' \in BOOLEAN
  BY <1>1, <1>4 DEF AIInv, Assisting
<1>7. Assisting'
  BY <1>1, <1>2, <1>4, <1>5, <1>6 DEF AIInv, Assisting
<1>8. GoneIsLeftOut'
  BY <1>2, <1>5 DEF AIInv, GoneIsLeftOut
<1>9. AI!StoredKey' = t.row.key
  BY <1>1 DEF AI!StoredKey
<1>10. LastKeyIsKept'
  <2>1. CASE t.keeps
    <3>1. ~crossed => t.row.key = given
      BY <1>3, <2>1 DEF AIInv, LastKeyIsKept
    <3> QED
      BY <1>1, <1>5, <1>9, <2>1, <3>1 DEF AIInv, LastKeyIsKept
  <2>2. CASE ~t.keeps
    <3>1. ~crossed' => \A o \in Handlers : \A u \in task[o] : ~(u.step = "save" /\ u.keeps)
      BY <1>1, <2>2
    <3> QED
      BY <1>1, <1>5, <1>9, <2>2, <3>1 DEF LastKeyIsKept
  <2> QED
    BY <2>1, <2>2
<1> QED
  BY <1>7, <1>8, <1>10 DEF AIInv

LEMMA DeleteSourceKeeps ==
  ASSUME AIInv, NEW a \in Articles, AI!DeleteSource(a)
  PROVE  AIInv'
<1>1. /\ gone' = gone \cup {a}
      /\ UNCHANGED <<settings, given, crossed, vectors, digest, task>>
  BY DEF AI!DeleteSource, AI!saved, AI!rows
<1>2. Assisting'
  BY <1>1 DEF AIInv, Assisting
<1>3. GoneIsLeftOut'
  BY <1>1 DEF AIInv, GoneIsLeftOut
<1>4. LastKeyIsKept'
  BY <1>1 DEF AIInv, LastKeyIsKept, AI!StoredKey
<1> QED
  BY <1>2, <1>3, <1>4 DEF AIInv

LEMMA AssistantStepKeeps == AIInv /\ [AI!Next]_(AI!vars) => AIInv'
<1> SUFFICES ASSUME AIInv, [AI!Next]_(AI!vars) PROVE AIInv'
  OBVIOUS
<1>1. ASSUME NEW h \in Handlers, AI!Request(h) PROVE AIInv'
  BY <1>1, BeginKeeps, FindAISettingsKeeps
     DEF AI!Request, AI!GenerateEmbedding, AI!SimilarArticles, AI!GenerateDigest,
         AI!RAGSearch
<1>2. ASSUME NEW h \in Handlers, AI!Handle(h) PROVE AIInv'
  BY <1>2, UpsertAISettingsKeeps, AssistantForUserKeeps, UpsertEmbeddingKeeps,
     UpsertDigestKeeps, RetrieveKeeps, FindArticleKeeps, SearchArticlesKeeps, EndKeeps
     DEF AI!Handle
<1>3. CASE UNCHANGED AI!vars
  <2>1. UNCHANGED <<settings, given, crossed, gone, vectors, digest, task>>
    BY <1>3 DEF AI!vars, AI!saved, AI!rows
  <2> QED
    BY <2>1 DEF AIInv, Assisting, GoneIsLeftOut, LastKeyIsKept, AI!StoredKey
<1> QED
  BY <1>1, <1>2, <1>3, EndKeeps, DeleteSourceKeeps DEF AI!Next

-----------------------------------------------------------------------------
(* The dead letters.  ReplaysAreWritten is not inductive: a handler between *)
(* its write and its mark has written a task no answer accounts for yet,    *)
(* and there may be many of them for one item.                              *)

\* The handlers that have written a task for item i and are about to mark it.
Replaying(i) ==
  {h \in Handlers : \E w \in work[h] : w.id = i /\ w.step = "replayed"}

\* What the variables of the dead letters range over; a handler has one job.
Handling ==
  /\ Dead!TypeOK
  /\ DOMAIN work = Handlers
  /\ \A h \in Handlers :
       work[h] = {} \/ \E w \in [id : Letters, step : Dead!Steps] : work[h] = {w}

\* Each of them, and each answer, has a write of its own.
WritesAreAccounted ==
  \A i \in Letters :
    /\ IsFiniteSet(Replaying(i))
    /\ answered[i] + Cardinality(Replaying(i)) <= written[i]

\* What an item says of itself.
ItemsAreTrue ==
  \A i \in Letters :
    /\ "replayed" \in stamped[i] => written[i] > 0
    /\ status[i] \in {"", "pending"} \/ status[i] \in stamped[i]

DeadInv == Handling /\ WritesAreAccounted /\ ItemsAreTrue

LEMMA Counts ==
  ASSUME Dead!TypeOK
  PROVE  /\ MaxReplays \in Nat
         /\ \A i \in Letters :
              answered[i] \in Nat /\ written[i] \in 0..MaxReplays /\ written[i] \in Nat
<1>1. answered \in [Letters -> Nat] /\ written \in [Letters -> 0..MaxReplays]
  BY DEF Dead!TypeOK
<1>2. MaxReplays \in Nat
  BY RequestsAssumption
<1> QED
  BY <1>1, <1>2

\* A step that writes no task loses none.
LEMMA NoneIsLost ==
  ASSUME Dead!TypeOK, UNCHANGED written
  PROVE  /\ written' \in [Letters -> 0..MaxReplays]
         /\ \A i \in Letters : written'[i] >= written[i]
<1>1. written' \in [Letters -> 0..MaxReplays]
  BY DEF Dead!TypeOK
<1>2. ASSUME NEW i \in Letters PROVE written'[i] >= written[i]
  <2>1. written[i] \in Nat
    BY Counts
  <2>2. written'[i] = written[i]
    OBVIOUS
  <2> QED
    BY <2>1, <2>2
<1> QED
  BY <1>1, <1>2

LEMMA DeadInvImplies == DeadInv => Dead!ReplaysAreWritten /\ Dead!TypeOK
<1> SUFFICES ASSUME DeadInv, NEW i \in Letters PROVE answered[i] <= written[i]
  BY DEF DeadInv, Handling, ItemsAreTrue, Dead!ReplaysAreWritten
<1>1. Cardinality(Replaying(i)) \in Nat
  BY FS_CardinalityType DEF DeadInv, WritesAreAccounted
<1>2. answered[i] \in Nat /\ written[i] \in Nat
  BY Counts DEF DeadInv, Handling
<1> QED
  BY <1>1, <1>2 DEF DeadInv, WritesAreAccounted

LEMMA DeadInvInit == Dead!Init => DeadInv
<1> SUFFICES ASSUME Dead!Init PROVE DeadInv
  OBVIOUS
<1>1. \A i \in Letters : Replaying(i) = {}
  BY DEF Dead!Init, Replaying
<1>2. Handling
  <2>1. 0 \in 0..MaxReplays
    BY RequestsAssumption
  <2>2. Dead!TypeOK
    BY <2>1 DEF Dead!Init, Dead!TypeOK
  <2> QED
    BY <2>2 DEF Dead!Init, Handling
<1>3. WritesAreAccounted
  <2>1. \A i \in Letters : answered[i] = 0 /\ written[i] = 0
    BY DEF Dead!Init
  <2>2. IsFiniteSet({}) /\ Cardinality({}) = 0
    BY FS_EmptySet
  <2> QED
    BY <1>1, <2>1, <2>2 DEF WritesAreAccounted
<1> QED
  BY <1>2, <1>3 DEF DeadInv, ItemsAreTrue, Dead!Init

\* A handler's job ends or changes; the numbers follow.
LEMMA JobChanges ==
  ASSUME DeadInv, NEW h \in Handlers, NEW W,
         W = {} \/ \E w \in [id : Letters, step : Dead!Steps] : W = {w},
         work' = [work EXCEPT ![h] = W]
  PROVE  /\ DOMAIN work' = Handlers /\ work'[h] = W
         /\ \A g \in Handlers :
              work'[g] = {} \/ \E w \in [id : Letters, step : Dead!Steps] : work'[g] = {w}
         /\ \A i \in Letters :
              Replaying(i)' = IF \E w \in W : w.id = i /\ w.step = "replayed"
                              THEN Replaying(i) \cup {h} ELSE Replaying(i) \ {h}
<1>1. /\ DOMAIN work' = Handlers /\ work'[h] = W
      /\ \A g \in Handlers \ {h} : work'[g] = work[g]
  BY DEF DeadInv, Handling
<1>2. \A g \in Handlers :
        work'[g] = {} \/ \E w \in [id : Letters, step : Dead!Steps] : work'[g] = {w}
  BY <1>1 DEF DeadInv, Handling
<1>3. ASSUME NEW i \in Letters
      PROVE  Replaying(i)' = IF \E w \in W : w.id = i /\ w.step = "replayed"
                             THEN Replaying(i) \cup {h} ELSE Replaying(i) \ {h}
  BY <1>1 DEF Replaying
<1> QED
  BY <1>1, <1>2, <1>3

\* One handler more or less.
LEMMA OneMore ==
  ASSUME DeadInv, NEW i \in Letters, NEW h \in Handlers
  PROVE  /\ Cardinality(Replaying(i)) \in Nat
         /\ answered[i] \in Nat /\ written[i] \in 0..MaxReplays /\ written[i] \in Nat
         /\ answered[i] + Cardinality(Replaying(i)) <= written[i]
         /\ IsFiniteSet(Replaying(i) \cup {h}) /\ IsFiniteSet(Replaying(i) \ {h})
         /\ h \notin Replaying(i) =>
              Cardinality(Replaying(i) \cup {h}) = Cardinality(Replaying(i)) + 1
         /\ h \in Replaying(i) =>
              Cardinality(Replaying(i) \ {h}) = Cardinality(Replaying(i)) - 1
         /\ h \notin Replaying(i) => Replaying(i) \ {h} = Replaying(i)
<1>1. /\ IsFiniteSet(Replaying(i))
      /\ answered[i] + Cardinality(Replaying(i)) <= written[i]
  BY DEF DeadInv, WritesAreAccounted
<1>2. Cardinality(Replaying(i)) \in Nat
  BY <1>1, FS_CardinalityType
<1>3. /\ IsFiniteSet(Replaying(i) \cup {h})
      /\ h \notin Replaying(i) =>
           Cardinality(Replaying(i) \cup {h}) = Cardinality(Replaying(i)) + 1
  BY <1>1, FS_AddElement
<1>4. /\ IsFiniteSet(Replaying(i) \ {h})
      /\ h \in Replaying(i) =>
           Cardinality(Replaying(i) \ {h}) = Cardinality(Replaying(i)) - 1
  BY <1>1, FS_RemoveElement
<1>5. /\ answered[i] \in Nat /\ written[i] \in 0..MaxReplays /\ written[i] \in Nat
  BY Counts DEF DeadInv, Handling
<1> QED
  BY <1>1, <1>2, <1>3, <1>4, <1>5

\* A handler with a job to do is not yet, or is, about to mark.
LEMMA AboutToMark ==
  ASSUME DeadInv, NEW h \in Handlers, NEW w \in work[h]
  PROVE  /\ w \in [id : Letters, step : Dead!Steps] /\ w.id \in Letters
         /\ \A i \in Letters : h \in Replaying(i) <=> w.id = i /\ w.step = "replayed"
<1>1. w \in [id : Letters, step : Dead!Steps] /\ work[h] = {w}
  BY DEF DeadInv, Handling
<1> QED
  BY <1>1 DEF Replaying

\* A job that ends or begins accounts for no more than before.
LEMMA QuietJobKeeps ==
  ASSUME DeadInv, NEW h \in Handlers, NEW W,
         W = {} \/ \E w \in [id : Letters, step : Dead!Steps] : W = {w} /\ w.step # "replayed",
         work' = [work EXCEPT ![h] = W],
         UNCHANGED <<status, stamped, answered, open>>,
         written' \in [Letters -> 0..MaxReplays],
         \A i \in Letters : written'[i] >= written[i]
  PROVE  DeadInv'
<1>1. /\ DOMAIN work' = Handlers
      /\ \A g \in Handlers :
           work'[g] = {} \/ \E w \in [id : Letters, step : Dead!Steps] : work'[g] = {w}
      /\ \A i \in Letters :
           Replaying(i)' = IF \E w \in W : w.id = i /\ w.step = "replayed"
                           THEN Replaying(i) \cup {h} ELSE Replaying(i) \ {h}
  BY JobChanges
<1>2. \A i \in Letters : Replaying(i)' = Replaying(i) \ {h}
  BY <1>1
<1>3. Handling'
  <2>1. \A g \in Handlers : work'[g] \subseteq [id : Letters, step : Dead!Steps]
    BY <1>1
  <2> QED
    BY <1>1, <2>1 DEF DeadInv, Handling, Dead!TypeOK
<1>4. WritesAreAccounted'
  <2> SUFFICES ASSUME NEW i \in Letters
               PROVE  /\ IsFiniteSet(Replaying(i)')
                      /\ answered'[i] + Cardinality(Replaying(i)') <= written'[i]
    BY DEF WritesAreAccounted
  <2>1. /\ Cardinality(Replaying(i)) \in Nat
        /\ answered[i] \in Nat /\ written[i] \in Nat
        /\ answered[i] + Cardinality(Replaying(i)) <= written[i]
        /\ IsFiniteSet(Replaying(i) \ {h})
        /\ Cardinality(Replaying(i) \ {h})
             \in {Cardinality(Replaying(i)), Cardinality(Replaying(i)) - 1}
    BY OneMore
  <2>2. written'[i] \in Nat /\ written'[i] >= written[i] /\ answered'[i] = answered[i]
    BY RequestsAssumption
  <2>3. Cardinality(Replaying(i) \ {h}) \in Int
        /\ Cardinality(Replaying(i) \ {h}) <= Cardinality(Replaying(i))
    BY <2>1
  <2>4. answered[i] + Cardinality(Replaying(i) \ {h}) <= written'[i]
    BY <2>1, <2>2, <2>3
  <2> QED
    BY <1>2, <2>1, <2>2, <2>4
<1>5. ItemsAreTrue'
  <2>1. \A i \in Letters : written[i] > 0 => written'[i] > 0
    BY Counts DEF DeadInv, Handling
  <2> QED
    BY <2>1 DEF DeadInv, ItemsAreTrue
<1> QED
  BY <1>3, <1>4, <1>5 DEF DeadInv

LEMMA CreateKeeps ==
  ASSUME DeadInv, NEW i \in Letters, Dead!Create(i)
  PROVE  DeadInv'
<1>1. /\ status' = [status EXCEPT ![i] = "pending"]
      /\ UNCHANGED <<stamped, written, answered, open, work>>
  BY DEF Dead!Create
<1>2. status' \in [Letters -> {""} \cup Dead!Statuses]
  BY <1>1 DEF DeadInv, Handling, Dead!TypeOK, Dead!Statuses
<1>3. Handling'
  BY <1>1, <1>2 DEF DeadInv, Handling, Dead!TypeOK
<1>4. WritesAreAccounted'
  BY <1>1 DEF DeadInv, WritesAreAccounted, Replaying
<1>5. \A j \in Letters : status'[j] = IF j = i THEN "pending" ELSE status[j]
  BY <1>1 DEF DeadInv, Handling, Dead!TypeOK
<1>6. ItemsAreTrue'
  BY <1>1, <1>5 DEF DeadInv, ItemsAreTrue
<1> QED
  BY <1>3, <1>4, <1>6 DEF DeadInv

LEMMA FindKeeps ==
  ASSUME DeadInv, NEW h \in Handlers, NEW i \in Letters, NEW step \in {"write", "handled"},
         Dead!FindByUserIDAndID(h, i, step)
  PROVE  DeadInv'
<1> DEFINE w == [id |-> i, step |-> step]
<1>1. w \in [id : Letters, step : Dead!Steps] /\ w.step # "replayed"
  BY DEF Dead!Steps
<1>2. /\ work' = [work EXCEPT ![h] = {w}]
      /\ UNCHANGED <<status, stamped, written, answered, open>>
  BY DEF Dead!FindByUserIDAndID, Dead!item
<1>3. written' \in [Letters -> 0..MaxReplays] /\ \A j \in Letters : written'[j] >= written[j]
  BY <1>2, NoneIsLost DEF DeadInv, Handling
<1> HIDE DEF w
<1> QED
  BY <1>1, <1>2, <1>3, QuietJobKeeps

LEMMA GiveUpKeeps ==
  ASSUME DeadInv, NEW h \in Handlers, Dead!Crash(h)
  PROVE  DeadInv'
<1>1. /\ work' = [work EXCEPT ![h] = {}]
      /\ UNCHANGED <<status, stamped, written, answered, open>>
  BY DEF Dead!Crash, Dead!Finish, Dead!item
<1>2. written' \in [Letters -> 0..MaxReplays] /\ \A j \in Letters : written'[j] >= written[j]
  BY <1>1, NoneIsLost DEF DeadInv, Handling
<1> QED
  BY <1>1, <1>2, QuietJobKeeps

LEMMA WriteTaskKeeps ==
  ASSUME DeadInv, NEW h \in Handlers, Dead!WriteTask(h)
  PROVE  DeadInv'
<1>1. PICK w \in work[h], effect \in BOOLEAN :
        /\ w.step = "write"
        /\ effect => written[w.id] < MaxReplays
        /\ written' = [written EXCEPT ![w.id] = IF effect THEN @ + 1 ELSE @]
        /\ \/ effect /\ work' = [work EXCEPT ![h] = {[w EXCEPT !.step = "replayed"]}]
           \/ work' = [work EXCEPT ![h] = {}]
        /\ UNCHANGED <<status, stamped, answered, open>>
  BY DEF Dead!WriteTask, Dead!Acknowledged, Dead!Finish, Dead!item
<1>2. /\ w \in [id : Letters, step : Dead!Steps] /\ w.id \in Letters
      /\ \A i \in Letters : h \notin Replaying(i)
  BY <1>1, AboutToMark
<1>3. /\ written' \in [Letters -> 0..MaxReplays]
      /\ \A i \in Letters : written'[i] = IF i = w.id /\ effect THEN written[i] + 1
                                                              ELSE written[i]
  <2>1. written \in [Letters -> 0..MaxReplays] /\ MaxReplays \in Nat
    BY RequestsAssumption DEF DeadInv, Handling, Dead!TypeOK
  <2>2. (IF effect THEN written[w.id] + 1 ELSE written[w.id]) \in 0..MaxReplays
    BY <1>1, <1>2, <2>1
  <2> QED
    BY <1>1, <1>2, <2>1, <2>2
<1>4. \A i \in Letters : written'[i] >= written[i]
  BY <1>3, Counts DEF DeadInv, Handling
<1>5. CASE work' = [work EXCEPT ![h] = {}]
  BY <1>1, <1>3, <1>4, <1>5, QuietJobKeeps
<1>6. CASE effect /\ work' = [work EXCEPT ![h] = {[w EXCEPT !.step = "replayed"]}]
  <2> DEFINE u == [w EXCEPT !.step = "replayed"]
  <2>1. u \in [id : Letters, step : Dead!Steps] /\ u.id = w.id /\ u.step = "replayed"
    BY <1>2 DEF Dead!Steps
  <2>2. work' = [work EXCEPT ![h] = {u}]
    BY <1>6
  <2> HIDE DEF u
  <2>3. /\ DOMAIN work' = Handlers
        /\ \A g \in Handlers :
             work'[g] = {} \/ \E v \in [id : Letters, step : Dead!Steps] : work'[g] = {v}
        /\ \A i \in Letters :
             Replaying(i)' = IF \E v \in {u} : v.id = i /\ v.step = "replayed"
                             THEN Replaying(i) \cup {h} ELSE Replaying(i) \ {h}
    BY <2>1, <2>2, JobChanges
  <2>4. \A i \in Letters :
          Replaying(i)' = IF i = w.id THEN Replaying(i) \cup {h} ELSE Replaying(i)
    <3>1. \A i \in Letters : h \notin Replaying(i)
      BY <1>2
    <3>2. \A i \in Letters : Replaying(i) \ {h} = Replaying(i)
      BY <3>1
    <3>3. \A i \in Letters :
            (\E v \in {u} : v.id = i /\ v.step = "replayed") <=> i = w.id
      BY <2>1
    <3> QED
      BY <2>3, <3>2, <3>3
  <2>5. Handling'
    <3>1. \A g \in Handlers : work'[g] \subseteq [id : Letters, step : Dead!Steps]
      BY <2>3
    <3> QED
      BY <1>1, <1>3, <2>3, <3>1 DEF DeadInv, Handling, Dead!TypeOK
  <2>6. WritesAreAccounted'
    <3> SUFFICES ASSUME NEW i \in Letters
                 PROVE  /\ IsFiniteSet(Replaying(i)')
                        /\ answered'[i] + Cardinality(Replaying(i)') <= written'[i]
      BY DEF WritesAreAccounted
    <3>1. /\ Cardinality(Replaying(i)) \in Nat
          /\ answered[i] \in Nat /\ written[i] \in Nat
          /\ answered[i] + Cardinality(Replaying(i)) <= written[i]
          /\ IsFiniteSet(Replaying(i) \cup {h})
          /\ Cardinality(Replaying(i) \cup {h}) = Cardinality(Replaying(i)) + 1
      BY <1>2, OneMore
    <3>2. answered'[i] = answered[i]
      BY <1>1
    <3>3. CASE i = w.id
      <4>1. written'[i] = written[i] + 1
        BY <1>3, <1>6, <3>3
      <4>2. answered[i] + (Cardinality(Replaying(i)) + 1) <= written[i] + 1
        BY <3>1
      <4> QED
        BY <2>4, <3>1, <3>2, <3>3, <4>1, <4>2
    <3>4. CASE i # w.id
      <4>1. written'[i] = written[i] /\ Replaying(i)' = Replaying(i)
        BY <1>3, <2>4, <3>4
      <4>2. IsFiniteSet(Replaying(i))
        BY DEF DeadInv, WritesAreAccounted
      <4> QED
        BY <3>1, <3>2, <4>1, <4>2
    <3> QED
      BY <3>3, <3>4
  <2>7. ItemsAreTrue'
    <3>1. \A i \in Letters : written[i] > 0 => written'[i] > 0
      BY <1>3, Counts DEF DeadInv, Handling
    <3> QED
      BY <1>1, <3>1 DEF DeadInv, ItemsAreTrue
  <2> QED
    BY <2>5, <2>6, <2>7 DEF DeadInv
<1> QED
  BY <1>1, <1>5, <1>6

LEMMA UpdateStatusKeeps ==
  ASSUME DeadInv, NEW h \in Handlers, Dead!UpdateStatus(h)
  PROVE  DeadInv'
<1>1. PICK w \in work[h] :
        /\ w.step # "write"
        /\ \/ /\ status' = [status EXCEPT ![w.id] = w.step]
              /\ stamped' = [stamped EXCEPT ![w.id] = @ \cup {w.step}]
              /\ \/ answered' = answered
                 \/ /\ w.step = "replayed"
                    /\ answered' = [answered EXCEPT ![w.id] = @ + 1]
           \/ UNCHANGED <<status, stamped, answered>>
        /\ work' = [work EXCEPT ![h] = {}]
        /\ UNCHANGED <<written, open>>
  BY DEF Dead!UpdateStatus, Dead!Finish, Dead!item
<1>2. /\ w \in [id : Letters, step : Dead!Steps] /\ w.id \in Letters
      /\ \A i \in Letters : h \in Replaying(i) <=> w.id = i /\ w.step = "replayed"
  BY <1>1, AboutToMark
<1>3. w.step \in {"replayed", "handled"}
  BY <1>1, <1>2 DEF Dead!Steps
<1>4. CASE UNCHANGED <<status, stamped, answered>>
  <2>1. written' \in [Letters -> 0..MaxReplays] /\ \A j \in Letters : written'[j] >= written[j]
    BY <1>1, NoneIsLost DEF DeadInv, Handling
  <2> QED
    BY <1>1, <1>4, <2>1, QuietJobKeeps
<1>5. CASE /\ status' = [status EXCEPT ![w.id] = w.step]
           /\ stamped' = [stamped EXCEPT ![w.id] = @ \cup {w.step}]
  <2>1. /\ DOMAIN work' = Handlers
        /\ \A g \in Handlers :
             work'[g] = {} \/ \E v \in [id : Letters, step : Dead!Steps] : work'[g] = {v}
        /\ \A i \in Letters : Replaying(i)' = Replaying(i) \ {h}
    BY <1>1, JobChanges
  <2>2. /\ status' \in [Letters -> {""} \cup Dead!Statuses]
        /\ stamped' \in [Letters -> SUBSET {"replayed", "handled"}]
        /\ \A i \in Letters \ {w.id} : status'[i] = status[i] /\ stamped'[i] = stamped[i]
        /\ status'[w.id] = w.step /\ stamped'[w.id] = stamped[w.id] \cup {w.step}
    BY <1>2, <1>3, <1>5 DEF DeadInv, Handling, Dead!TypeOK, Dead!Statuses
  <2>3. /\ answered' \in [Letters -> Nat]
        /\ \A i \in Letters :
             \/ answered'[i] = answered[i]
             \/ h \in Replaying(i) /\ answered'[i] = answered[i] + 1
    <3>1. answered \in [Letters -> Nat]
      BY DEF DeadInv, Handling, Dead!TypeOK
    <3>2. CASE answered' = answered
      BY <3>1, <3>2
    <3>3. CASE /\ w.step = "replayed"
               /\ answered' = [answered EXCEPT ![w.id] = @ + 1]
      BY <1>2, <3>1, <3>3
    <3> QED
      BY <1>1, <1>4, <3>2, <3>3
  <2>4. Handling'
    <3>1. \A g \in Handlers : work'[g] \subseteq [id : Letters, step : Dead!Steps]
      BY <2>1
    <3> QED
      BY <1>1, <2>1, <2>2, <2>3, <3>1 DEF DeadInv, Handling, Dead!TypeOK
  <2>5. WritesAreAccounted'
    <3> SUFFICES ASSUME NEW i \in Letters
                 PROVE  /\ IsFiniteSet(Replaying(i)')
                        /\ answered'[i] + Cardinality(Replaying(i)') <= written'[i]
      BY DEF WritesAreAccounted
    <3>1. /\ Cardinality(Replaying(i)) \in Nat
          /\ answered[i] \in Nat /\ written[i] \in Nat
          /\ answered[i] + Cardinality(Replaying(i)) <= written[i]
          /\ IsFiniteSet(Replaying(i) \ {h})
          /\ h \in Replaying(i) =>
               Cardinality(Replaying(i) \ {h}) = Cardinality(Replaying(i)) - 1
          /\ h \notin Replaying(i) => Replaying(i) \ {h} = Replaying(i)
      BY OneMore
    <3>2. written'[i] = written[i]
      BY <1>1
    <3>3. CASE h \in Replaying(i)
      <4>1. answered'[i] + (Cardinality(Replaying(i)) - 1) <= written[i]
        BY <2>3, <3>1
      <4> QED
        BY <2>1, <3>1, <3>2, <3>3, <4>1
    <3>4. CASE h \notin Replaying(i)
      <4>1. answered'[i] = answered[i]
        BY <2>3, <3>4
      <4> QED
        BY <2>1, <3>1, <3>2, <3>4, <4>1
    <3> QED
      BY <3>3, <3>4
  \* Who marks an item as replayed is counted, and so is its write.
  <2>6. w.step = "replayed" => written[w.id] > 0
    <3> SUFFICES ASSUME w.step = "replayed" PROVE written[w.id] > 0
      OBVIOUS
    <3>1. h \in Replaying(w.id)
      BY <1>2
    <3>2. /\ Cardinality(Replaying(w.id)) \in Nat
          /\ answered[w.id] \in Nat /\ written[w.id] \in Nat
          /\ answered[w.id] + Cardinality(Replaying(w.id)) <= written[w.id]
          /\ IsFiniteSet(Replaying(w.id) \ {h})
          /\ Cardinality(Replaying(w.id) \ {h}) = Cardinality(Replaying(w.id)) - 1
      BY <1>2, <3>1, OneMore
    <3>3. Cardinality(Replaying(w.id) \ {h}) \in Nat
      BY <3>2, FS_CardinalityType
    <3> QED
      BY <3>2, <3>3
  <2>7. ItemsAreTrue'
    BY <1>1, <1>3, <2>2, <2>6 DEF DeadInv, ItemsAreTrue
  <2> QED
    BY <2>4, <2>5, <2>7 DEF DeadInv
<1> QED
  BY <1>1, <1>4, <1>5

LEMMA DeadLetterStepKeeps == DeadInv /\ [Dead!Next]_(Dead!vars) => DeadInv'
<1> SUFFICES ASSUME DeadInv, [Dead!Next]_(Dead!vars) PROVE DeadInv'
  OBVIOUS
<1>1. ASSUME NEW h \in Handlers, NEW i \in Letters,
             Dead!Replay(h, i) \/ Dead!MarkHandled(h, i)
      PROVE  DeadInv'
  BY <1>1, FindKeeps DEF Dead!Replay, Dead!MarkHandled
<1>2. CASE Dead!ToggleWriter \/ UNCHANGED Dead!vars
  <2>1. UNCHANGED <<status, stamped, written, answered, work>> /\ open' \in BOOLEAN
    BY <1>2 DEF Dead!ToggleWriter, Dead!vars, Dead!item, DeadInv, Handling, Dead!TypeOK
  <2> QED
    BY <2>1 DEF DeadInv, Handling, Dead!TypeOK, WritesAreAccounted, Replaying, ItemsAreTrue
<1> QED
  BY <1>1, <1>2, CreateKeeps, WriteTaskKeeps, UpdateStatusKeeps, GiveUpKeeps DEF Dead!Next

-----------------------------------------------------------------------------
(* The lists.  CatalogProofs is about the definitions of Catalog as it       *)
(* extends them, Requests about those of its instance Lists.                 *)

ListProofs == INSTANCE CatalogProofs

LEMMA TheSameLists ==
  /\ Lists!Init <=> ListProofs!Init
  /\ Lists!Next <=> ListProofs!Next
  /\ Lists!vars = ListProofs!vars
  /\ Lists!StaleIsPending <=> ListProofs!StaleIsPending
  /\ Lists!TypeOK <=> ListProofs!TypeOK
<1> USE DEF Lists!tables, ListProofs!tables, Lists!redis, ListProofs!redis,
        Lists!local, ListProofs!local, Lists!vars, ListProofs!vars,
        Lists!Fields, ListProofs!Fields, Lists!SourceKeys,
        ListProofs!SourceKeys, Lists!ArticleKeys, ListProofs!ArticleKeys,
        Lists!Keys, ListProofs!Keys, Lists!Live, ListProofs!Live,
        Lists!Visible, ListProofs!Visible, Lists!SourceList,
        ListProofs!SourceList, Lists!Passes, ListProofs!Passes,
        Lists!ArticleList, ListProofs!ArticleList, Lists!List,
        ListProofs!List, Lists!Steps, ListProofs!Steps, Lists!Init,
        ListProofs!Init, Lists!Goto, ListProofs!Goto, Lists!Respond,
        ListProofs!Respond, Lists!Invalidates, ListProofs!Invalidates,
        Lists!Cached, ListProofs!Cached, Lists!GetList, ListProofs!GetList,
        Lists!ListSources, ListProofs!ListSources, Lists!ListArticles,
        ListProofs!ListArticles, Lists!Pending, ListProofs!Pending,
        Lists!SetList, ListProofs!SetList, Lists!Fill, ListProofs!Fill,
        Lists!WriteSource, ListProofs!WriteSource, Lists!CreateSource,
        ListProofs!CreateSource, Lists!UpdateSource,
        ListProofs!UpdateSource, Lists!DeleteSource,
        ListProofs!DeleteSource, Lists!FindArticle, ListProofs!FindArticle,
        Lists!WithFlag, ListProofs!WithFlag, Lists!UpsertState,
        ListProofs!UpsertState, Lists!RereadArticle,
        ListProofs!RereadArticle, Lists!SaveCollectedItems,
        ListProofs!SaveCollectedItems, Lists!Commit, ListProofs!Commit,
        Lists!DeletedBy, ListProofs!DeletedBy, Lists!DeleteKey,
        ListProofs!DeleteKey, Lists!Abort, ListProofs!Abort, Lists!Aged,
        ListProofs!Aged, Lists!Tick, ListProofs!Tick, Lists!SourceRequest,
        ListProofs!SourceRequest, Lists!ArticleRequest,
        ListProofs!ArticleRequest, Lists!Handle, ListProofs!Handle,
        Lists!Next, ListProofs!Next, Lists!Stale, ListProofs!Stale,
        Lists!StaleIsPending, ListProofs!StaleIsPending, Lists!ListsOf,
        ListProofs!ListsOf, Lists!TypeOK, ListProofs!TypeOK,
        Lists!Cardinality, ListProofs!Cardinality, Cardinality
<1>1. Lists!Init <=> ListProofs!Init
  OBVIOUS
<1>2. Lists!Next <=> ListProofs!Next
  OBVIOUS
<1>3. Lists!vars = ListProofs!vars
  OBVIOUS
<1>4. Lists!StaleIsPending <=> ListProofs!StaleIsPending
  OBVIOUS
<1>5. Lists!TypeOK <=> ListProofs!TypeOK
  OBVIOUS
<1> QED
  BY <1>1, <1>2, <1>3, <1>4, <1>5

ListsInv == ListProofs!Inv /\ ListProofs!TypeInv

LEMMA ListsInvInit == Lists!Init => ListsInv
  BY TheSameLists, ListProofs!InvInit, ListProofs!TypeInvInit DEF ListsInv

LEMMA ListStepKeeps == ListsInv /\ [Lists!Next]_(Lists!vars) => ListsInv'
<1> SUFFICES ASSUME ListsInv, [Lists!Next]_(Lists!vars) PROVE ListsInv'
  OBVIOUS
<1>1. [ListProofs!Next]_(ListProofs!vars)
  <2>1. CASE Lists!Next
    BY <2>1, TheSameLists
  <2>2. CASE UNCHANGED Lists!vars
    <3>1. UNCHANGED listVars
      BY <2>2 DEF listVars, Lists!vars, Lists!tables, Lists!redis, Lists!local
    <3> QED
      BY <3>1 DEF listVars, ListProofs!vars, ListProofs!tables, ListProofs!redis,
         ListProofs!local
  <2> QED
    BY <2>1, <2>2
<1>2. ListProofs!Inv'
  BY <1>1, ListProofs!StepKeepsInv DEF ListsInv
<1>3. ListProofs!TypeInv'
  BY <1>1, RequestsAssumption, ListProofs!StepKeepsTypes DEF ListsInv
<1> QED
  BY <1>2, <1>3 DEF ListsInv

LEMMA ListsInvImplies == ListsInv => Lists!StaleIsPending /\ Lists!TypeOK
<1>1. ListsInv => ListProofs!StaleIsPending
  BY DEF ListsInv, ListProofs!Inv
<1>2. ListsInv => ListProofs!TypeOK
  BY ListProofs!TypeInvImplies DEF ListsInv
<1> QED
  BY <1>1, <1>2, TheSameLists

-----------------------------------------------------------------------------
(* The requests together.  A step is one of one of the four parts, which     *)
(* leaves the variables of the others alone.                                 *)

RequestsInv == TypesInv /\ ListsInv /\ DeadInv /\ AIInv

LEMMA RequestsInvInit == RequestsInit => RequestsInv
  BY TypesInvInit, ListsInvInit, DeadInvInit, AIInvInit DEF RequestsInit, RequestsInv

LEMMA EachPartSteps ==
  [RequestsNext]_requestVars =>
    /\ [Next]_vars
    /\ [Lists!Next]_(Lists!vars)
    /\ [Dead!Next]_(Dead!vars)
    /\ [AI!Next]_(AI!vars)
<1> SUFFICES ASSUME [RequestsNext]_requestVars
             PROVE  /\ [Next]_vars
                    /\ [Lists!Next]_(Lists!vars)
                    /\ [Dead!Next]_(Dead!vars)
                    /\ [AI!Next]_(AI!vars)
  OBVIOUS
<1>1. /\ Next \/ UNCHANGED vars
      /\ Lists!Next \/ UNCHANGED listVars
      /\ Dead!Next \/ UNCHANGED deadVars
      /\ AI!Next \/ UNCHANGED aiVars
  BY DEF RequestsNext, requestVars, SessionStep, ListStep, DeadLetterStep, AssistantStep
<1>2. UNCHANGED listVars => UNCHANGED Lists!vars
  BY DEF listVars, Lists!vars, Lists!tables, Lists!redis, Lists!local
<1>3. UNCHANGED deadVars => UNCHANGED Dead!vars
  BY DEF deadVars, Dead!vars, Dead!item
<1>4. UNCHANGED aiVars => UNCHANGED AI!vars
  BY DEF aiVars, AI!vars, AI!saved, AI!rows
<1> QED
  BY <1>1, <1>2, <1>3, <1>4

LEMMA RequestsInvNext == RequestsInv /\ [RequestsNext]_requestVars => RequestsInv'
  BY EachPartSteps, StepKeepsTypes, ListStepKeeps, DeadLetterStepKeeps,
     AssistantStepKeeps DEF RequestsInv

LEMMA RequestsInvariance == RequestsSpec => []RequestsInv
  BY RequestsInvInit, RequestsInvNext, PTL DEF RequestsSpec

\* What is proved of sessions and of the limiter holds of the requests together:
\* they implement Sessions.
THEOREM RequestsImplySessions == RequestsSpec => Spec
<1>1. RequestsInit => Init
  BY DEF RequestsInit
<1>2. [RequestsNext]_requestVars => [Next]_vars
  BY EachPartSteps
<1> QED
  BY <1>1, <1>2, PTL DEF RequestsSpec, Spec

\* Every variable of the requests stays in its domain, whatever the bounds: above
\* all, a handler of the lists holds what its next step needs, and a cached
\* list is one its key can have.
THEOREM RequestsAreTyped == RequestsSpec => []RequestsTypeOK
<1>1. RequestsInv => RequestsTypeOK
  BY TypesInvImplies, ListsInvImplies, DeadInvImplies, AIInvImplies
     DEF RequestsInv, RequestsTypeOK
<1> QED
  BY <1>1, RequestsInvariance, PTL

\* A stale list in Redis is about to be deleted or has been missed in one of the
\* known ways (deleteUserListCache), for any number of concurrent requests.
THEOREM StaleListsArePending == RequestsSpec => []StaleIsPending
<1>1. RequestsInv => StaleIsPending
  BY ListsInvImplies DEF RequestsInv, StaleIsPending
<1> QED
  BY <1>1, RequestsInvariance, PTL

\* DLQService.Replay answers with success only after its task has been written,
\* however many replays, crashes and lost answers there were.
THEOREM ReplaysGetWritten == RequestsSpec => []ReplaysAreWritten
<1>1. RequestsInv => ReplaysAreWritten
  BY DeadInvImplies DEF RequestsInv, ReplaysAreWritten
<1> QED
  BY <1>1, RequestsInvariance, PTL

\* Neither a removed API key nor the articles of a deleted source are put to use
\* again by a request that computes something, in whatever order the assistant's
\* requests and the model's answers interleave; unless saves of settings cross.
THEOREM NothingRemovedComesBack == RequestsSpec => []NothingComesBack
<1>1. RequestsInv => NothingComesBack
  BY AIInvImplies DEF RequestsInv, NothingComesBack
<1> QED
  BY <1>1, RequestsInvariance, PTL
=============================================================================
