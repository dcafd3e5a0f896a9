--------------------------- MODULE FileOPMLProofs ---------------------------
(***************************************************************************)
(* Proofs about FileOPML, for any set of feeds, tags, clients and requests.*)
(* That lists keep their type and never hold the pseudo tag is proved      *)
(* without assumptions.  What the server shows survives a restart, and     *)
(* FileOPML implements SubscriptionList, if every tag name is Plain (no    *)
(* comma in it), no title is blank, and harb import runs while the server  *)
(* does not; each of the three is needed.                                  *)
(***************************************************************************)
EXTENDS FileOPML, TLAPS

-----------------------------------------------------------------------------
(* Lists and what the operators of opml.go make of them.                   *)

LEMMA ListElements ==
    ASSUME NEW o \in List
    PROVE  /\ DOMAIN o \subseteq Urls
           /\ o = [u \in DOMAIN o |-> o[u]]
           /\ \A u \in DOMAIN o : o[u] \in Feed
  BY DEF List

LEMMA FileElements ==
    ASSUME NEW x \in File
    PROVE  /\ DOMAIN x \subseteq Urls
           /\ x = [u \in DOMAIN x |-> x[u]]
           /\ \A u \in DOMAIN x : x[u] \in Outline
  BY DEF File

\* A list without the pseudo tag.
Normal(o) == \A u \in DOMAIN o : o[u].tags = NormalizeTags(o[u].tags)

LEMMA NormalizeIdempotent ==
    ASSUME NEW T
    PROVE  /\ NormalizeTags(NormalizeTags(T)) = NormalizeTags(T)
           /\ NormalizeTags(T) \subseteq T
           /\ {Reserved} \notin NormalizeTags(T)
  BY DEF NormalizeTags, IsReservedTag

LEMMA EmptyNormal == Empty \in List /\ Normal(Empty)
  <1>1. Empty \in [{} -> Feed] /\ DOMAIN Empty = {}
    BY DEF Empty
  <1> QED BY <1>1 DEF List, Normal

LEMMA AddNormal ==
    ASSUME NEW o \in List, Normal(o), NEW u \in Urls, NEW f \in Feed
    PROVE  Add(o, u, f) \in List /\ Normal(Add(o, u, f))
  <1> DEFINE g == [f EXCEPT !.tags = NormalizeTags(f.tags)]
             D == DOMAIN o \cup {u}
  <1>1. g \in Feed /\ g.tags = NormalizeTags(f.tags)
    BY NormalizeIdempotent DEF Feed
  <1>2. Add(o, u, f) = [v \in D |-> IF v = u THEN g ELSE o[v]]
    BY DEF Add
  <1>3. D \subseteq Urls
    BY ListElements
  <1>4. \A v \in D : (IF v = u THEN g ELSE o[v]) \in Feed
    BY <1>1, ListElements
  <1> HIDE DEF D, g
  <1>5. Add(o, u, f) \in [D -> Feed] /\ DOMAIN Add(o, u, f) = D
    BY <1>2, <1>4
  <1>6. ASSUME NEW v \in D
        PROVE  Add(o, u, f)[v].tags = NormalizeTags(Add(o, u, f)[v].tags)
    <2>1. CASE v = u
      BY <2>1, <1>1, <1>2, NormalizeIdempotent
    <2>2. CASE v # u
      BY <2>2, <1>2 DEF Normal, D
    <2> QED BY <2>1, <2>2
  <1> QED BY <1>3, <1>5, <1>6 DEF List, Normal

LEMMA RemoveNormal ==
    ASSUME NEW o \in List, Normal(o), NEW u
    PROVE  Remove(o, u) \in List /\ Normal(Remove(o, u))
  <1>1. Remove(o, u) \in [DOMAIN o \ {u} -> Feed]
    BY ListElements DEF Remove
  <1>2. DOMAIN o \ {u} \subseteq Urls
    BY ListElements
  <1>3. Normal(Remove(o, u))
    BY DEF Normal, Remove
  <1> QED BY <1>1, <1>2, <1>3 DEF List

\* A function on the feeds of a list whose values are feeds without the
\* pseudo tag is a list without it.
LEMMA MapNormal ==
    ASSUME NEW o \in List, NEW p, p = [u \in DOMAIN o |-> p[u]],
           \A u \in DOMAIN o : p[u] \in Feed /\ p[u].tags = NormalizeTags(p[u].tags)
    PROVE  p \in List /\ Normal(p)
  <1>1. p \in [DOMAIN o -> Feed] /\ DOMAIN p = DOMAIN o
    OBVIOUS
  <1> QED BY <1>1, ListElements DEF List, Normal

LEMMA EditNormal ==
    ASSUME NEW o \in List, Normal(o), NEW u \in DOMAIN o,
           NEW title \in Titles \cup {NoTitle},
           NEW add \in SUBSET Tag, NEW remove \in SUBSET Tag
    PROVE  Edit(o, u, title, add, remove) \in List /\ Normal(Edit(o, u, title, add, remove))
  <1> DEFINE tags == (o[u].tags \cup NormalizeTags(add)) \ remove
             g == [title |-> IF title = NoTitle THEN o[u].title ELSE title, tags |-> tags]
             p == Edit(o, u, title, add, remove)
  <1>1. o[u] \in Feed /\ o[u].tags = NormalizeTags(o[u].tags)
    BY ListElements DEF Normal
  <1>2. tags \subseteq Tag /\ tags = NormalizeTags(tags)
    BY <1>1 DEF NormalizeTags, IsReservedTag, Feed
  <1>3. g \in Feed /\ g.tags = tags
    BY <1>1, <1>2 DEF Feed
  <1>4. p = [v \in DOMAIN o |-> IF v = u THEN g ELSE o[v]]
    BY ListElements DEF Edit
  <1> HIDE DEF g, tags, p
  <1>5. \A v \in DOMAIN o : p[v] \in Feed /\ p[v].tags = NormalizeTags(p[v].tags)
    BY <1>2, <1>3, <1>4, ListElements DEF Normal
  <1>6. p = [v \in DOMAIN o |-> p[v]]
    BY <1>4
  <1> QED BY <1>5, <1>6, MapNormal DEF p

LEMMA RenameNormal ==
    ASSUME NEW o \in List, Normal(o), NEW old \in Tag, NEW new \in Tag
    PROVE  RenameTag(o, old, new) \in List /\ Normal(RenameTag(o, old, new))
  <1> DEFINE p == RenameTag(o, old, new)
  <1>1. p = [v \in DOMAIN o |-> p[v]]
    BY DEF RenameTag
  <1>2. ASSUME NEW v \in DOMAIN o
        PROVE  p[v] \in Feed /\ p[v].tags = NormalizeTags(p[v].tags)
    <2> DEFINE tags == NormalizeTags((o[v].tags \ {old}) \cup {new})
    <2>1. o[v] \in Feed /\ o[v].tags = NormalizeTags(o[v].tags)
      BY ListElements DEF Normal
    <2>2. tags \subseteq Tag /\ tags = NormalizeTags(tags)
      BY <2>1 DEF NormalizeTags, Feed
    <2>3. p[v] = IF old \in o[v].tags /\ old # new
                 THEN [o[v] EXCEPT !.tags = tags] ELSE o[v]
      BY DEF RenameTag
    <2> HIDE DEF tags, p
    <2>4. [o[v] EXCEPT !.tags = tags] \in Feed /\ [o[v] EXCEPT !.tags = tags].tags = tags
      BY <2>1, <2>2 DEF Feed
    <2> QED BY <2>1, <2>2, <2>3, <2>4
  <1> HIDE DEF p
  <1> QED BY <1>1, <1>2, MapNormal DEF p

LEMMA DisableNormal ==
    ASSUME NEW o \in List, Normal(o), NEW name
    PROVE  DisableTag(o, name) \in List /\ Normal(DisableTag(o, name))
  <1> DEFINE p == DisableTag(o, name)
  <1>1. p = [v \in DOMAIN o |-> p[v]]
    BY DEF DisableTag
  <1>2. ASSUME NEW v \in DOMAIN o
        PROVE  p[v] \in Feed /\ p[v].tags = NormalizeTags(p[v].tags)
    <2> DEFINE tags == o[v].tags \ {name}
    <2>1. o[v] \in Feed /\ o[v].tags = NormalizeTags(o[v].tags)
      BY ListElements DEF Normal
    <2>2. tags \subseteq Tag /\ tags = NormalizeTags(tags)
      BY <2>1 DEF NormalizeTags, Feed
    <2>3. p[v] = [o[v] EXCEPT !.tags = tags]
      BY DEF DisableTag
    <2> HIDE DEF tags, p
    <2>4. [o[v] EXCEPT !.tags = tags] \in Feed /\ [o[v] EXCEPT !.tags = tags].tags = tags
      BY <2>1, <2>2 DEF Feed
    <2> QED BY <2>2, <2>3, <2>4
  <1> HIDE DEF p
  <1> QED BY <1>1, <1>2, MapNormal DEF p

\* Whatever a request makes of a list without the pseudo tag is one.
LEMMA ChangedNormal ==
    ASSUME NEW r \in Request, NEW o \in List, Normal(o), ~Aborts(r, o)
    PROVE  Changed(r, o) \in List /\ Normal(Changed(r, o))
  <1>1. CASE r \in [op : {"subscribe"}, url : Urls, title : Titles \cup {NoTitle},
                    tags : SUBSET Tag]
    <2> DEFINE f == [title |-> IF r.title = NoTitle THEN r.url ELSE r.title, tags |-> r.tags]
    <2>1. f \in Feed /\ r.url \in Urls
      BY <1>1 DEF Feed
    <2>2. Changed(r, o) = Add(o, r.url, f)
      BY <1>1 DEF Changed
    <2> QED BY <2>1, <2>2, AddNormal
  <1>2. CASE r \in [op : {"unsubscribe"}, url : Urls]
    <2>1. Changed(r, o) = Remove(o, r.url)
      BY <1>2 DEF Changed
    <2> QED BY <2>1, RemoveNormal
  <1>3. CASE r \in [op : {"edit"}, url : Urls, title : Titles \cup {NoTitle},
                    add : SUBSET Tag, remove : SUBSET Tag]
    <2>1. Changed(r, o) = Edit(o, r.url, r.title, r.add, r.remove)
      BY <1>3 DEF Changed
    <2>2. r.url \in DOMAIN o
      BY <1>3 DEF Aborts
    <2> QED BY <1>3, <2>1, <2>2, EditNormal
  <1>4. CASE r \in [op : {"rename"}, old : Tag, new : Tag]
    <2>1. Changed(r, o) = RenameTag(o, r.old, r.new)
      BY <1>4 DEF Changed
    <2> QED BY <1>4, <2>1, RenameNormal
  <1>5. CASE r \in [op : {"disable"}, name : Tag]
    <2>1. Changed(r, o) = DisableTag(o, r.name)
      BY <1>5 DEF Changed
    <2> QED BY <2>1, DisableNormal
  <1>6. CASE r \in [op : {"list"}]
    <2>1. Changed(r, o) = o
      BY <1>6 DEF Changed
    <2> QED BY <2>1
  <1> QED BY <1>1, <1>2, <1>3, <1>4, <1>5, <1>6 DEF Request

LEMMA ImportedNormal ==
    ASSUME NEW inc \in List, Normal(inc), NEW o \in List, Normal(o)
    PROVE  Imported(inc, o) \in List /\ Normal(Imported(inc, o))
  <1> DEFINE D == DOMAIN o \cup DOMAIN inc
  <1>1. D \subseteq Urls
    BY ListElements
  <1>2. Imported(inc, o) \in [D -> Feed]
    BY ListElements DEF Imported
  <1>3. Normal(Imported(inc, o))
    BY DEF Normal, Imported
  <1> QED BY <1>1, <1>2, <1>3 DEF List

LEMMA MarshalType ==
    ASSUME NEW o \in List
    PROVE  Marshal(o) \in File
  <1>1. ASSUME NEW u \in DOMAIN o
        PROVE  [title |-> o[u].title, folder |-> {},
                category |-> UNION NormalizeTags(o[u].tags)] \in Outline
    BY ListElements DEF Feed, Tag, Outline, NormalizeTags
  <1>2. Marshal(o) \in [DOMAIN o -> Outline]
    BY <1>1 DEF Marshal
  <1> QED BY <1>2, ListElements DEF File

LEMMA ParseNormal ==
    ASSUME NEW x \in File
    PROVE  ParseOPML(x) \in List /\ Normal(ParseOPML(x))
  <1> DEFINE T(u) == ({x[u].folder} \ {{}}) \cup {{w} : w \in x[u].category}
             f(u) == [title |-> IF x[u].title = Blank THEN u ELSE x[u].title,
                      tags  |-> NormalizeTags(T(u))]
  <1>1. ASSUME NEW u \in DOMAIN x
        PROVE  f(u) \in Feed
    <2>1. x[u] \in Outline /\ u \in Urls
      BY FileElements
    <2>2. T(u) \subseteq Tag
      BY <2>1 DEF Outline, Tag
    <2>3. NormalizeTags(T(u)) \in SUBSET Tag
      BY <2>2, NormalizeIdempotent
    <2> HIDE DEF T
    <2> QED BY <2>1, <2>3 DEF Feed, Outline
  <1>2. ParseOPML(x) = [u \in DOMAIN x |-> f(u)]
    BY DEF ParseOPML
  <1>3. ParseOPML(x) \in [DOMAIN x -> Feed]
    BY <1>1, <1>2
  <1>4. \A u \in DOMAIN x : f(u).tags = NormalizeTags(f(u).tags)
    BY NormalizeIdempotent
  <1> HIDE DEF f
  <1>5. Normal(ParseOPML(x))
    BY <1>2, <1>4 DEF Normal
  <1> QED BY <1>3, <1>5, FileElements DEF List

LEMMA ReadNormal ==
    ASSUME NEW x \in File \cup {NoFile}
    PROVE  Read(x) \in List /\ Normal(Read(x))
  BY ParseNormal, EmptyNormal DEF Read

-----------------------------------------------------------------------------
(***************************************************************************)
(* The lists in memory are lists without the pseudo tag, whoever past the  *)
(* load finds the list loaded, and a stopped server has no request.        *)
(***************************************************************************)
StateInv ==
    /\ OpmlTypeOK
    /\ \A o \in {cur, work, merged} \ {NotLoaded} : Normal(o)
    /\ \A t \in Clients : pc[t] \in {"lock", "write", "publish"} => cur # NotLoaded
    /\ ~serving => cur = NotLoaded /\ \A t \in Clients : pc[t] = "idle"

LEMMA StateInit == Init => StateInv
  <1> SUFFICES ASSUME Init PROVE StateInv
    OBVIOUS
  <1>1. lock \notin Clients
    BY SentinelsAssumption DEF Init
  <1> QED
    BY <1>1, EmptyNormal, FilesAssumption, SentinelsAssumption
    DEF Init, StateInv, OpmlTypeOK, Places, Answers

\* Answering makes its goroutine idle and changes nothing else about it.
LEMMA AnswerType ==
    ASSUME OpmlTypeOK, NEW t \in Clients, NEW a \in Answers, Answer(t, a)
    PROVE  /\ pc' \in [Clients -> Places]
           /\ req' \in [Clients -> Requests \cup {None}]
           /\ reply' \in [Clients -> Answers]
           /\ pc'[t] = "idle" /\ req'[t] = None
           /\ \A s \in Clients \ {t} : pc'[s] = pc[s] /\ req'[s] = req[s]
  BY DEF OpmlTypeOK, Answer, Places

\* A goroutine that goes on to another place keeps its request.
LEMMA GotoType ==
    ASSUME OpmlTypeOK, NEW t \in Clients, NEW place \in Places, Goto(t, place)
    PROVE  /\ pc' \in [Clients -> Places]
           /\ pc'[t] = place
           /\ \A s \in Clients \ {t} : pc'[s] = pc[s]
  BY DEF OpmlTypeOK, Goto

\* A request answered without the lock leaves the rest of the state alone.
LEMMA AnswerKeepsState ==
    ASSUME StateInv, NEW t \in Clients, NEW a \in Answers, Answer(t, a),
           pc[t] \notin {"write", "publish"},
           UNCHANGED <<file, cacheVars, serving, merged>>
    PROVE  StateInv'
  <1>1. /\ pc' \in [Clients -> Places]
        /\ req' \in [Clients -> Requests \cup {None}]
        /\ reply' \in [Clients -> Answers]
        /\ pc'[t] = "idle" /\ req'[t] = None
        /\ \A s \in Clients \ {t} : pc'[s] = pc[s] /\ req'[s] = req[s]
    BY AnswerType DEF StateInv
  <1>2. lock # t
    BY DEF StateInv, OpmlTypeOK
  <1>3. OpmlTypeOK'
    BY <1>1, <1>2 DEF StateInv, OpmlTypeOK, cacheVars
  <1> QED BY <1>1, <1>3 DEF StateInv, cacheVars

LEMMA StateStep == StateInv /\ [Next]_vars => StateInv'
  <1> SUFFICES ASSUME StateInv, [Next]_vars PROVE StateInv'
    OBVIOUS
  <1> USE DEF StateInv
  <1>1. ASSUME NEW t \in Clients, NEW r \in Requests, Ask(t, r) PROVE StateInv'
    <2> DEFINE place == IF cur = NotLoaded THEN "load" ELSE "lock"
    <2>1. Goto(t, place) /\ place \in Places \ {"idle", "write", "publish"}
      BY <1>1 DEF Ask, Places
    <2> HIDE DEF place
    <2>2. /\ pc' \in [Clients -> Places] /\ pc'[t] = place
          /\ \A s \in Clients \ {t} : pc'[s] = pc[s]
      BY <2>1, GotoType
    <2>3. /\ req' \in [Clients -> Requests \cup {None}] /\ req'[t] = r
          /\ \A s \in Clients \ {t} : req'[s] = req[s]
          /\ reply' \in [Clients -> Answers]
      BY <1>1 DEF Ask, OpmlTypeOK, Answers
    <2>4. r # None /\ pc[t] = "idle" /\ lock # t
      BY <1>1, RequestsAssumption, SentinelsAssumption DEF Ask, OpmlTypeOK
    <2>5. OpmlTypeOK'
      BY <1>1, <2>1, <2>2, <2>3, <2>4 DEF Ask, OpmlTypeOK, cacheVars
    <2> QED BY <1>1, <2>2, <2>5 DEF Ask, cacheVars, place
  <1>2. ASSUME NEW t \in Clients, NEW r \in Requests, BadRequest(t, r) PROVE StateInv'
    <2>1. Answer(t, "bad request") /\ pc[t] \notin {"write", "publish"}
      BY <1>2 DEF BadRequest
    <2> QED BY <1>2, <2>1, AnswerKeepsState DEF BadRequest, Answers
  <1>3. ASSUME NEW t \in Clients, EnsureLoaded(t) PROVE StateInv'
    <2>1. cur' \in List /\ Normal(cur')
      BY <1>3, ReadNormal DEF EnsureLoaded, OpmlTypeOK
    <2>2. Goto(t, "lock") /\ lock # t /\ req[t] # None
      BY <1>3 DEF EnsureLoaded, OpmlTypeOK
    <2>3. /\ pc' \in [Clients -> Places] /\ pc'[t] = "lock"
          /\ \A s \in Clients \ {t} : pc'[s] = pc[s]
      BY <2>2, GotoType DEF Places
    <2>4. OpmlTypeOK'
      BY <1>3, <2>1, <2>2, <2>3 DEF EnsureLoaded, OpmlTypeOK
    <2> QED BY <1>3, <2>1, <2>3, <2>4, SentinelsAssumption DEF EnsureLoaded
  <1>4. ASSUME NEW t \in Clients, LoadFails(t) PROVE StateInv'
    <2>1. Answer(t, "error") /\ pc[t] \notin {"write", "publish"}
      BY <1>4 DEF LoadFails
    <2> QED BY <1>4, <2>1, AnswerKeepsState DEF LoadFails, Answers
  <1>5. ASSUME NEW t \in Clients, Show(t) PROVE StateInv'
    <2>1. Answer(t, "ok") /\ pc[t] \notin {"write", "publish"}
      BY <1>5 DEF Show
    <2> QED BY <1>5, <2>1, AnswerKeepsState DEF Show, Answers
  <1>6. ASSUME NEW t \in Clients, Update(t) PROVE StateInv'
    <2>1. cur \in List /\ Normal(cur) /\ req[t] \in Request
      BY <1>6, RequestsAssumption, SentinelsAssumption DEF Update, OpmlTypeOK
    <2>2. work' \in List /\ Normal(work')
      BY <1>6, <2>1, ChangedNormal DEF Update
    <2>3. Goto(t, "write") /\ lock = None /\ lock' = t /\ req[t] # None
      BY <1>6 DEF Update, Acquire, OpmlTypeOK
    <2>4. /\ pc' \in [Clients -> Places] /\ pc'[t] = "write"
          /\ \A s \in Clients \ {t} : pc'[s] = pc[s]
      BY <2>3, GotoType DEF Places
    <2>5. OpmlTypeOK'
      BY <1>6, <2>2, <2>3, <2>4, SentinelsAssumption DEF Update, OpmlTypeOK
    <2> QED BY <1>6, <2>1, <2>2, <2>4, <2>5 DEF Update
  <1>7. ASSUME NEW t \in Clients, Abort(t) PROVE StateInv'
    <2>1. Answer(t, "not found") /\ pc[t] \notin {"write", "publish"}
      BY <1>7 DEF Abort
    <2> QED BY <1>7, <2>1, AnswerKeepsState DEF Abort, Answers
  <1>8. ASSUME NEW t \in Clients, WriteOPML(t) PROVE StateInv'
    <2>1. Goto(t, "publish") /\ lock = t /\ req[t] # None
      BY <1>8 DEF WriteOPML, OpmlTypeOK
    <2>2. /\ pc' \in [Clients -> Places] /\ pc'[t] = "publish"
          /\ \A s \in Clients \ {t} : pc'[s] = pc[s]
      BY <2>1, GotoType DEF Places
    <2>3. file' \in File
      BY <1>8, MarshalType DEF WriteOPML, OpmlTypeOK
    <2>4. OpmlTypeOK'
      BY <1>8, <2>1, <2>2, <2>3 DEF WriteOPML, OpmlTypeOK, cacheVars
    <2> QED BY <1>8, <2>2, <2>4 DEF WriteOPML, cacheVars
  <1>9. ASSUME NEW t \in Clients, WriteFails(t) PROVE StateInv'
    <2>1. Answer(t, "error") /\ lock = t /\ lock' = None
      BY <1>9 DEF WriteFails, OpmlTypeOK
    <2>2. \A s \in Clients \ {t} : pc[s] \notin {"write", "publish"}
      BY <2>1 DEF OpmlTypeOK
    <2>3. /\ pc' \in [Clients -> Places]
          /\ req' \in [Clients -> Requests \cup {None}]
          /\ reply' \in [Clients -> Answers]
          /\ pc'[t] = "idle" /\ req'[t] = None
          /\ \A s \in Clients \ {t} : pc'[s] = pc[s] /\ req'[s] = req[s]
      BY <2>1, AnswerType DEF Answers
    <2>4. None \notin Clients
      BY SentinelsAssumption
    <2>5. OpmlTypeOK'
      BY <1>9, <2>1, <2>2, <2>3, <2>4 DEF WriteFails, OpmlTypeOK
    <2> QED BY <1>9, <2>5, <2>3 DEF WriteFails
  <1>17. ASSUME NEW t \in Clients, WriteUnsynced(t) PROVE StateInv'
    <2>1. Answer(t, "error") /\ lock = t /\ lock' = None
      BY <1>17 DEF WriteUnsynced, OpmlTypeOK
    <2>2. \A s \in Clients \ {t} : pc[s] \notin {"write", "publish"}
      BY <2>1 DEF OpmlTypeOK
    <2>3. /\ pc' \in [Clients -> Places]
          /\ req' \in [Clients -> Requests \cup {None}]
          /\ reply' \in [Clients -> Answers]
          /\ pc'[t] = "idle" /\ req'[t] = None
          /\ \A s \in Clients \ {t} : pc'[s] = pc[s] /\ req'[s] = req[s]
      BY <2>1, AnswerType DEF Answers
    <2>4. None \notin Clients
      BY SentinelsAssumption
    <2>5. OpmlTypeOK'
      BY <1>17, <2>1, <2>2, <2>3, <2>4, MarshalType DEF WriteUnsynced, OpmlTypeOK
    <2> QED BY <1>17, <2>5, <2>3 DEF WriteUnsynced
  <1>10. ASSUME NEW t \in Clients, Publish(t) PROVE StateInv'
    <2>1. Answer(t, "ok") /\ lock = t /\ lock' = None
      BY <1>10 DEF Publish, OpmlTypeOK
    <2>2. \A s \in Clients \ {t} : pc[s] \notin {"write", "publish"}
      BY <2>1 DEF OpmlTypeOK
    <2>3. cur' \in List /\ Normal(cur') /\ cur' # NotLoaded
      BY <1>10, SentinelsAssumption DEF Publish, OpmlTypeOK
    <2>4. /\ pc' \in [Clients -> Places]
          /\ req' \in [Clients -> Requests \cup {None}]
          /\ reply' \in [Clients -> Answers]
          /\ pc'[t] = "idle" /\ req'[t] = None
          /\ \A s \in Clients \ {t} : pc'[s] = pc[s] /\ req'[s] = req[s]
      BY <2>1, AnswerType DEF Answers
    <2>5. None \notin Clients
      BY SentinelsAssumption
    <2>6. OpmlTypeOK'
      BY <1>10, <2>1, <2>2, <2>3, <2>4, <2>5 DEF Publish, OpmlTypeOK
    <2> QED BY <1>10, <2>3, <2>6, <2>4 DEF Publish
  <1>11. ASSUME Serve PROVE StateInv'
    BY <1>11 DEF Serve, OpmlTypeOK, cacheVars
  <1>12. ASSUME Die PROVE StateInv'
    BY <1>12, EmptyNormal, SentinelsAssumption DEF Die, OpmlTypeOK, Places, Answers
  <1>13. ASSUME NEW x \in ImportFiles, ImportLoad(x) PROVE StateInv'
    <2>1. ParseOPML(x) \in List /\ Normal(ParseOPML(x))
      BY FilesAssumption, ParseNormal
    <2>2. Read(file) \in List /\ Normal(Read(file))
      BY ReadNormal DEF OpmlTypeOK
    <2>3. merged' \in List /\ Normal(merged')
      BY <1>13, <2>1, <2>2, ImportedNormal DEF ImportLoad
    <2> QED BY <1>13, <2>3 DEF ImportLoad, OpmlTypeOK, cacheVars
  <1>14. ASSUME ImportSave PROVE StateInv'
    <2>1. file' \in File
      BY <1>14, MarshalType DEF ImportSave, OpmlTypeOK
    <2> QED BY <1>14, <2>1 DEF ImportSave, OpmlTypeOK, cacheVars
  <1>15. ASSUME ImportFails PROVE StateInv'
    BY <1>15 DEF ImportFails, OpmlTypeOK, cacheVars
  <1>16. ASSUME UNCHANGED vars PROVE StateInv'
    BY <1>16 DEF OpmlTypeOK, vars, cacheVars
  <1> QED
    BY <1>1, <1>2, <1>3, <1>4, <1>5, <1>6, <1>7, <1>8, <1>9, <1>10, <1>11, <1>12,
       <1>13, <1>14, <1>15, <1>16, <1>17 DEF Next

LEMMA StateInvariant == Spec => []StateInv
  BY StateInit, StateStep, PTL DEF Spec

\* The variables of FileOPML keep their types, and only the goroutine that
\* holds the lock is writing or publishing.
THEOREM SubscriptionTypes == Spec => []OpmlTypeOK
  <1>1. StateInv => OpmlTypeOK
    BY DEF StateInv
  <1> QED BY <1>1, StateInvariant, PTL

\* No list in memory ever holds the pseudo tag, whatever clients send and
\* whatever the files hold.
THEOREM PseudoTagStaysOut == Spec => []NoReservedTag
  <1>1. StateInv => NoReservedTag
    BY NormalizeIdempotent DEF StateInv, NoReservedTag, Normal
  <1> QED BY <1>1, StateInvariant, PTL

-----------------------------------------------------------------------------
(***************************************************************************)
(* Lists and files that survive being written and read.                    *)
(***************************************************************************)
PlainTags(T) == \A t \in T : \E w \in Words : t = {w}

PlainList(o) == \A u \in DOMAIN o : PlainTags(o[u].tags) /\ o[u].title # Blank

PlainFile(x) == \A u \in DOMAIN x : PlainTags({x[u].folder} \ {{}})

\* No comma in a tag a client sends or in the folder of a file, no title of
\* white space, and no import beside the server.
Plain ==
    /\ ~ImportBeside
    /\ Blank \notin Urls
    /\ \A x \in Found \cup ImportFiles : PlainFile(x)
    /\ \A r \in Requests :
          /\ r.op = "subscribe" => r.title # Blank /\ PlainTags(r.tags)
          /\ r.op = "edit"      => r.title # Blank /\ PlainTags(r.add)
          /\ r.op = "rename"    => PlainTags({r.new})

LEMMA RoundTrip ==
    ASSUME NEW o \in List, Normal(o), PlainList(o)
    PROVE  ParseOPML(Marshal(o)) = o /\ PlainFile(Marshal(o))
  <1> DEFINE m == Marshal(o)
  <1>1. /\ DOMAIN m = DOMAIN o
        /\ \A u \in DOMAIN o : m[u] = [title |-> o[u].title, folder |-> {},
                                      category |-> UNION NormalizeTags(o[u].tags)]
    BY DEF Marshal
  <1> HIDE DEF m
  <1>2. ASSUME NEW u \in DOMAIN o
        PROVE  ParseOPML(m)[u] = o[u]
    <2> DEFINE T == ({m[u].folder} \ {{}}) \cup {{w} : w \in m[u].category}
    <2>1. o[u] \in Feed /\ o[u].tags = NormalizeTags(o[u].tags) /\ o[u].title # Blank
      BY ListElements DEF Normal, PlainList
    <2>2. m[u].folder = {} /\ m[u].title = o[u].title /\ m[u].category = UNION o[u].tags
      <3>1. m[u] = [title |-> o[u].title, folder |-> {},
                    category |-> UNION NormalizeTags(o[u].tags)]
        BY <1>1
      <3>2. UNION NormalizeTags(o[u].tags) = UNION o[u].tags
        BY <2>1
      <3> QED BY <3>1, <3>2
    <2>3. T = o[u].tags
      <3>1. ASSUME NEW e \in T PROVE e \in o[u].tags
        <4>1. PICK w \in UNION o[u].tags : e = {w}
          BY <2>2, <3>1
        <4>2. PICK t \in o[u].tags : w \in t
          BY <4>1
        <4>3. t = {w}
          BY <4>2 DEF PlainList, PlainTags
        <4> QED BY <4>1, <4>2, <4>3
      <3>2. ASSUME NEW t \in o[u].tags PROVE t \in T
        <4>1. PICK w \in Words : t = {w}
          BY DEF PlainList, PlainTags
        <4>2. w \in m[u].category
          BY <2>2, <4>1
        <4> QED BY <4>1, <4>2
      <3> QED BY <3>1, <3>2
    <2>4. ParseOPML(m)[u] = [title |-> IF m[u].title = Blank THEN u ELSE m[u].title,
                             tags |-> NormalizeTags(T)]
      BY <1>1 DEF ParseOPML
    <2> HIDE DEF T
    <2>5. ParseOPML(m)[u] = [title |-> o[u].title, tags |-> o[u].tags]
      BY <2>1, <2>2, <2>3, <2>4
    <2> QED BY <2>1, <2>5 DEF Feed
  <1>3. ParseOPML(m) = [u \in DOMAIN o |-> ParseOPML(m)[u]]
    BY <1>1 DEF ParseOPML
  <1>4. ParseOPML(m) = o
    BY <1>2, <1>3, ListElements
  <1>5. PlainFile(m)
    BY <1>1 DEF PlainFile, PlainTags
  <1> QED BY <1>4, <1>5 DEF m

LEMMA ReadSaved ==
    ASSUME NEW o \in List, Normal(o), PlainList(o)
    PROVE  Read(Marshal(o)) = o
  BY RoundTrip, MarshalType, SentinelsAssumption DEF Read

LEMMA ParsePlain ==
    ASSUME Plain, NEW x \in File, PlainFile(x)
    PROVE  PlainList(ParseOPML(x))
  <1> SUFFICES ASSUME NEW u \in DOMAIN x
               PROVE  /\ PlainTags(ParseOPML(x)[u].tags)
                      /\ ParseOPML(x)[u].title # Blank
    BY DEF PlainList, ParseOPML
  <1> DEFINE T == ({x[u].folder} \ {{}}) \cup {{w} : w \in x[u].category}
  <1>1. u \in Urls /\ x[u].category \subseteq Words
    BY FileElements DEF Outline
  <1>2. PlainTags(T)
    BY <1>1 DEF PlainFile, PlainTags
  <1>3. /\ ParseOPML(x)[u].tags = NormalizeTags(T)
        /\ ParseOPML(x)[u].title = IF x[u].title = Blank THEN u ELSE x[u].title
    BY DEF ParseOPML
  <1> HIDE DEF T
  <1> QED BY <1>1, <1>2, <1>3 DEF PlainTags, NormalizeTags, Plain

LEMMA ReadPlain ==
    ASSUME Plain, NEW x \in File \cup {NoFile}, x # NoFile => PlainFile(x)
    PROVE  PlainList(Read(x))
  BY ParsePlain DEF Read, PlainList, Empty

\* What a request makes of a plain list is plain.
LEMMA ChangedPlain ==
    ASSUME Plain, NEW r \in Requests, NEW o \in List, PlainList(o), ~Aborts(r, o)
    PROVE  PlainList(Changed(r, o))
  <1>0. r \in Request
    BY RequestsAssumption
  <1>1. CASE r \in [op : {"subscribe"}, url : Urls, title : Titles \cup {NoTitle},
                    tags : SUBSET Tag]
    <2> DEFINE f == [title |-> IF r.title = NoTitle THEN r.url ELSE r.title, tags |-> r.tags]
    <2>1. Changed(r, o) = Add(o, r.url, f)
      BY <1>1 DEF Changed
    <2>2. f.title # Blank /\ PlainTags(f.tags)
      BY <1>1 DEF Plain
    <2> HIDE DEF f
    <2>3. f = [title |-> f.title, tags |-> f.tags]
      BY DEF f
    <2> QED BY <2>1, <2>2, <2>3 DEF Add, PlainList, PlainTags, NormalizeTags
  <1>2. CASE r \in [op : {"unsubscribe"}, url : Urls]
    <2>1. Changed(r, o) = Remove(o, r.url)
      BY <1>2 DEF Changed
    <2> QED BY <2>1 DEF Remove, PlainList
  <1>3. CASE r \in [op : {"edit"}, url : Urls, title : Titles \cup {NoTitle},
                    add : SUBSET Tag, remove : SUBSET Tag]
    <2> DEFINE g == [title |-> IF r.title = NoTitle THEN o[r.url].title ELSE r.title,
                     tags |-> (o[r.url].tags \cup NormalizeTags(r.add)) \ r.remove]
    <2>1. Changed(r, o) = [o EXCEPT ![r.url] = g]
      BY <1>3 DEF Changed, Edit
    <2>2. r.url \in DOMAIN o
      BY <1>3 DEF Aborts
    <2>3. g.title # Blank
      BY <1>3, <2>2 DEF Plain, PlainList
    <2>4. PlainTags(g.tags)
      BY <1>3, <2>2 DEF Plain, PlainList, PlainTags, NormalizeTags
    <2> HIDE DEF g
    <2> QED BY <2>1, <2>2, <2>3, <2>4 DEF PlainList
  <1>4. CASE r \in [op : {"rename"}, old : Tag, new : Tag]
    <2>1. Changed(r, o) = RenameTag(o, r.old, r.new)
      BY <1>4 DEF Changed
    <2>2. PlainTags({r.new})
      BY <1>4 DEF Plain
    <2>3. ASSUME NEW u \in DOMAIN o
          PROVE  /\ PlainTags(RenameTag(o, r.old, r.new)[u].tags)
                 /\ RenameTag(o, r.old, r.new)[u].title # Blank
      <3> DEFINE tags == NormalizeTags((o[u].tags \ {r.old}) \cup {r.new})
      <3>1. o[u] \in Feed /\ PlainTags(o[u].tags) /\ o[u].title # Blank
        BY ListElements DEF PlainList
      <3>2. PlainTags(tags)
        BY <2>2, <3>1 DEF PlainTags, NormalizeTags
      <3>3. RenameTag(o, r.old, r.new)[u] =
              IF r.old \in o[u].tags /\ r.old # r.new
              THEN [o[u] EXCEPT !.tags = tags] ELSE o[u]
        BY DEF RenameTag
      <3> HIDE DEF tags
      <3>4. /\ [o[u] EXCEPT !.tags = tags].tags = tags
            /\ [o[u] EXCEPT !.tags = tags].title = o[u].title
        BY <3>1 DEF Feed
      <3> QED BY <3>1, <3>2, <3>3, <3>4
    <2>4. DOMAIN RenameTag(o, r.old, r.new) = DOMAIN o
      BY DEF RenameTag
    <2> QED BY <2>1, <2>3, <2>4 DEF PlainList
  <1>5. CASE r \in [op : {"disable"}, name : Tag]
    <2>1. Changed(r, o) = DisableTag(o, r.name)
      BY <1>5 DEF Changed
    <2>2. ASSUME NEW u \in DOMAIN o
          PROVE  /\ PlainTags(DisableTag(o, r.name)[u].tags)
                 /\ DisableTag(o, r.name)[u].title # Blank
      <3> DEFINE tags == o[u].tags \ {r.name}
      <3>1. o[u] \in Feed /\ PlainTags(o[u].tags) /\ o[u].title # Blank
        BY ListElements DEF PlainList
      <3>2. PlainTags(tags)
        BY <3>1 DEF PlainTags
      <3>3. DisableTag(o, r.name)[u] = [o[u] EXCEPT !.tags = tags]
        BY DEF DisableTag
      <3> HIDE DEF tags
      <3>4. /\ [o[u] EXCEPT !.tags = tags].tags = tags
            /\ [o[u] EXCEPT !.tags = tags].title = o[u].title
        BY <3>1 DEF Feed
      <3> QED BY <3>1, <3>2, <3>3, <3>4
    <2>3. DOMAIN DisableTag(o, r.name) = DOMAIN o
      BY DEF DisableTag
    <2> QED BY <2>1, <2>2, <2>3 DEF PlainList
  <1>6. CASE r \in [op : {"list"}]
    <2>1. Changed(r, o) = o
      BY <1>6 DEF Changed
    <2> QED BY <2>1
  <1> QED BY <1>0, <1>1, <1>2, <1>3, <1>4, <1>5, <1>6 DEF Request

LEMMA ImportedPlain ==
    ASSUME NEW inc, PlainList(inc), NEW o, PlainList(o)
    PROVE  PlainList(Imported(inc, o))
  BY DEF PlainList, Imported

-----------------------------------------------------------------------------
(***************************************************************************)
(* How the file and the lists in memory hang together: the file reads as   *)
(* the cached list or, after a write that failed late, as that list with   *)
(* the refused request on it, but between WriteOPML and Publish as the     *)
(* copy being published; the copy is what the request makes of the cached  *)
(* list; and the list about to be imported extends the one in the file.    *)
(***************************************************************************)
SavedInv ==
    /\ file # NoFile => PlainFile(file)
    /\ \A o \in {cur, work, merged} \ {NotLoaded} : PlainList(o)
    /\ \A t \in Clients : pc[t] = "write" =>
          ~Aborts(req[t], cur) /\ work = Changed(req[t], cur)
    /\ \A t \in Clients : pc[t] = "publish" => Read(file) = work
    /\ cur # NotLoaded /\ (\A t \in Clients : pc[t] # "publish") =>
          Read(file) \in Restarted(cur)
    /\ merged # NotLoaded =>
          /\ ~serving
          /\ \E x \in ImportFiles : merged = Imported(ParseOPML(x), Read(file))

LEMMA SavedInit == ASSUME Plain PROVE Init => SavedInv
  <1> SUFFICES ASSUME Init PROVE SavedInv
    OBVIOUS
  <1>1. PlainList(Empty)
    BY DEF PlainList, Empty
  <1> QED BY <1>1 DEF Init, SavedInv, Plain

\* The steps of one goroutine.
LEMMA SavedRequestStep ==
    ASSUME Plain, StateInv, StateInv', SavedInv, NEW t \in Clients,
           \/ \E r \in Requests : Ask(t, r) \/ BadRequest(t, r)
           \/ EnsureLoaded(t) \/ LoadFails(t) \/ Show(t)
           \/ Update(t) \/ Abort(t)
           \/ WriteOPML(t) \/ WriteFails(t) \/ WriteUnsynced(t) \/ Publish(t)
    PROVE  SavedInv'
  <1>0. /\ OpmlTypeOK /\ OpmlTypeOK' /\ pc \in [Clients -> Places]
        /\ req \in [Clients -> Requests \cup {None}]
    BY DEF StateInv, OpmlTypeOK
  <1>h. \A s, u \in Clients : pc[s] \in {"write", "publish"} /\ pc[u] \in {"write", "publish"}
            => s = u
    BY DEF StateInv, OpmlTypeOK
  <1>s. pc[t] # "idle" => serving
    BY DEF StateInv
  <1>m. serving => merged = NotLoaded
    BY DEF SavedInv
  <1>1. ASSUME NEW r \in Requests, Ask(t, r) PROVE SavedInv'
    <2>1. /\ \A s \in Clients \ {t} : pc'[s] = pc[s] /\ req'[s] = req[s]
          /\ pc'[t] \in {"load", "lock"} /\ pc[t] = "idle"
      BY <1>0, <1>1 DEF Ask, Goto
    <2> QED BY <1>1, <2>1 DEF Ask, cacheVars, SavedInv
  <1>2. ASSUME NEW a \in Answers, Answer(t, a), pc[t] \notin {"write", "publish"},
               UNCHANGED <<file, cacheVars, serving, merged>>
        PROVE  SavedInv'
    <2>1. /\ \A s \in Clients \ {t} : pc'[s] = pc[s] /\ req'[s] = req[s]
          /\ pc'[t] = "idle"
      BY <1>0, <1>2, AnswerType
    <2> QED BY <1>2, <2>1 DEF cacheVars, SavedInv
  <1>3. ASSUME EnsureLoaded(t) PROVE SavedInv'
    <2>1. /\ \A s \in Clients \ {t} : pc'[s] = pc[s]
          /\ pc'[t] = "lock" /\ pc[t] = "load"
      BY <1>0, <1>3 DEF EnsureLoaded, Goto
    <2>2. PlainList(Read(file))
      BY <1>0, ReadPlain DEF SavedInv, OpmlTypeOK
    <2>3. CASE cur = NotLoaded
      <3>1. cur' = Read(file) /\ \A s \in Clients : pc[s] \notin {"write", "publish"}
        BY <1>3, <2>3 DEF EnsureLoaded, StateInv
      <3>2. Read(file) \in Restarted(cur')
        BY <3>1 DEF Restarted
      <3> QED BY <1>3, <2>1, <2>2, <3>1, <3>2 DEF EnsureLoaded, SavedInv
    <2>4. CASE cur # NotLoaded
      <3>1. cur' = cur
        BY <1>3, <2>4 DEF EnsureLoaded
      <3> QED BY <1>3, <2>1, <3>1 DEF EnsureLoaded, SavedInv
    <2> QED BY <2>3, <2>4
  <1>4. ASSUME Update(t) PROVE SavedInv'
    <2>1. /\ \A s \in Clients \ {t} : pc'[s] = pc[s]
          /\ pc'[t] = "write" /\ pc[t] = "lock" /\ lock = None
      BY <1>0, <1>4 DEF Update, Goto, Acquire
    <2>2. \A s \in Clients : pc[s] \notin {"write", "publish"}
      BY <1>0, <2>1, SentinelsAssumption DEF OpmlTypeOK
    <2>3. cur \in List /\ cur # NotLoaded /\ PlainList(cur) /\ req[t] \in Requests
      BY <1>0, <2>1 DEF StateInv, SavedInv, OpmlTypeOK
    <2>4. work' = Changed(req[t], cur) /\ ~Aborts(req[t], cur) /\ PlainList(work')
      BY <1>4, <2>3, ChangedPlain DEF Update
    <2> QED BY <1>4, <2>1, <2>2, <2>4 DEF Update, SavedInv
  <1>5. ASSUME WriteOPML(t) PROVE SavedInv'
    <2>1. /\ \A s \in Clients \ {t} : pc'[s] = pc[s]
          /\ pc'[t] = "publish" /\ pc[t] = "write" /\ file' = Marshal(work)
      BY <1>0, <1>5 DEF WriteOPML, Goto
    <2>2. \A s \in Clients \ {t} : pc[s] \notin {"write", "publish"}
      BY <1>h, <2>1
    <2>3. work \in List /\ work # NotLoaded /\ Normal(work) /\ PlainList(work)
      BY <1>0, SentinelsAssumption DEF StateInv, SavedInv, OpmlTypeOK
    <2>4. Read(file') = work /\ PlainFile(file')
      BY <2>1, <2>3, ReadSaved, RoundTrip
    <2>5. merged = NotLoaded
      BY <1>s, <1>m, <2>1
    <2> QED BY <1>5, <2>1, <2>2, <2>4, <2>5 DEF WriteOPML, cacheVars, SavedInv
  <1>6. ASSUME WriteFails(t) PROVE SavedInv'
    <2>1. /\ \A s \in Clients \ {t} : pc'[s] = pc[s] /\ req'[s] = req[s]
          /\ pc'[t] = "idle" /\ pc[t] = "write"
      BY <1>0, <1>6 DEF WriteFails, Answer
    <2> QED BY <1>6, <2>1 DEF WriteFails, SavedInv
  <1>8. ASSUME WriteUnsynced(t) PROVE SavedInv'
    <2>1. /\ \A s \in Clients \ {t} : pc'[s] = pc[s] /\ req'[s] = req[s]
          /\ pc'[t] = "idle" /\ pc[t] = "write" /\ file' = Marshal(work) /\ cur' = cur
      BY <1>0, <1>8 DEF WriteUnsynced, Answer
    <2>2. \A s \in Clients \ {t} : pc[s] \notin {"write", "publish"}
      BY <1>h, <2>1
    <2>3. work \in List /\ work # NotLoaded /\ Normal(work) /\ PlainList(work)
      BY <1>0, SentinelsAssumption DEF StateInv, SavedInv, OpmlTypeOK
    <2>4. Read(file') = work /\ PlainFile(file')
      BY <2>1, <2>3, ReadSaved, RoundTrip
    <2>5. merged = NotLoaded
      BY <1>s, <1>m, <2>1
    <2>6. /\ req[t] \in Requests /\ Unsynced
          /\ ~Aborts(req[t], cur) /\ work = Changed(req[t], cur)
      BY <1>0, <1>8, <2>1 DEF WriteUnsynced, SavedInv, OpmlTypeOK
    <2>7. Read(file') \in Restarted(cur')
      BY <2>1, <2>4, <2>6 DEF Restarted
    <2> QED BY <1>8, <2>1, <2>2, <2>4, <2>5, <2>7 DEF WriteUnsynced, SavedInv
  <1>7. ASSUME Publish(t) PROVE SavedInv'
    <2>1. /\ \A s \in Clients \ {t} : pc'[s] = pc[s] /\ req'[s] = req[s]
          /\ pc'[t] = "idle" /\ pc[t] = "publish"
      BY <1>0, <1>7 DEF Publish, Answer
    <2>2. \A s \in Clients \ {t} : pc[s] \notin {"write", "publish"}
      BY <1>h, <2>1
    <2>3. Read(file) = work /\ work # NotLoaded /\ PlainList(work)
      BY <1>0, <2>1, SentinelsAssumption DEF SavedInv, OpmlTypeOK
    <2>4. cur' = work /\ Read(file) \in Restarted(work)
      BY <1>7, <2>3 DEF Publish, Restarted
    <2> QED BY <1>7, <2>1, <2>2, <2>3, <2>4 DEF Publish, SavedInv
  <1> QED
    BY <1>1, <1>2, <1>3, <1>4, <1>5, <1>6, <1>7, <1>8
    DEF BadRequest, LoadFails, Show, Abort, Answers

LEMMA SavedStep ==
    ASSUME Plain PROVE StateInv /\ StateInv' /\ SavedInv /\ [Next]_vars => SavedInv'
  <1> SUFFICES ASSUME StateInv, StateInv', SavedInv, [Next]_vars PROVE SavedInv'
    OBVIOUS
  <1>1. CASE Serve
    BY <1>1 DEF Serve, Plain, SavedInv, cacheVars
  <1>2. CASE Die
    <2>1. PlainList(Empty)
      BY DEF PlainList, Empty
    <2> QED BY <1>2, <2>1 DEF Die, SavedInv
  <1>3. ASSUME NEW x \in ImportFiles, ImportLoad(x) PROVE SavedInv'
    <2>1. PlainList(ParseOPML(x)) /\ PlainList(Read(file))
      BY FilesAssumption, ParsePlain, ReadPlain DEF Plain, SavedInv, StateInv, OpmlTypeOK
    <2>2. PlainList(merged')
      BY <1>3, <2>1, ImportedPlain DEF ImportLoad
    <2>3. ~serving
      BY <1>3 DEF ImportLoad, Plain
    <2> QED BY <1>3, <2>2, <2>3 DEF ImportLoad, SavedInv, cacheVars
  <1>4. CASE ImportSave
    <2>1. merged \in List /\ Normal(merged) /\ PlainList(merged)
      BY <1>4 DEF ImportSave, SavedInv, StateInv, OpmlTypeOK
    <2>2. PlainFile(file')
      BY <1>4, <2>1, RoundTrip DEF ImportSave
    <2>3. cur = NotLoaded /\ \A t \in Clients : pc[t] = "idle"
      BY <1>4 DEF ImportSave, SavedInv, StateInv
    <2> QED BY <1>4, <2>2, <2>3 DEF ImportSave, SavedInv, cacheVars
  <1>5. CASE ImportFails
    BY <1>5 DEF ImportFails, SavedInv, cacheVars
  <1>6. CASE UNCHANGED vars
    BY <1>6 DEF SavedInv, vars, cacheVars
  <1> QED BY <1>1, <1>2, <1>3, <1>4, <1>5, <1>6, SavedRequestStep DEF Next

LEMMA SavedInvariant == ASSUME Plain PROVE Spec => []SavedInv
  BY SavedInit, SavedStep, StateInvariant, PTL DEF Spec

\* Whenever nobody is changing the list, what the server shows is what a
\* restart would bring back: answered changes are in the file, and of the
\* refused ones at most the last whose write failed after its rename.
THEOREM ServedIsSaved == ASSUME Plain PROVE Spec => []ServedSurvivesRestart
  <1>1. StateInv /\ SavedInv => ServedSurvivesRestart
    BY SentinelsAssumption DEF StateInv, SavedInv, OpmlTypeOK, ServedSurvivesRestart
  <1> QED BY <1>1, StateInvariant, SavedInvariant, PTL

\* Where a directory can always be opened to be synced, the file is what the
\* server shows, and no refused change is in it.
THEOREM SyncedListIsSaved ==
    ASSUME Plain, ~Unsynced
    PROVE  Spec => [](cur # NotLoaded /\ lock = None => Read(file) = cur)
  <1>1. ServedSurvivesRestart => (cur # NotLoaded /\ lock = None => Read(file) = cur)
    BY DEF ServedSurvivesRestart, Restarted
  <1> QED BY <1>1, ServedIsSaved, PTL

-----------------------------------------------------------------------------
(* The refinement.                                                         *)

LEMMA SameOperators ==
    /\ SL!Empty = Empty
    /\ SL!List = List
    /\ \A r, o : SL!Changed(r, o) = Changed(r, o)
    /\ \A r, o : SL!Aborts(r, o) <=> Aborts(r, o)
    /\ \A inc, o : SL!Imported(inc, o) = Imported(inc, o)
  BY DEF SL!Empty, Empty, SL!List, List, SL!Feed, Feed, SL!Tag, Tag,
         SL!Changed, Changed, SL!Add, Add, SL!Remove, Remove, SL!Edit, Edit,
         SL!RenameTag, RenameTag, SL!DisableTag, DisableTag,
         SL!NormalizeTags, NormalizeTags, SL!IsReservedTag, IsReservedTag,
         SL!Aborts, Aborts, SL!Imported, Imported

Pending == [t \in Clients |-> IF pc[t] = "publish" THEN Done ELSE req[t]]

\* Answering t is settling t, in the eyes of the abstract list.
LEMMA AnswerSettles ==
    ASSUME StateInv, NEW t \in Clients, NEW a \in Answers, Answer(t, a)
    PROVE  /\ Pending' = [Pending EXCEPT ![t] = None]
           /\ reply' = [reply EXCEPT ![t] = a]
  <1>1. /\ pc'[t] = "idle" /\ req'[t] = None
        /\ \A s \in Clients \ {t} : pc'[s] = pc[s] /\ req'[s] = req[s]
    BY AnswerType DEF StateInv
  <1> QED BY <1>1 DEF Pending, Answer

\* The list shown depends on the file, the cached list, the copy and on
\* whether somebody is publishing it.
LEMMA ServedSame ==
    ASSUME UNCHANGED <<file, cur, work>>,
           \A s \in Clients : pc'[s] = "publish" <=> pc[s] = "publish"
    PROVE  Served' = Served
  BY DEF Served

LEMMA ListInitially == Init => SL!ListInit
  <1> SUFFICES ASSUME Init PROVE SL!ListInit
    OBVIOUS
  <1>1. Read(file) \in List
    BY ReadNormal, FilesAssumption DEF Init
  <1>2. Pending = [t \in Clients |-> None]
    BY DEF Init, Pending
  <1>3. Served = Read(file)
    BY DEF Init, Served
  <1> QED BY <1>1, <1>2, <1>3, SameOperators DEF SL!ListInit, Init, Pending

LEMMA ListRequestStep ==
    ASSUME Plain, StateInv, SavedInv, SavedInv', NEW t \in Clients,
           \/ \E r \in Requests : Ask(t, r) \/ BadRequest(t, r)
           \/ EnsureLoaded(t) \/ LoadFails(t) \/ Show(t)
           \/ Update(t) \/ Abort(t)
           \/ WriteOPML(t) \/ WriteFails(t) \/ WriteUnsynced(t) \/ Publish(t)
    PROVE  SL!ListNext \/ UNCHANGED <<Read(file), Served, Pending, reply>>
  <1> USE DEF StateInv
  <1>0. /\ pc \in [Clients -> Places] /\ req \in [Clients -> Requests \cup {None}]
        /\ \A s \in Clients : (pc[s] = "idle") <=> (req[s] = None)
        /\ \A s \in Clients : (pc[s] \in {"write", "publish"}) <=> (lock = s)
    BY DEF OpmlTypeOK
  <1>p. \A s \in Clients : Pending[s] = IF pc[s] = "publish" THEN Done ELSE req[s]
    BY DEF Pending
  <1>d. \A r \in Requests : r # None /\ r # Done
    BY RequestsAssumption, SentinelsAssumption
  <1>e. None # Done
    BY SentinelsAssumption
  \* Whoever is past the load and does not see the lock held sees the list
  \* that is shown.
  <1>c. pc[t] = "lock" /\ lock = None => cur # NotLoaded /\ Served = cur
    <2>1. lock = None => \A s \in Clients : pc[s] # "publish"
      BY <1>0, SentinelsAssumption
    <2> QED BY <2>1 DEF Served
  \* So does the one that is about to write.
  <1>w. pc[t] = "write" =>
            /\ cur # NotLoaded /\ Served = cur
            /\ \A s \in Clients : pc[s] # "publish"
            /\ req[t] \in Requests /\ Pending[t] = req[t] /\ Pending[t] \notin {None, Done}
            /\ ~Aborts(req[t], cur) /\ work = Changed(req[t], cur)
    <2> SUFFICES ASSUME pc[t] = "write"
                 PROVE  /\ cur # NotLoaded /\ Served = cur
                        /\ \A s \in Clients : pc[s] # "publish"
                        /\ req[t] \in Requests /\ Pending[t] = req[t]
                        /\ Pending[t] \notin {None, Done}
                        /\ ~Aborts(req[t], cur) /\ work = Changed(req[t], cur)
      OBVIOUS
    <2>1. cur # NotLoaded /\ \A s \in Clients : pc[s] # "publish"
      BY <1>0
    <2>2. Served = cur
      BY <2>1 DEF Served
    <2>3. req[t] \in Requests
      BY <1>0
    <2> QED BY <1>p, <1>d, <2>1, <2>2, <2>3 DEF SavedInv
  \* An answer to one that does not publish leaves what is shown.
  <1>a. ASSUME NEW a \in Answers, Answer(t, a), UNCHANGED <<file, cur, work>>,
               pc[t] # "publish"
        PROVE  Served' = Served
    <2>1. pc'[t] = "idle" /\ \A s \in Clients \ {t} : pc'[s] = pc[s]
      BY <1>0, <1>a DEF Answer
    <2> QED BY <1>a, <2>1, ServedSame
  <1>1. ASSUME NEW r \in Requests, Ask(t, r) PROVE SL!Demand(t, r)
    <2>1. /\ pc'[t] # "publish" /\ pc[t] = "idle" /\ req'[t] = r
          /\ \A s \in Clients \ {t} : pc'[s] = pc[s] /\ req'[s] = req[s]
      BY <1>0, <1>1 DEF Ask, Goto
    <2>2. Pending[t] = None
      BY <1>0, <1>p, <2>1
    <2>3. Pending' = [Pending EXCEPT ![t] = r]
      BY <2>1 DEF Pending
    <2>4. Served' = Served
      BY <1>1, <2>1, ServedSame DEF Ask, cacheVars
    <2> QED BY <1>1, <2>2, <2>3, <2>4 DEF SL!Demand, Ask, Pending
  <1>2. ASSUME NEW r \in Requests, BadRequest(t, r) PROVE SL!Reject(t)
    <2>1. Pending[t] = None
      BY <1>0, <1>p, <1>2 DEF BadRequest
    <2>2. /\ Pending' = [Pending EXCEPT ![t] = None]
          /\ reply' = [reply EXCEPT ![t] = "bad request"]
      BY <1>2, AnswerSettles DEF BadRequest, Answers
    <2>3. Served' = Served
      BY <1>2, <1>a DEF BadRequest, cacheVars, Answers
    <2> QED BY <1>2, <2>1, <2>2, <2>3 DEF SL!Reject, SL!Settle, BadRequest, Pending
  <1>3. ASSUME EnsureLoaded(t) PROVE UNCHANGED <<Read(file), Served, Pending, reply>>
    <2>1. /\ pc'[t] = "lock" /\ pc[t] = "load" /\ req' = req /\ file' = file /\ reply' = reply
          /\ work' = work /\ lock = None
          /\ cur' = IF cur = NotLoaded THEN Read(file) ELSE cur
          /\ \A s \in Clients \ {t} : pc'[s] = pc[s]
      BY <1>0, <1>3 DEF EnsureLoaded, Goto
    <2>2. \A s \in Clients : pc[s] # "publish" /\ pc'[s] # "publish"
      BY <1>0, <2>1, SentinelsAssumption
    <2>3. Served' = Served
      BY <2>1, <2>2 DEF Served
    <2> QED BY <2>1, <2>3 DEF Pending
  <1>4. ASSUME LoadFails(t) PROVE SL!Fail(t)
    <2>1. Pending[t] \notin {None, Done}
      BY <1>0, <1>p, <1>d, <1>4 DEF LoadFails
    <2>2. /\ Pending' = [Pending EXCEPT ![t] = None]
          /\ reply' = [reply EXCEPT ![t] = "error"]
      BY <1>4, AnswerSettles DEF LoadFails, Answers
    <2>3. Served' = Served
      BY <1>4, <1>a DEF LoadFails, cacheVars, Answers
    <2> QED BY <1>4, <2>1, <2>2, <2>3 DEF SL!Fail, SL!Settle, LoadFails, Pending
  <1>5. ASSUME Show(t) PROVE SL!Show(t)
    <2>1. Pending[t] = req[t] /\ Pending[t] \notin {None, Done}
      BY <1>0, <1>p, <1>d, <1>5 DEF Show
    <2>2. /\ Pending' = [Pending EXCEPT ![t] = None]
          /\ reply' = [reply EXCEPT ![t] = "ok"]
      BY <1>5, AnswerSettles DEF Show, Answers
    <2>3. Served' = Served
      BY <1>5, <1>a DEF Show, cacheVars, Answers
    <2> QED BY <1>5, <2>1, <2>2, <2>3 DEF SL!Show, SL!Settle, Show, Pending
  <1>6. ASSUME Update(t) PROVE UNCHANGED <<Read(file), Served, Pending, reply>>
    <2>1. /\ pc'[t] = "write" /\ pc[t] = "lock" /\ req' = req /\ file' = file /\ reply' = reply
          /\ cur' = cur /\ lock = None
          /\ \A s \in Clients \ {t} : pc'[s] = pc[s]
      BY <1>0, <1>6 DEF Update, Goto, Acquire
    <2>2. \A s \in Clients : pc[s] # "publish" /\ pc'[s] # "publish"
      BY <1>0, <2>1, SentinelsAssumption
    <2>3. Served' = Served
      BY <2>1, <2>2 DEF Served
    <2> QED BY <2>1, <2>3 DEF Pending
  <1>7. ASSUME Abort(t) PROVE SL!NotThere(t)
    <2>1. /\ Pending[t] = req[t] /\ Pending[t] \notin {None, Done}
          /\ Aborts(req[t], Served)
      BY <1>0, <1>p, <1>d, <1>c, <1>7 DEF Abort
    <2>2. /\ Pending' = [Pending EXCEPT ![t] = None]
          /\ reply' = [reply EXCEPT ![t] = "not found"]
      BY <1>7, AnswerSettles DEF Abort, Answers
    <2>3. SL!Aborts(Pending[t], Served)
      BY <2>1, SameOperators
    <2>4. Served' = Served
      BY <1>7, <1>a DEF Abort, cacheVars, Answers
    <2> QED BY <1>7, <2>1, <2>2, <2>3, <2>4 DEF SL!NotThere, SL!Settle, Abort, Pending
  <1>8. ASSUME WriteOPML(t) PROVE SL!Effect(t)
    <2>1. /\ pc'[t] = "publish" /\ pc[t] = "write" /\ req' = req /\ reply' = reply
          /\ work' = work /\ cur' = cur /\ \A s \in Clients \ {t} : pc'[s] = pc[s]
      BY <1>0, <1>8 DEF WriteOPML, Goto, cacheVars
    <2>2. Read(file)' = work
      BY <2>1 DEF SavedInv
    <2>3. Served' = work
      BY <1>w, <2>1 DEF Served
    <2>4. Pending' = [Pending EXCEPT ![t] = Done]
      BY <2>1 DEF Pending
    <2>5. /\ ~SL!Aborts(Pending[t], Served)
          /\ Served' = SL!Changed(Pending[t], Served)
      BY <1>w, <2>1, <2>3, SameOperators
    <2> QED BY <1>w, <2>1, <2>2, <2>3, <2>4, <2>5 DEF SL!Effect, Pending
  <1>9. ASSUME WriteFails(t) PROVE SL!Fail(t)
    <2>1. pc[t] = "write" /\ Pending[t] \notin {None, Done}
      BY <1>w, <1>9 DEF WriteFails
    <2>2. /\ Pending' = [Pending EXCEPT ![t] = None]
          /\ reply' = [reply EXCEPT ![t] = "error"]
      BY <1>9, AnswerSettles DEF WriteFails, Answers
    <2>3. Served' = Served
      BY <1>9, <1>a, <2>1 DEF WriteFails, Answers
    <2> QED BY <1>9, <2>1, <2>2, <2>3 DEF SL!Fail, SL!Settle, WriteFails, Pending
  <1>10. ASSUME WriteUnsynced(t) PROVE SL!FailLate(t)
    <2>1. /\ pc[t] = "write" /\ pc'[t] = "idle" /\ file' = Marshal(work) /\ cur' = cur
          /\ \A s \in Clients \ {t} : pc'[s] = pc[s]
      BY <1>0, <1>10 DEF WriteUnsynced, Answer
    <2>2. /\ Pending' = [Pending EXCEPT ![t] = None]
          /\ reply' = [reply EXCEPT ![t] = "error"]
      BY <1>10, AnswerSettles DEF WriteUnsynced, Answers
    <2>3. work \in List /\ Normal(work) /\ PlainList(work)
      BY SentinelsAssumption DEF SavedInv, OpmlTypeOK
    <2>4. Read(file)' = work
      BY <2>1, <2>3, ReadSaved
    <2>5. Served' = Served
      BY <1>w, <2>1 DEF Served
    <2>6. /\ ~SL!Aborts(Pending[t], Served)
          /\ Read(file)' = SL!Changed(Pending[t], Served)
      BY <1>w, <2>1, <2>4, SameOperators
    <2>7. Unsynced /\ Pending[t] \notin {None, Done}
      BY <1>10, <1>w DEF WriteUnsynced
    <2> QED BY <2>2, <2>5, <2>6, <2>7 DEF SL!FailLate, SL!Settle, Pending
  <1>11. ASSUME Publish(t) PROVE SL!Acknowledge(t)
    <2>1. pc[t] = "publish" /\ Pending[t] = Done
      BY <1>p, <1>11 DEF Publish
    <2>2. /\ Pending' = [Pending EXCEPT ![t] = None]
          /\ reply' = [reply EXCEPT ![t] = "ok"]
      BY <1>11, AnswerSettles DEF Publish, Answers
    <2>3. /\ \A s \in Clients : pc'[s] # "publish"
          /\ cur # NotLoaded /\ cur' = work /\ work # NotLoaded
      BY <1>0, <1>11, <2>1, SentinelsAssumption DEF Publish, Answer, OpmlTypeOK
    <2>4. Served' = Served
      BY <2>1, <2>3 DEF Served
    <2> QED BY <1>11, <2>1, <2>2, <2>4 DEF SL!Acknowledge, SL!Settle, Publish, Pending
  <1> QED
    BY <1>1, <1>2, <1>3, <1>4, <1>5, <1>6, <1>7, <1>8, <1>9, <1>10, <1>11 DEF SL!ListNext

LEMMA ListStep ==
    ASSUME Plain, StateInv, SavedInv, SavedInv', [Next]_vars
    PROVE  [SL!ListNext]_(SL!listVars)
  <1>1. CASE Serve
    BY <1>1, ServedSame DEF Serve, SL!listVars, cacheVars
  <1>2. CASE Die
    <2>1. Pending' = [t \in Clients |-> None] /\ reply' = [t \in Clients |-> None]
      BY <1>2 DEF Die, Pending
    <2>2. Served' = Read(file)
      BY <1>2 DEF Die, Served
    <2>3. SL!Lose
      BY <1>2, <2>1, <2>2 DEF Die, SL!Lose, Pending
    <2> QED BY <2>3 DEF SL!ListNext
  <1>3. ASSUME NEW x \in ImportFiles, ImportLoad(x) PROVE UNCHANGED SL!listVars
    BY <1>3, ServedSame DEF ImportLoad, SL!listVars, cacheVars
  <1>4. CASE ImportSave
    <2>1. PICK x \in ImportFiles : merged = Imported(ParseOPML(x), Read(file))
      BY <1>4 DEF ImportSave, SavedInv
    <2>2. merged \in List /\ Normal(merged) /\ PlainList(merged)
      BY <1>4 DEF ImportSave, SavedInv, StateInv, OpmlTypeOK
    <2>3. Read(file)' = merged
      BY <1>4, <2>2, ReadSaved DEF ImportSave
    <2>4. Served' = merged
      BY <1>4, <2>3 DEF ImportSave, SavedInv, StateInv, Served, cacheVars
    <2>5. SL!Import(ParseOPML(x))
      BY <1>4, <2>1, <2>3, <2>4, SameOperators DEF ImportSave, SL!Import
    <2> QED BY <2>5 DEF SL!ListNext
  <1>5. CASE ImportFails
    BY <1>5, ServedSame DEF ImportFails, SL!listVars, cacheVars
  <1>6. CASE UNCHANGED vars
    BY <1>6, ServedSame DEF vars, cacheVars, SL!listVars
  <1> QED
    BY <1>1, <1>2, <1>3, <1>4, <1>5, <1>6, ListRequestStep
    DEF Next, SL!listVars, Pending

\* FileOPML, its handlers and harb import implement one list that every
\* request changes at one instant, before its answer, and that no crash
\* changes but to grant the last change whose save failed after its rename.
THEOREM FileOPMLImplementsSubscriptionList ==
    ASSUME Plain PROVE Spec => ImplementsSubscriptionList
  BY ListInitially, ListStep, StateInvariant, SavedInvariant, PTL
  DEF Spec, ImplementsSubscriptionList, SL!ListSpec
=============================================================================
