-------------------------- MODULE StoreClientsProofs --------------------------
(***************************************************************************)
(* A run belongs to the owner of its conversation; conversations that      *)
(* nobody asked for and that hold no run are explained; the tables hold    *)
(* together, and a row keeps its facts: for any users, any runs and logs,  *)
(* any number of requests, workers' deaths and jobs.                       *)
(***************************************************************************)
EXTENDS StoreClients, FoldLemmas, SequenceTheorems

Conversation == [user : Users, archived : BOOLEAN]

\* The tables, as far as the verbs below read and write them.
Sound(d) ==
  /\ DOMAIN d = {"users", "convs", "runs", "events", "messages"}
  /\ d.convs \in Seq(Conversation)
  /\ \A r \in DOMAIN d.runs :
       /\ {"conv", "user", "now"} \subseteq DOMAIN d.runs[r]
       /\ d.runs[r].conv \in DOMAIN d.convs
       /\ d.runs[r].user = d.convs[d.runs[r].conv].user

\* What every verb leaves true: a conversation stays and keeps its owner.
Keeps(d, e) ==
  /\ Sound(e)
  /\ \A c \in DOMAIN d.convs : c \in DOMAIN e.convs /\ e.convs[c].user = d.convs[c].user

-----------------------------------------------------------------------------
(* The verbs *)

\* Only the users table changes.
LEMMA UpsertKeeps ==
  ASSUME NEW d, Sound(d), NEW u
  PROVE  /\ Keeps(d, UpsertUser(d, u))
         /\ UpsertUser(d, u).convs = d.convs /\ UpsertUser(d, u).runs = d.runs
  BY DEF Keeps, Sound, UpsertUser

\* The new conversation is the last one and belongs to its user.
LEMMA CreateConversationKeeps ==
  ASSUME NEW d, Sound(d), NEW u \in Users
  PROVE  LET e == CreateConversation(d, u)
         IN  /\ Keeps(d, e)
             /\ e.runs = d.runs
             /\ Len(e.convs) \in DOMAIN e.convs /\ e.convs[Len(e.convs)].user = u
<1> DEFINE x == [user |-> u, archived |-> FALSE]
           e == CreateConversation(d, u)
<1>1. x \in Conversation
  BY DEF Conversation
<1>2. DOMAIN e = DOMAIN d /\ e.convs = Append(d.convs, x) /\ e.runs = d.runs
  BY DEF Sound, CreateConversation, UpsertUser
<1>3. /\ Append(d.convs, x) \in Seq(Conversation)
      /\ DOMAIN Append(d.convs, x) = 1 .. Len(d.convs) + 1
      /\ Len(Append(d.convs, x)) = Len(d.convs) + 1
      /\ \A c \in DOMAIN d.convs : Append(d.convs, x)[c] = d.convs[c]
      /\ Append(d.convs, x)[Len(d.convs) + 1] = x
      /\ DOMAIN d.convs = 1 .. Len(d.convs) /\ Len(d.convs) \in Nat
  BY <1>1, AppendProperties, LenProperties DEF Sound
<1> QED
  BY <1>2, <1>3 DEF Keeps, Sound

\* Archiving does not change an owner.
LEMMA UpdateConversationKeeps ==
  ASSUME NEW d, Sound(d), NEW c, NEW u, NEW a \in BOOLEAN
  PROVE  Keeps(d, UpdateConversation(d, c, u, a))
<1> DEFINE e == UpdateConversation(d, c, u, a)
<1>1. CASE MayOpen(d, c, u)
  <2>1. /\ DOMAIN e = DOMAIN d /\ e.runs = d.runs
        /\ e.convs = [d.convs EXCEPT ![c].archived = a]
    BY <1>1 DEF Sound, UpdateConversation
  <2>2. c \in DOMAIN d.convs
    BY <1>1 DEF MayOpen, Conversations
  <2>3. [d.convs EXCEPT ![c].archived = a] \in Seq(Conversation)
    <3>1. /\ d.convs \in [1 .. Len(d.convs) -> Conversation]
          /\ Len(d.convs) \in Nat /\ DOMAIN d.convs = 1 .. Len(d.convs)
      BY LenProperties DEF Sound
    <3>2. [d.convs[c] EXCEPT !.archived = a] \in Conversation
      BY <2>2, <3>1 DEF Conversation
    <3>3. [d.convs EXCEPT ![c].archived = a] \in [1 .. Len(d.convs) -> Conversation]
      BY <3>1, <3>2
    <3> QED  BY <3>1, <3>3, IsASeq
  <2>4. \A x \in DOMAIN d.convs :
          x \in DOMAIN e.convs /\ e.convs[x].user = d.convs[x].user
    <3>1. \A x \in DOMAIN d.convs : d.convs[x] \in Conversation
      BY ElementOfSeq, LenProperties DEF Sound
    <3> QED  BY <2>1, <3>1 DEF Conversation
  <2>5. DOMAIN e.convs = DOMAIN d.convs
    BY <2>1
  <2> HIDE DEF e
  <2>6. Keeps(d, e)
    BY <2>1, <2>3, <2>4, <2>5 DEF Keeps, Sound
  <2> QED  BY <2>6 DEF e
<1>2. CASE ~MayOpen(d, c, u)
  BY <1>2 DEF Keeps, UpdateConversation
<1> QED  BY <1>1, <1>2

\* A row that is there keeps its conversation and its owner.
LEMMA RowKeeps ==
  ASSUME NEW d, Sound(d), NEW e,
         DOMAIN e = DOMAIN d, e.convs = d.convs, DOMAIN e.runs = DOMAIN d.runs,
         \A r \in DOMAIN d.runs : /\ DOMAIN e.runs[r] = DOMAIN d.runs[r]
                                  /\ e.runs[r].conv = d.runs[r].conv
                                  /\ e.runs[r].user = d.runs[r].user
  PROVE  Keeps(d, e)
  BY DEF Keeps, Sound

LEMMA FinishRunKeeps ==
  ASSUME NEW d, Sound(d), NEW r, NEW read, NEW fields
  PROVE  Keeps(d, FinishRun(d, r, read, fields))
<1> DEFINE e == FinishRun(d, r, read, fields)
<1>1. /\ DOMAIN e = DOMAIN d /\ e.convs = d.convs
      /\ e.runs = [d.runs EXCEPT ![r].now = Updated(@, read, fields)]
  BY DEF Sound, FinishRun
<1>2. \A x \in DOMAIN d.runs : /\ DOMAIN e.runs[x] = DOMAIN d.runs[x]
                               /\ e.runs[x].conv = d.runs[x].conv
                               /\ e.runs[x].user = d.runs[x].user
  BY <1>1 DEF Sound
<1>3. DOMAIN e.runs = DOMAIN d.runs
  BY <1>1
<1> QED  BY <1>1, <1>2, <1>3, RowKeeps

LEMMA AppendEventsKeeps ==
  ASSUME NEW d, Sound(d), NEW r, NEW batch
  PROVE  Keeps(d, AppendEvents(d, r, batch))
<1> DEFINE old == [events |-> d.events[r], now |-> d.runs[r].now,
                   messages |-> d.messages[d.runs[r].conv]]
           new == StoreAll(old, r, batch)
           e == AppendEvents(d, r, batch)
<1>1. /\ DOMAIN e = DOMAIN d /\ e.convs = d.convs
      /\ e.runs = [d.runs EXCEPT ![r].now = new.now]
  BY DEF Sound, AppendEvents
<1>2. \A x \in DOMAIN d.runs : /\ DOMAIN e.runs[x] = DOMAIN d.runs[x]
                               /\ e.runs[x].conv = d.runs[x].conv
                               /\ e.runs[x].user = d.runs[x].user
  BY <1>1 DEF Sound
<1>3. DOMAIN e.runs = DOMAIN d.runs
  BY <1>1
<1> QED  BY <1>1, <1>2, <1>3, RowKeeps

\* A new row goes into a conversation of its owner, if the one named, when there
\* is such a one, is the owner's.
LEMMA CreateRunKeeps ==
  ASSUME NEW d, Sound(d), NEW r, NEW owner \in Users, NEW c, NEW rec,
         c \in DOMAIN d.convs => d.convs[c].user = owner
  PROVE  Keeps(d, CreateRun(d, r, owner, c, rec))
<1> DEFINE d1 == UpsertUser(d, owner)
           known == c \in Conversations(d1)
           d2 == IF known THEN d1 ELSE CreateConversation(d1, owner)
           home == IF known THEN c ELSE Len(d2.convs)
           row == [conv |-> home, user |-> owner, now |-> NewColumns(rec)]
           d3 == [d2 EXCEPT !.runs = With(@, r, row), !.events = With(@, r, << >>)]
<1>1. CASE r \in DOMAIN d.runs
  BY <1>1 DEF CreateRun, Keeps
<1>2. CASE r \notin DOMAIN d.runs
  <2>1. Keeps(d, d1) /\ Sound(d1) /\ d1.convs = d.convs /\ d1.runs = d.runs
    BY UpsertKeeps DEF Keeps
  <2>2. Keeps(d, d2) /\ d2.runs = d.runs /\ home \in DOMAIN d2.convs /\ d2.convs[home].user = owner
    <3>1. CASE known
      BY <2>1, <3>1 DEF Conversations
    <3>2. CASE ~known
      BY <2>1, <3>2, CreateConversationKeeps DEF Keeps
    <3> QED  BY <3>1, <3>2
  <2>3. CreateRun(d, r, owner, c, rec) = d3
    BY <1>2 DEF CreateRun
  <2> HIDE DEF d1, known, d2, home
  <2>4. DOMAIN d3 = DOMAIN d2 /\ d3.convs = d2.convs /\ d3.runs = With(d2.runs, r, row)
    BY <2>2 DEF Keeps, Sound
  <2>5. Sound(d3)
    BY <2>2, <2>4 DEF Keeps, Sound, With
  <2> QED  BY <2>2, <2>3, <2>4, <2>5 DEF Keeps
<1> QED  BY <1>1, <1>2

-----------------------------------------------------------------------------
(* The inductive invariant.  Between a request's look at a conversation and *)
(* the run's row, and between an import's conversation and its row, the     *)
(* conversation is that of the owner the row will have.                     *)

Requests ==
  [pc : {"none", "open", "minted", "created", "answered", "gone"}, user : Users, conv : Nat]

Shapes ==
  /\ req \in [LiveRuns -> Requests]
  /\ DOMAIN job = {"kind", "pc", "todo", "run", "conv", "chunk", "plan"}

RequestsAgree ==
  \A r \in LiveRuns : req[r].pc \in {"open", "minted"} =>
    req[r].conv \in DOMAIN db.convs /\ db.convs[req[r].conv].user = req[r].user

ImportAgrees ==
  job.pc = "row" => job.conv \in DOMAIN db.convs /\ db.convs[job.conv].user = LegacyUser

IInv == Sound(db) /\ Shapes /\ RequestsAgree /\ ImportAgrees

LEMMA OwnersFromInv == IInv => OwnersAgree
  BY DEF IInv, Sound, OwnersAgree

LEMMA InitInv == Init => IInv
<1> SUFFICES ASSUME Init PROVE IInv
  OBVIOUS
<1>1. Sound(db)
  BY EmptySeq DEF Init, EmptyDb, Sound
<1>2. Shapes
  <2>1. [pc |-> "none", user |-> Anonymous, conv |-> 0] \in Requests
    BY AnonymousAssumption DEF Requests
  <2>2. req \in [LiveRuns -> Requests]
    BY <2>1 DEF Init
  <2>3. job = Idle
    BY DEF Init
  <2>4. DOMAIN Idle = {"kind", "pc", "todo", "run", "conv", "chunk", "plan"}
    BY DEF Idle
  <2> QED  BY <2>2, <2>3, <2>4 DEF Shapes
<1>3. RequestsAgree /\ ImportAgrees
  BY DEF Init, Idle, RequestsAgree, ImportAgrees
<1> QED  BY <1>1, <1>2, <1>3 DEF IInv

\* A verb of the Store moves nobody else.
LEMMA KeptInv ==
  ASSUME IInv, Keeps(db, db'), req' = req, job' = job
  PROVE  IInv'
  BY DEF IInv, Keeps, Shapes, RequestsAgree, ImportAgrees

LEMMA NothingMoves ==
  ASSUME IInv, db' = db, req' = req, job' = job
  PROVE  IInv'
  BY DEF IInv, Shapes, RequestsAgree, ImportAgrees

\* A request's step: what it holds afterwards agrees.
LEMMA RequestInv ==
  ASSUME IInv, Keeps(db, db') \/ db' = db, job' = job,
         NEW r \in LiveRuns,
         NEW q \in Requests,
         req' = [req EXCEPT ![r] = q],
         q.pc \in {"open", "minted"} =>
           q.conv \in DOMAIN db'.convs /\ db'.convs[q.conv].user = q.user
  PROVE  IInv'
<1>1. Keeps(db, db')
  BY DEF IInv, Keeps
<1>2. Shapes'
  BY DEF IInv, Shapes
<1>3. RequestsAgree'
  BY <1>1 DEF IInv, Shapes, RequestsAgree, Keeps
<1>4. Sound(db') /\ ImportAgrees'
  BY <1>1 DEF IInv, ImportAgrees, Keeps
<1> QED  BY <1>2, <1>3, <1>4 DEF IInv

\* A job's step.
LEMMA JobInv ==
  ASSUME IInv, Keeps(db, db') \/ db' = db, req' = req,
         DOMAIN job' = DOMAIN job,
         job'.pc = "row" =>
           job'.conv \in DOMAIN db'.convs /\ db'.convs[job'.conv].user = LegacyUser
  PROVE  IInv'
<1>1. Keeps(db, db')
  BY DEF IInv, Keeps
<1> QED  BY <1>1 DEF IInv, Shapes, RequestsAgree, ImportAgrees, Keeps

-----------------------------------------------------------------------------
(* The steps *)

LEMMA PeopleAreUsers ==
  /\ People \subseteq Users /\ None \notin People
  /\ \A u \in People \cup {None} : Owner(u) \in Users
  /\ LegacyUser \in Users /\ Anonymous \in Users
  BY AnonymousAssumption, ClientsAssumption DEF People, Owner

LEMMA RequestStep ==
  ASSUME IInv, Request
  PROVE  IInv'
<1> USE PeopleAreUsers
<1>0. Sound(db) /\ Shapes
  BY DEF IInv
<1>1. ASSUME NEW u \in People, Identify(u) PROVE IInv'
  BY <1>0, <1>1, UpsertKeeps, KeptInv DEF Identify, ApiOnly
<1>2. ASSUME NEW u \in People, OpenConversation(u) PROVE IInv'
  <2>1. Keeps(db, db')
    BY <1>0, <1>2, CreateConversationKeeps DEF OpenConversation
  <2> QED  BY <1>2, <2>1, KeptInv DEF OpenConversation, ApiOnly
<1>3. ASSUME NEW u \in People, NEW c \in Conversations(db), NEW a \in BOOLEAN, Archive(u, c, a)
      PROVE  IInv'
  <2> DEFINE d == UpsertUser(db, u)
  <2>1. Keeps(db, d)
    BY <1>0, UpsertKeeps
  <2>2. Keeps(d, db')
    BY <1>3, <2>1, UpdateConversationKeeps DEF Archive, Keeps
  <2>3. Keeps(db, db')
    BY <2>1, <2>2 DEF Keeps
  <2> QED  BY <1>3, <2>3, KeptInv DEF Archive, ApiOnly
<1>4. ASSUME NEW u \in People, NEW c \in Conversations(db), NEW r \in LiveRuns, Continue(u, c, r)
      PROVE  IInv'
  <2> DEFINE q == [pc |-> "open", user |-> u, conv |-> c]
  <2>1. Keeps(db, db') /\ db'.convs = db.convs
    BY <1>0, <1>4, UpsertKeeps DEF Continue
  <2>2. c \in DOMAIN db.convs /\ db.convs[c].user = u
    BY <1>4 DEF Continue, MayOpen, Conversations
  <2>3. c \in Nat
    BY <1>0, <2>2, LenProperties DEF Sound
  <2>4. q \in Requests
    BY <2>3 DEF Requests
  <2>5. req' = [req EXCEPT ![r] = q] /\ job' = job
    BY <1>4 DEF Continue, ApiOnly
  <2>6. q.conv \in DOMAIN db'.convs /\ db'.convs[q.conv].user = q.user
    BY <2>1, <2>2
  <2> QED  BY <2>1, <2>4, <2>5, <2>6, RequestInv
<1>5. ASSUME NEW u \in People \cup {None}, NEW r \in LiveRuns, Post(u, r)
      PROVE  IInv'
  <2> DEFINE q == [pc |-> "minted", user |-> Owner(u), conv |-> Len(db'.convs)]
  <2>1. /\ Keeps(db, db')
        /\ Len(db'.convs) \in DOMAIN db'.convs /\ db'.convs[Len(db'.convs)].user = Owner(u)
    BY <1>0, <1>5, CreateConversationKeeps DEF Post
  <2>2. Len(db'.convs) \in Nat
    BY <2>1, LenProperties DEF Keeps, Sound
  <2>3. q \in Requests
    BY <2>2 DEF Requests
  <2>4. req' = [req EXCEPT ![r] = q] /\ job' = job
    BY <1>5 DEF Post, ApiOnly
  <2> QED  BY <2>1, <2>3, <2>4, RequestInv
<1>6. ASSUME NEW r \in LiveRuns, NEW pc \in {"created", "answered", "gone"},
             Keeps(db, db') \/ db' = db, req' = [req EXCEPT ![r].pc = pc], job' = job
      PROVE  IInv'
  <2> DEFINE q == [req[r] EXCEPT !.pc = pc]
  <2>1. q \in Requests /\ q.pc = pc
    BY <1>0, <1>6 DEF Shapes, Requests
  <2>2. req' = [req EXCEPT ![r] = q]
    BY <1>6
  <2> HIDE DEF q
  <2> QED  BY <1>6, <2>1, <2>2, RequestInv
<1>7. ASSUME NEW r \in LiveRuns, CreateRow(r) PROVE IInv'
  <2>1. req[r].conv \in DOMAIN db.convs /\ db.convs[req[r].conv].user = req[r].user
    BY <1>7 DEF CreateRow, IInv, RequestsAgree
  <2>2. req[r].user \in Users
    BY <1>0 DEF Shapes, Requests
  <2>3. Keeps(db, db')
    BY <1>0, <1>7, <2>1, <2>2, CreateRunKeeps DEF CreateRow
  <2>4. req' = [req EXCEPT ![r].pc = "created"] /\ job' = job
    BY <1>7 DEF CreateRow, ApiOnly
  <2> QED  BY <1>6, <2>3, <2>4
<1>8. ASSUME NEW r \in LiveRuns, Spawn(r) \/ SpawnRaises(r) \/ RequestDies(r) PROVE IInv'
  <2>1. /\ \E pc \in {"answered", "gone"} : req' = [req EXCEPT ![r].pc = pc]
        /\ db' = db /\ job' = job
    BY <1>8 DEF Spawn, SpawnRaises, RequestDies, ApiOnly
  <2> QED  BY <1>6, <2>1
<1> QED
  BY <1>1, <1>2, <1>3, <1>4, <1>5, <1>7, <1>8 DEF Request

LEMMA WorkStep ==
  ASSUME IInv, Work
  PROVE  IInv'
<1>0. Sound(db) /\ Shapes
  BY DEF IInv
<1> PICK r \in LiveRuns : LocalRun(r) \/ Begin(r) \/ Flush(r) \/ Resend(r) \/ Settle(r) \/ WorkerDies(r)
  BY DEF Work
<1>1. req' = req /\ job' = job
  BY DEF LocalRun, Begin, Flush, Resend, Settle, WorkerDies, WorkerOnly
<1>2. CASE Begin(r)
  <2>1. req[r].user \in Users
    BY <1>0 DEF Shapes, Requests
  <2>2. 0 \notin DOMAIN db.convs
    BY <1>0, LenProperties DEF Sound
  <2>3. Keeps(db, db')
    BY <1>0, <1>2, <2>1, <2>2, CreateRunKeeps DEF Begin
  <2> QED  BY <1>1, <2>3, KeptInv
<1>3. CASE Flush(r) \/ Resend(r)
  <2>1. Keeps(db, db')
    BY <1>0, <1>3, AppendEventsKeeps DEF Flush, Resend
  <2> QED  BY <1>1, <2>1, KeptInv
<1>4. CASE LocalRun(r) \/ Settle(r) \/ WorkerDies(r)
  <2>1. db' = db
    BY <1>4 DEF LocalRun, Settle, WorkerDies
  <2> QED  BY <1>1, <2>1, NothingMoves
<1> QED  BY <1>2, <1>3, <1>4

\* A job's step that is no step of the Store, and that leads to no row.
LEMMA JobMoves ==
  ASSUME IInv, Keeps(db, db') \/ db' = db, req' = req,
         DOMAIN job' = DOMAIN job, job'.pc # "row"
  PROVE  IInv'
  BY JobInv

LEMMA OperateStep ==
  ASSUME IInv, Operate
  PROVE  IInv'
<1> USE PeopleAreUsers
<1>0. Sound(db) /\ Shapes /\ DOMAIN job = {"kind", "pc", "todo", "run", "conv", "chunk", "plan"}
  BY DEF IInv, Shapes
<1>1. ASSUME NEW kind, NEW pc, NEW todo, pc # "row", Start(kind, pc, todo) PROVE IInv'
  <2>1. db' = db /\ req' = req /\ DOMAIN job' = DOMAIN job /\ job'.pc = pc
    BY <1>0, <1>1 DEF Start, JobOnly, Idle
  <2> QED  BY <1>1, <2>1, JobMoves
<1>2. CASE StartBackfill \/ StartLegacyImport \/ \E u \in Users : StartPrune(u)
  BY <1>1, <1>2 DEF StartBackfill, StartLegacyImport, StartPrune
<1>3. ASSUME NEW r \in LegacyRuns, ImportRecord(r) PROVE IInv'
  <2>1. CASE r \in DOMAIN db.runs
    <3>1. db' = db /\ req' = req /\ DOMAIN job' = DOMAIN job /\ job'.pc = "replay"
      BY <1>0, <1>3, <2>1 DEF ImportRecord, Unmoved, JobOnly
    <3> QED  BY <3>1, JobMoves
  <2>2. CASE r \notin DOMAIN db.runs
    <3>1. /\ db' = CreateConversation(db, LegacyUser) /\ req' = req
          /\ DOMAIN job' = DOMAIN job /\ job'.conv = Len(db'.convs)
      BY <1>0, <1>3, <2>2 DEF ImportRecord, Unmoved, JobOnly
    <3>2. /\ Keeps(db, db') /\ Len(db'.convs) \in DOMAIN db'.convs
          /\ db'.convs[Len(db'.convs)].user = LegacyUser
      BY <1>0, <3>1, CreateConversationKeeps
    <3> QED  BY <3>1, <3>2, JobInv
  <2> QED  BY <2>1, <2>2
<1>4. CASE ImportRow
  <2>1. job.conv \in DOMAIN db.convs => db.convs[job.conv].user = LegacyUser
    BY <1>4 DEF ImportRow, IInv, ImportAgrees
  <2>2. Keeps(db, db')
    BY <1>0, <1>4, <2>1, CreateRunKeeps DEF ImportRow
  <2>3. req' = req /\ DOMAIN job' = DOMAIN job /\ job'.pc = "replay"
    BY <1>0, <1>4 DEF ImportRow, Goes, Unmoved, JobOnly
  <2> QED  BY <2>2, <2>3, JobMoves
<1>5. ASSUME NEW r \in LegacyRuns, ImportLegacyRow(r) PROVE IInv'
  <2>1. 0 \notin DOMAIN db.convs
    BY <1>0, LenProperties DEF Sound
  <2>2. Keeps(db, db')
    BY <1>0, <1>5, <2>1, CreateRunKeeps DEF ImportLegacyRow
  <2>3. req' = req /\ DOMAIN job' = DOMAIN job /\ job'.pc = "replay"
    BY <1>0, <1>5 DEF ImportLegacyRow, Unmoved, JobOnly
  <2> QED  BY <2>2, <2>3, JobMoves
<1>6. CASE Replay \/ Mark
  <2>1. Keeps(db, db')
    BY <1>0, <1>6, AppendEventsKeeps DEF Replay, Mark
  <2>2. /\ req' = req /\ DOMAIN job' = DOMAIN job
        /\ (job'.pc = job.pc /\ job.pc = "replay") \/ job'.pc = "correct"
    BY <1>0, <1>6 DEF Replay, Mark, Goes, Unmoved, JobOnly
  <2> QED  BY <2>1, <2>2, JobMoves
<1>7. CASE Pin \/ NextRecord \/ Correct \/ NextCandidate
  <2>1. /\ db' = db /\ req' = req /\ DOMAIN job' = DOMAIN job
        /\ job'.pc \in {"pinning", "import", "correcting", "classify"}
    BY <1>0, <1>7 DEF Pin, NextRecord, Correct, NextCandidate, Goes, Unmoved, JobOnly
  <2> QED  BY <2>1, JobMoves
<1>8. CASE Classify
  <2>1. db' = db /\ req' = req /\ DOMAIN job' = DOMAIN job /\ job'.pc = "classify"
    BY <1>0, <1>8 DEF Classify, Unmoved, JobOnly
  <2> QED  BY <2>1, JobMoves
<1>9. ASSUME NEW r \in DOMAIN db.runs, Plan(r) PROVE IInv'
  <2>1. /\ db' = db /\ req' = req /\ DOMAIN job' = DOMAIN job
        /\ job'.pc \in {"mark", "classify"}
    BY <1>0, <1>9 DEF Plan, Unmoved, JobOnly
  <2> QED  BY <2>1, JobMoves
<1>10. ASSUME NEW c \in Conversations(db), Prune(c) PROVE IInv'
  <2>1. Keeps(db, db')
    BY <1>0, <1>10, UpdateConversationKeeps DEF Prune
  <2>2. req' = req /\ DOMAIN job' = DOMAIN job /\ job'.pc = "prune"
    BY <1>0, <1>10 DEF Prune, Unmoved, JobOnly
  <2> QED  BY <2>1, <2>2, JobMoves
<1>11. CASE JobEnds \/ JobDies
  <2>1. db' = db /\ req' = req /\ job' = Idle
    BY <1>11 DEF JobEnds, JobDies, Unmoved, JobOnly
  <2>2. DOMAIN Idle = DOMAIN job /\ Idle.pc # "row"
    BY <1>0 DEF Idle
  <2> QED  BY <2>1, <2>2, JobMoves
<1> QED
  BY <1>2, <1>3, <1>4, <1>5, <1>6, <1>7, <1>8, <1>9, <1>10, <1>11 DEF Operate

LEMMA StoreStep ==
  ASSUME IInv, StoreUpdates
  PROVE  IInv'
<1>1. Keeps(db, db')
  BY FinishRunKeeps DEF StoreUpdates, IInv
<1> QED  BY <1>1, KeptInv DEF StoreUpdates

LEMMA StepInv == IInv /\ [Next]_vars => IInv'
<1> SUFFICES ASSUME IInv, [Next]_vars PROVE IInv'
  OBVIOUS
<1>1. CASE UNCHANGED vars
  BY <1>1, NothingMoves DEF vars
<1> QED
  BY <1>1, RequestStep, WorkStep, OperateStep, StoreStep DEF Next

\* A run and its conversation always have one owner (api.py start_conversation_run
\* looks the conversation up in one call and writes the row in another;
\* create_run and import_record find or make a conversation).
THEOREM OwnersAlwaysAgree == Spec => []OwnersAgree
<1>1. Init => IInv
  BY InitInv
<1>2. IInv /\ [Next]_vars => IInv'
  BY StepInv
<1>3. IInv => OwnersAgree
  BY OwnersFromInv
<1> QED  BY <1>1, <1>2, <1>3, PTL DEF Spec

-----------------------------------------------------------------------------
(* Strays.  A conversation without a run was asked for, waits for the run  *)
(* of a request or an import, or was left by one that died.                *)

\* Runs stay where they are.
RunsStay(d, e) ==
  \A r \in DOMAIN d.runs : r \in DOMAIN e.runs /\ e.runs[r].conv = d.runs[r].conv

\* The new conversations and runs of e.
Opens(d, e) == DOMAIN e.convs \ DOMAIN d.convs
NoNewRun(d, e) == DOMAIN e.runs \subseteq DOMAIN d.runs

HasRun(d, c) == \E r \in DOMAIN d.runs : d.runs[r].conv = c

LEMMA UpsertStays ==
  ASSUME NEW d, Sound(d), NEW u
  PROVE  LET e == UpsertUser(d, u)
         IN  RunsStay(d, e) /\ NoNewRun(d, e) /\ Opens(d, e) = {}
  BY DEF RunsStay, NoNewRun, Opens, UpsertUser, Sound

\* A conversation is opened, for its user, and no run is moved or made.
LEMMA CreateConversationStays ==
  ASSUME NEW d, Sound(d), NEW u \in Users
  PROVE  LET e == CreateConversation(d, u)
         IN  RunsStay(d, e) /\ NoNewRun(d, e) /\ Opens(d, e) \subseteq {Len(e.convs)}
<1> DEFINE x == [user |-> u, archived |-> FALSE]
           e == CreateConversation(d, u)
<1>1. DOMAIN e = DOMAIN d /\ e.convs = Append(d.convs, x) /\ e.runs = d.runs
  BY DEF Sound, CreateConversation, UpsertUser
<1>2. x \in Conversation
  BY DEF Conversation
<1>3. /\ DOMAIN Append(d.convs, x) = 1 .. Len(d.convs) + 1
      /\ Len(Append(d.convs, x)) = Len(d.convs) + 1
      /\ DOMAIN d.convs = 1 .. Len(d.convs) /\ Len(d.convs) \in Nat
  BY <1>2, AppendProperties, LenProperties DEF Sound
<1> HIDE DEF e, x
<1>4. Opens(d, e) \subseteq {Len(e.convs)}
  BY <1>1, <1>3 DEF Opens
<1>5. RunsStay(d, e) /\ NoNewRun(d, e)
  BY <1>1 DEF RunsStay, NoNewRun
<1> QED
  BY <1>4, <1>5 DEF e

LEMMA UpdateConversationStays ==
  ASSUME NEW d, Sound(d), NEW c, NEW u, NEW a \in BOOLEAN
  PROVE  LET e == UpdateConversation(d, c, u, a)
         IN  RunsStay(d, e) /\ NoNewRun(d, e) /\ Opens(d, e) = {}
  BY DEF RunsStay, NoNewRun, Opens, UpdateConversation, Sound

LEMMA FinishRunStays ==
  ASSUME NEW d, Sound(d), NEW r, NEW read, NEW fields
  PROVE  LET e == FinishRun(d, r, read, fields)
         IN  RunsStay(d, e) /\ NoNewRun(d, e) /\ Opens(d, e) = {}
<1> DEFINE e == FinishRun(d, r, read, fields)
<1>1. e.convs = d.convs /\ e.runs = [d.runs EXCEPT ![r].now = Updated(@, read, fields)]
  BY DEF Sound, FinishRun
<1>2. DOMAIN e.runs = DOMAIN d.runs
  BY <1>1
<1>3. \A x \in DOMAIN d.runs : e.runs[x].conv = d.runs[x].conv
  BY <1>1 DEF Sound
<1> HIDE DEF e
<1>4. RunsStay(d, e) /\ NoNewRun(d, e) /\ Opens(d, e) = {}
  BY <1>1, <1>2, <1>3 DEF RunsStay, NoNewRun, Opens
<1> QED
  BY <1>4 DEF e

LEMMA AppendEventsStays ==
  ASSUME NEW d, Sound(d), NEW r, NEW batch
  PROVE  LET e == AppendEvents(d, r, batch)
         IN  RunsStay(d, e) /\ NoNewRun(d, e) /\ Opens(d, e) = {}
<1> DEFINE old == [events |-> d.events[r], now |-> d.runs[r].now,
                   messages |-> d.messages[d.runs[r].conv]]
           new == StoreAll(old, r, batch)
           e == AppendEvents(d, r, batch)
<1>1. e.convs = d.convs /\ e.runs = [d.runs EXCEPT ![r].now = new.now]
  BY DEF Sound, AppendEvents
<1>2. DOMAIN e.runs = DOMAIN d.runs
  BY <1>1
<1>3. \A x \in DOMAIN d.runs : e.runs[x].conv = d.runs[x].conv
  BY <1>1 DEF Sound
<1> HIDE DEF e
<1>4. RunsStay(d, e) /\ NoNewRun(d, e) /\ Opens(d, e) = {}
  BY <1>1, <1>2, <1>3 DEF RunsStay, NoNewRun, Opens
<1> QED
  BY <1>4 DEF e

\* Run r is there, in the conversation c if that was there before the run, and a
\* conversation that is new has a run.
MakesRow(d, e, r, c) ==
  /\ RunsStay(d, e) /\ \A x \in Opens(d, e) : HasRun(e, x)
  /\ DOMAIN e.runs = DOMAIN d.runs \cup {r}
  /\ r \notin DOMAIN d.runs /\ c \in DOMAIN d.convs => e.runs[r].conv = c

\* A run that is not there gets a conversation: the one named, or else a new one.
LEMMA CreateRunStays ==
  ASSUME NEW d, Sound(d), NEW r, NEW owner \in Users, NEW c, NEW rec
  PROVE  MakesRow(d, CreateRun(d, r, owner, c, rec), r, c)
<1> DEFINE d1 == UpsertUser(d, owner)
           known == c \in Conversations(d1)
           d2 == IF known THEN d1 ELSE CreateConversation(d1, owner)
           home == IF known THEN c ELSE Len(d2.convs)
           row == [conv |-> home, user |-> owner, now |-> NewColumns(rec)]
           d3 == [d2 EXCEPT !.runs = With(@, r, row), !.events = With(@, r, << >>)]
           e == CreateRun(d, r, owner, c, rec)
<1>1. CASE r \in DOMAIN d.runs
  BY <1>1 DEF CreateRun, RunsStay, Opens, MakesRow
<1>2. CASE r \notin DOMAIN d.runs
  <2>1. Sound(d1) /\ d1.convs = d.convs /\ d1.runs = d.runs
    BY UpsertKeeps DEF Keeps
  <2>2. d2.runs = d.runs /\ Sound(d2) /\ Opens(d, d2) \subseteq {home}
    <3>1. CASE known
      BY <2>1, <3>1 DEF Opens
    <3>2. CASE ~known
      <4>1. d2 = CreateConversation(d1, owner) /\ home = Len(d2.convs)
        BY <3>2
      <4>2. Opens(d1, d2) \subseteq {Len(d2.convs)}
        BY <2>1, <4>1, CreateConversationStays
      <4>3. Sound(d2) /\ d2.runs = d1.runs
        BY <2>1, <4>1, CreateConversationKeeps DEF Keeps
      <4> QED
        BY <2>1, <4>1, <4>2, <4>3 DEF Opens
    <3> QED  BY <3>1, <3>2
  <2>3. e = d3
    BY <1>2 DEF CreateRun
  <2>4. c \in DOMAIN d.convs => home = c
    BY <2>1 DEF Conversations
  <2> HIDE DEF d1, known, d2, home, e
  <2>5. e.convs = d2.convs /\ e.runs = With(d.runs, r, row)
    BY <2>2, <2>3 DEF Sound
  <2>6. DOMAIN e.runs = DOMAIN d.runs \cup {r} /\ e.runs[r].conv = home
    BY <2>5 DEF With
  <2>7. \A x \in Opens(d, e) : HasRun(e, x)
    BY <2>2, <2>5, <2>6 DEF Opens, HasRun
  <2>8. RunsStay(d, e)
    BY <1>2, <2>5 DEF RunsStay, With
  <2>9. MakesRow(d, e, r, c)
    BY <2>4, <2>6, <2>7, <2>8 DEF MakesRow
  <2> QED  BY <2>9 DEF e
<1> QED  BY <1>1, <1>2

Strays == {c \in Conversations(db) \ opened : RunsOf(db, c) = {}}
Minted == {r \in LiveRuns : req[r].pc = "minted"}
Importing == IF job.pc = "row" THEN {job.run} ELSE {}

\* Conversations that wait for a run, and those that wait in vain.
Held == {req[r].conv : r \in Minted} \cup (IF job.pc = "row" THEN {job.conv} ELSE {})
Left == Strays \ Held

WorkerShape ==
  /\ DOMAIN worker = LiveRuns
  /\ \A r \in LiveRuns : DOMAIN worker[r] = {"pc", "sent"}

\* Who is about to make a row finds none: requests and workers of one run
\* exclude each other until the row is there, and imports are of other runs.
NoRowYet ==
  /\ \A r \in LiveRuns : req[r].pc \in {"open", "minted"} => worker[r].pc = "none"
  /\ \A r \in LiveRuns :
       req[r].pc \in {"none", "open", "minted"} /\ worker[r].pc = "none" => r \notin DOMAIN db.runs
  /\ job.pc = "row" => job.run \in LegacyRuns \ DOMAIN db.runs

StrayInv ==
  /\ IInv /\ WorkerShape /\ NoRowYet
  /\ IsFiniteSet(Minted) /\ failures \in Nat /\ Cardinality(Left) <= failures

LEMMA LeftFinite ==
  ASSUME IInv
  PROVE  IsFiniteSet(Strays) /\ IsFiniteSet(Left)
<1>1. Conversations(db) = 1 .. Len(db.convs) /\ Len(db.convs) \in Nat
  BY LenProperties DEF IInv, Sound, Conversations
<1>2. IsFiniteSet(Conversations(db))
  BY <1>1, FS_Interval
<1>3. Strays \subseteq Conversations(db) /\ Left \subseteq Conversations(db)
  BY DEF Strays, Left
<1> QED
  BY <1>2, <1>3, FS_Subset

\* The conversations counted are as many as the requests and imports under way
\* and the failures, at most.
LEMMA StraysFromInv ==
  ASSUME StrayInv
  PROVE  StraysExplained
<1> DEFINE A == {req[r].conv : r \in Minted}
           B == IF job.pc = "row" THEN {job.conv} ELSE {}
<1>1. IsFiniteSet(Minted) /\ failures \in Nat /\ Cardinality(Left) <= failures /\ IInv
  BY DEF StrayInv
<1>2. IsFiniteSet(A) /\ Cardinality(A) <= Cardinality(Minted)
  <2> DEFINE f == [r \in Minted |-> req[r].conv]
  <2>1. f \in [Minted -> A] /\ \A y \in A : \E m \in Minted : f[m] = y
    OBVIOUS
  <2>2. f \in Surjection(Minted, A)
    BY <2>1 DEF Surjection
  <2> HIDE DEF f
  <2> QED
    BY <1>1, <2>2, FS_Surjection
<1>3. IsFiniteSet(B) /\ Cardinality(B) <= Cardinality(Importing) /\ IsFiniteSet(Importing)
  <2>1. CASE job.pc = "row"
    <3>1. B = {job.conv} /\ Importing = {job.run}
      BY <2>1 DEF Importing
    <3>2. \A y : IsFiniteSet({y}) /\ Cardinality({y}) = 1
      BY FS_Singleton
    <3> HIDE DEF B
    <3>3. IsFiniteSet(B) /\ Cardinality(B) = 1
      BY <3>1, <3>2
    <3>4. IsFiniteSet(Importing) /\ Cardinality(Importing) = 1
      BY <3>1, <3>2
    <3> QED
      BY <3>3, <3>4
  <2>2. CASE job.pc # "row"
    <3>1. B = {} /\ Importing = {}
      BY <2>2 DEF Importing
    <3> HIDE DEF B
    <3> QED
      BY <3>1, FS_EmptySet
  <2> QED
    BY <2>1, <2>2
<1>4. Minted \cap Importing = {}
  BY ClientsAssumption DEF StrayInv, NoRowYet, Minted, Importing
<1>5. Cardinality(Minted \cup Importing) = Cardinality(Minted) + Cardinality(Importing)
  <2>1. Cardinality(Minted \cap Importing) = 0
    BY <1>4, FS_EmptySet
  <2>2. Cardinality(Minted) \in Nat /\ Cardinality(Importing) \in Nat
    BY <1>1, <1>3, FS_CardinalityType
  <2>3. Cardinality(Minted \cup Importing) =
          Cardinality(Minted) + Cardinality(Importing) - Cardinality(Minted \cap Importing)
    BY <1>1, <1>3, FS_Union
  <2> QED
    BY <2>1, <2>2, <2>3
<1>6. IsFiniteSet(A \cup B) /\ Cardinality(A \cup B) <= Cardinality(A) + Cardinality(B)
  <2>1. /\ Cardinality(A) \in Nat /\ Cardinality(B) \in Nat
        /\ Cardinality(A \cap B) \in Nat /\ IsFiniteSet(A \cap B)
    BY <1>2, <1>3, FS_CardinalityType, FS_Intersection
  <2>2. IsFiniteSet(A \cup B) /\ Cardinality(A \cup B) = Cardinality(A) + Cardinality(B) - Cardinality(A \cap B)
    BY <1>2, <1>3, FS_Union
  <2> QED
    BY <2>1, <2>2
<1>7. Strays \subseteq Left \cup (A \cup B) /\ IsFiniteSet(Left)
  BY <1>1, LeftFinite DEF Left, Held
<1> HIDE DEF A, B
<1>8. /\ IsFiniteSet(Left \cup (A \cup B))
      /\ Cardinality(Left \cup (A \cup B)) <= Cardinality(Left) + Cardinality(A \cup B)
  <2>1. /\ Cardinality(Left) \in Nat /\ Cardinality(A \cup B) \in Nat
        /\ Cardinality(Left \cap (A \cup B)) \in Nat
    BY <1>6, <1>7, FS_CardinalityType, FS_Intersection
  <2>2. /\ IsFiniteSet(Left \cup (A \cup B))
        /\ Cardinality(Left \cup (A \cup B)) =
             Cardinality(Left) + Cardinality(A \cup B) - Cardinality(Left \cap (A \cup B))
    BY <1>6, <1>7, FS_Union
  <2> QED
    BY <2>1, <2>2
<1>9. Cardinality(Strays) <= Cardinality(Left \cup (A \cup B))
  BY <1>7, <1>8, FS_Subset
<1>10. Cardinality(Strays) <= failures + Cardinality(Minted \cup Importing)
  <2>1. /\ Cardinality(Left) \in Nat /\ Cardinality(A) \in Nat /\ Cardinality(B) \in Nat
        /\ Cardinality(A \cup B) \in Nat /\ Cardinality(Strays) \in Nat
        /\ Cardinality(Minted) \in Nat /\ Cardinality(Importing) \in Nat
        /\ Cardinality(Left \cup (A \cup B)) \in Nat
    BY <1>1, <1>2, <1>3, <1>6, <1>7, <1>8, LeftFinite, FS_CardinalityType
  <2> QED
    BY <1>1, <1>2, <1>3, <1>5, <1>6, <1>8, <1>9, <2>1
<1> QED
  BY <1>10 DEF StraysExplained, Strays, Minted, Importing

\* One step: every conversation that is opened is asked for, has its run or waits
\* for it, and one that waited has its run, unless something failed.
LEMMA StrayCount ==
  ASSUME StrayInv, IInv', RunsStay(db, db'), opened \subseteq opened',
         \A c \in Opens(db, db') : c \in opened' \/ HasRun(db', c) \/ c \in Held',
         NEW x,
         \A c \in Held : c \in Held' \/ HasRun(db', c) \/ (c = x /\ failures' = failures + 1),
         failures' \in {failures, failures + 1}
  PROVE  failures' \in Nat /\ Cardinality(Left') <= failures'
<1> DEFINE X == IF failures' = failures + 1 THEN {x} ELSE {}
<1>1. failures \in Nat /\ Cardinality(Left) <= failures /\ IInv
  BY DEF StrayInv
<1>2. Left' \subseteq Left \cup X
  <2> SUFFICES ASSUME NEW c \in Left', c \notin X PROVE c \in Left
    OBVIOUS
  <2>1. c \in DOMAIN db'.convs /\ c \notin opened' /\ c \notin Held' /\ ~HasRun(db', c)
    BY DEF Left, Strays, Conversations, RunsOf, HasRun
  <2>2. c \in DOMAIN db.convs
    BY <2>1 DEF Opens
  <2>3. ~HasRun(db, c)
    BY <2>1 DEF HasRun, RunsStay
  <2>4. c \notin Held
    BY <2>1
  <2> QED
    BY <2>1, <2>2, <2>3, <2>4 DEF Left, Strays, Conversations, RunsOf, HasRun
<1>3. IsFiniteSet(Left) /\ IsFiniteSet(Left') /\ Cardinality(Left) \in Nat /\ Cardinality(Left') \in Nat
  <2>1. IsFiniteSet(Left)
    BY <1>1, LeftFinite
  <2>2. Conversations(db)' = 1 .. Len(db'.convs) /\ Len(db'.convs) \in Nat
    BY LenProperties DEF IInv, Sound, Conversations
  <2>3. IsFiniteSet(Conversations(db)') /\ Left' \subseteq Conversations(db)'
    BY <2>2, FS_Interval DEF Left, Strays
  <2>4. IsFiniteSet(Left')
    BY <2>3, FS_Subset
  <2> QED
    BY <2>1, <2>4, FS_CardinalityType
<1>4. CASE failures' = failures
  <2>1. Left' \subseteq Left
    BY <1>1, <1>2, <1>4
  <2>2. Cardinality(Left') <= Cardinality(Left)
    BY <1>3, <2>1, FS_Subset
  <2> QED
    BY <1>1, <1>3, <1>4, <2>2
<1>5. CASE failures' = failures + 1
  <2>1. Left' \subseteq Left \cup {x}
    BY <1>2, <1>5
  <2>2. IsFiniteSet(Left \cup {x}) /\ Cardinality(Left \cup {x}) <= Cardinality(Left) + 1
    BY <1>3, FS_AddElement
  <2>3. Cardinality(Left') <= Cardinality(Left \cup {x}) /\ Cardinality(Left \cup {x}) \in Nat
    BY <2>1, <2>2, FS_Subset, FS_CardinalityType
  <2> QED
    BY <1>1, <1>3, <1>5, <2>2, <2>3
<1> QED
  BY <1>4, <1>5

\* What a step has to leave true, besides IInv.
Explained(x) ==
  /\ WorkerShape' /\ NoRowYet'
  /\ \E r \in LiveRuns \cup {x} : Minted' \subseteq Minted \cup {r}
  /\ RunsStay(db, db') /\ opened \subseteq opened'
  /\ \A c \in Opens(db, db') : c \in opened' \/ HasRun(db', c) \/ c \in Held'
  /\ \A c \in Held : c \in Held' \/ HasRun(db', c) \/ (c = x /\ failures' = failures + 1)
  /\ failures' \in {failures, failures + 1}

LEMMA ExplainedInv ==
  ASSUME StrayInv, IInv', NEW x, Explained(x)
  PROVE  StrayInv'
<1>1. /\ RunsStay(db, db') /\ opened \subseteq opened'
      /\ \A c \in Opens(db, db') : c \in opened' \/ HasRun(db', c) \/ c \in Held'
      /\ \A c \in Held : c \in Held' \/ HasRun(db', c) \/ (c = x /\ failures' = failures + 1)
      /\ failures' \in {failures, failures + 1}
  BY DEF Explained
<1>2. failures' \in Nat /\ Cardinality(Left') <= failures'
  BY <1>1, StrayCount
<1>3. PICK r \in LiveRuns \cup {x} : Minted' \subseteq Minted \cup {r}
  BY DEF Explained
<1>4. IsFiniteSet(Minted \cup {r})
  BY FS_AddElement DEF StrayInv
<1>5. IsFiniteSet(Minted')
  BY <1>3, <1>4, FS_Subset
<1>6. WorkerShape' /\ NoRowYet'
  BY DEF Explained
<1> QED
  BY <1>2, <1>5, <1>6 DEF StrayInv

\* A step that makes neither a conversation nor a run, and after which the same
\* ones are about to make a row.
LEMMA QuietStep ==
  ASSUME StrayInv, IInv', req' = req, opened' = opened,
         failures' \in {failures, failures + 1},
         RunsStay(db, db'), NoNewRun(db, db'), Opens(db, db') = {},
         WorkerShape',
         \A r \in LiveRuns : worker[r].pc = "none" <=> worker'[r].pc = "none",
         job' = job \/ (job.pc # "row" /\ job'.pc # "row")
  PROVE  StrayInv'
<1>1. Held' = Held /\ Minted' = Minted
  BY DEF Held, Minted
<1>2. NoRowYet'
  BY DEF StrayInv, NoRowYet, NoNewRun
<1>3. Explained(0)
  BY <1>1, <1>2 DEF Explained
<1> QED
  BY <1>3, ExplainedInv

LEMMA Unchanged ==
  ASSUME NEW d, NEW e, e = d
  PROVE  RunsStay(d, e) /\ NoNewRun(d, e) /\ Opens(d, e) = {}
  BY DEF RunsStay, NoNewRun, Opens

-----------------------------------------------------------------------------
(* Requests *)

\* A request's step: r's request goes on with q.
LEMMA RequestExplained ==
  ASSUME StrayInv, IInv', NEW r \in LiveRuns, NEW q \in Requests,
         req' = [req EXCEPT ![r] = q], worker' = worker, job' = job, opened' = opened,
         failures' \in {failures, failures + 1}, RunsStay(db, db'),
         \A c \in Opens(db, db') : q.pc = "minted" /\ c = q.conv,
         DOMAIN db'.runs \subseteq DOMAIN db.runs \cup {r},
         q.pc \in {"open", "minted"} => NoNewRun(db, db') /\ req[r].pc = "none" /\ worker[r].pc = "none",
         q.pc # "none",
         req[r].pc = "minted" => HasRun(db', req[r].conv) \/ failures' = failures + 1
  PROVE  StrayInv'
<1>0. IInv /\ NoRowYet /\ WorkerShape /\ req \in [LiveRuns -> Requests]
  BY DEF StrayInv, IInv, Shapes
<1>1. req'[r] = q /\ \A s \in LiveRuns \ {r} : req'[s] = req[s]
  BY <1>0
<1>2. Minted' \subseteq Minted \cup {r} /\ Minted \ {r} \subseteq Minted'
  BY <1>0, <1>1 DEF Minted
<1>3. NoRowYet'
  BY <1>0, <1>1, ClientsAssumption DEF NoRowYet, NoNewRun
<1>4. \A c \in Held : c \in Held' \/ (req[r].pc = "minted" /\ c = req[r].conv)
  <2> SUFFICES ASSUME NEW c \in Held, c \notin Held'
               PROVE  req[r].pc = "minted" /\ c = req[r].conv
    OBVIOUS
  <2>1. ~(job.pc = "row" /\ c = job.conv)
    BY DEF Held
  <2>2. PICK s \in Minted : c = req[s].conv
    BY <2>1 DEF Held
  <2>3. s = r
    <3>1. ASSUME s # r PROVE FALSE
      <4>1. s \in Minted' /\ req'[s].conv = c
        BY <1>1, <1>2, <2>2, <3>1 DEF Minted
      <4> QED  BY <4>1 DEF Held
    <3> QED  BY <3>1
  <2> QED  BY <2>2, <2>3 DEF Minted
<1>5. \A c \in Opens(db, db') : c \in Held'
  <2> SUFFICES ASSUME NEW c \in Opens(db, db') PROVE c \in Held'
    OBVIOUS
  <2>1. r \in Minted' /\ c = req'[r].conv
    BY <1>1 DEF Minted
  <2> QED  BY <2>1 DEF Held
<1>6. Explained(req[r].conv)
  BY <1>0, <1>2, <1>3, <1>4, <1>5 DEF Explained, WorkerShape
<1> QED
  BY <1>6, ExplainedInv

LEMMA RequestStrays ==
  ASSUME StrayInv, IInv', Request
  PROVE  StrayInv'
<1> USE PeopleAreUsers
<1>0. IInv /\ Sound(db) /\ WorkerShape /\ NoRowYet /\ req \in [LiveRuns -> Requests]
  BY DEF StrayInv, IInv, Shapes
<1>1. ASSUME NEW u \in People, Identify(u) PROVE StrayInv'
  <2>1. RunsStay(db, db') /\ NoNewRun(db, db') /\ Opens(db, db') = {}
    BY <1>0, <1>1, UpsertStays DEF Identify
  <2>2. req' = req /\ opened' = opened /\ failures' = failures /\ worker' = worker /\ job' = job
    BY <1>1 DEF Identify, ApiOnly
  <2> QED  BY <1>0, <2>1, <2>2, QuietStep DEF WorkerShape
<1>2. ASSUME NEW u \in People, OpenConversation(u) PROVE StrayInv'
  <2>1. /\ RunsStay(db, db') /\ NoNewRun(db, db') /\ Opens(db, db') \subseteq {Len(db'.convs)}
    BY <1>0, <1>2, CreateConversationStays DEF OpenConversation
  <2>2. /\ req' = req /\ opened' = opened \cup {Len(db'.convs)} /\ failures' = failures
        /\ worker' = worker /\ job' = job
    BY <1>2 DEF OpenConversation, ApiOnly
  <2>3. Held' = Held /\ Minted' = Minted
    BY <2>2 DEF Held, Minted
  <2>4. NoRowYet' /\ WorkerShape'
    BY <1>0, <2>1, <2>2 DEF NoRowYet, NoNewRun, WorkerShape
  <2>5. Explained(0)
    BY <2>1, <2>2, <2>3, <2>4 DEF Explained
  <2> QED  BY <2>5, ExplainedInv
<1>3. ASSUME NEW u \in People, NEW c \in Conversations(db), NEW a \in BOOLEAN, Archive(u, c, a)
      PROVE  StrayInv'
  <2> DEFINE d == UpsertUser(db, u)
  <2>1. Sound(d) /\ RunsStay(db, d) /\ NoNewRun(db, d) /\ Opens(db, d) = {}
    BY <1>0, UpsertKeeps, UpsertStays DEF Keeps
  <2>2. db' = UpdateConversation(d, c, u, a)
    BY <1>3 DEF Archive
  <2> HIDE DEF d
  <2>3. RunsStay(d, db') /\ NoNewRun(d, db') /\ Opens(d, db') = {}
    BY <2>1, <2>2, UpdateConversationStays
  <2>4. RunsStay(db, db') /\ NoNewRun(db, db') /\ Opens(db, db') = {}
    BY <2>1, <2>3 DEF RunsStay, NoNewRun, Opens
  <2>5. req' = req /\ opened' = opened /\ failures' = failures /\ worker' = worker /\ job' = job
    BY <1>3 DEF Archive, ApiOnly
  <2> QED  BY <1>0, <2>4, <2>5, QuietStep DEF WorkerShape
<1>4. ASSUME NEW u \in People, NEW c \in Conversations(db), NEW r \in LiveRuns, Continue(u, c, r)
      PROVE  StrayInv'
  <2> DEFINE q == [pc |-> "open", user |-> u, conv |-> c]
  <2>1. RunsStay(db, db') /\ NoNewRun(db, db') /\ Opens(db, db') = {}
    BY <1>0, <1>4, UpsertStays DEF Continue
  <2>2. c \in Nat
    BY <1>0, LenProperties DEF Sound, Conversations
  <2>3. q \in Requests /\ q.pc = "open"
    BY <2>2 DEF Requests
  <2>4. /\ req' = [req EXCEPT ![r] = q] /\ worker' = worker /\ job' = job /\ opened' = opened
        /\ failures' = failures /\ req[r].pc = "none" /\ worker[r].pc = "none"
    BY <1>4 DEF Continue, ApiOnly
  <2> HIDE DEF q
  <2> QED  BY <2>1, <2>3, <2>4, RequestExplained DEF NoNewRun
<1>5. ASSUME NEW u \in People \cup {None}, NEW r \in LiveRuns, Post(u, r)
      PROVE  StrayInv'
  <2> DEFINE q == [pc |-> "minted", user |-> Owner(u), conv |-> Len(db'.convs)]
  <2>1. /\ RunsStay(db, db') /\ NoNewRun(db, db') /\ Opens(db, db') \subseteq {Len(db'.convs)}
    BY <1>0, <1>5, CreateConversationStays DEF Post
  <2>2. Len(db'.convs) \in Nat
    BY LenProperties DEF IInv, Sound
  <2>3. q \in Requests /\ q.pc = "minted" /\ q.conv = Len(db'.convs)
    BY <2>2 DEF Requests
  <2>4. /\ req' = [req EXCEPT ![r] = q] /\ worker' = worker /\ job' = job /\ opened' = opened
        /\ failures' = failures /\ req[r].pc = "none" /\ worker[r].pc = "none"
    BY <1>5 DEF Post, ApiOnly
  <2> HIDE DEF q
  <2> QED  BY <2>1, <2>3, <2>4, RequestExplained DEF NoNewRun
<1>6. ASSUME NEW r \in LiveRuns, CreateRow(r) PROVE StrayInv'
  <2> DEFINE q == [req[r] EXCEPT !.pc = "created"]
  <2>1. req[r].conv \in DOMAIN db.convs /\ req[r].user \in Users /\ req[r].pc \in {"open", "minted"}
    BY <1>0, <1>6 DEF CreateRow, IInv, RequestsAgree, Requests
  <2>2. r \notin DOMAIN db.runs
    BY <1>0, <2>1 DEF NoRowYet
  <2> MakesRow(db, db', r, req[r].conv)
    BY <1>0, <1>6, <2>1, CreateRunStays DEF CreateRow
  <2>3. /\ RunsStay(db, db') /\ \A x \in Opens(db, db') : HasRun(db', x)
        /\ DOMAIN db'.runs = DOMAIN db.runs \cup {r} /\ db'.runs[r].conv = req[r].conv
    BY <2>1, <2>2 DEF MakesRow
  <2>4. Held \ {req[r].conv} \subseteq Held' /\ Minted' \subseteq Minted
    <3>1. /\ Minted' = Minted \ {r} /\ job' = job
          /\ \A s \in LiveRuns \ {r} : req'[s] = req[s]
      BY <1>0, <1>6 DEF CreateRow, ApiOnly, Minted, Requests
    <3> QED  BY <3>1 DEF Held, Minted
  <2>5. HasRun(db', req[r].conv)
    BY <2>3 DEF HasRun
  <2>6. /\ worker' = worker /\ job' = job /\ opened' = opened /\ failures' = failures
        /\ req' = [req EXCEPT ![r].pc = "created"]
    BY <1>6 DEF CreateRow, ApiOnly
  <2>7. NoRowYet' /\ WorkerShape'
    BY <1>0, <2>3, <2>6, ClientsAssumption DEF NoRowYet, WorkerShape, Requests
  <2>8. /\ \A c \in Held : c \in Held' \/ HasRun(db', c)
        /\ Minted' \subseteq Minted \cup {r} /\ r \in LiveRuns \cup {r}
    BY <2>4, <2>5
  <2>9. /\ \A c \in Opens(db, db') : c \in opened' \/ HasRun(db', c) \/ c \in Held'
        /\ opened \subseteq opened' /\ failures' \in {failures, failures + 1}
    BY <2>3, <2>6
  <2>10. Explained(r)
    BY <2>3, <2>7, <2>8, <2>9 DEF Explained
  <2> QED  BY <2>10, ExplainedInv
<1>7. ASSUME NEW r \in LiveRuns, Spawn(r) \/ SpawnRaises(r) PROVE StrayInv'
  <2>1. /\ req[r].pc = "created" /\ req' = [req EXCEPT ![r].pc = "answered"]
        /\ \E pc \in {"none", "queued"} : worker' = [worker EXCEPT ![r].pc = pc]
        /\ db' = db /\ job' = job /\ opened' = opened /\ failures' = failures
    BY <1>7 DEF Spawn, SpawnRaises
  <2>2. Minted' = Minted /\ \A s \in Minted : req'[s] = req[s]
    BY <1>0, <2>1 DEF Minted, Requests
  <2>3. Held' = Held
    BY <2>1, <2>2 DEF Held
  <2>4. NoRowYet' /\ WorkerShape'
    BY <1>0, <2>1 DEF NoRowYet, WorkerShape, Requests
  <2>5. Explained(r)
    BY <2>1, <2>2, <2>3, <2>4, Unchanged DEF Explained
  <2> QED  BY <2>5, ExplainedInv
<1>8. ASSUME NEW r \in LiveRuns, RequestDies(r) PROVE StrayInv'
  <2> DEFINE q == [req[r] EXCEPT !.pc = "gone"]
  <2>1. q \in Requests /\ q.pc = "gone"
    BY <1>0 DEF Requests
  <2>2. /\ req' = [req EXCEPT ![r] = q] /\ worker' = worker /\ job' = job /\ opened' = opened
        /\ db' = db /\ failures' = failures + 1
    BY <1>8 DEF RequestDies, ApiOnly, Fails
  <2>3. RunsStay(db, db') /\ NoNewRun(db, db') /\ Opens(db, db') = {}
    BY <2>2, Unchanged
  <2> HIDE DEF q
  <2> QED  BY <2>1, <2>2, <2>3, RequestExplained DEF NoNewRun
<1> QED
  BY <1>1, <1>2, <1>3, <1>4, <1>5, <1>6, <1>7, <1>8 DEF Request

LEMMA WorkStrays ==
  ASSUME StrayInv, IInv', Work
  PROVE  StrayInv'
<1>0. IInv /\ Sound(db) /\ WorkerShape /\ NoRowYet /\ req \in [LiveRuns -> Requests]
  BY DEF StrayInv, IInv, Shapes
<1> PICK r \in LiveRuns : LocalRun(r) \/ Begin(r) \/ Flush(r) \/ Resend(r) \/ Settle(r) \/ WorkerDies(r)
  BY DEF Work
<1>1. req' = req /\ job' = job /\ opened' = opened
  BY DEF LocalRun, Begin, Flush, Resend, Settle, WorkerDies, WorkerOnly
<1>2. Held' = Held /\ Minted' = Minted
  BY <1>1 DEF Held, Minted
<1>3. DOMAIN worker[r] = {"pc", "sent"} /\ DOMAIN worker = LiveRuns
  BY <1>0 DEF WorkerShape
<1>4. CASE LocalRun(r)
  <2>1. /\ worker' = [worker EXCEPT ![r].pc = "queued"] /\ req[r].pc = "none"
        /\ db' = db /\ failures' = failures
    BY <1>4 DEF LocalRun
  <2>2. NoRowYet' /\ WorkerShape'
    BY <1>0, <1>1, <2>1 DEF NoRowYet, WorkerShape
  <2>3. Explained(r)
    BY <1>1, <1>2, <2>1, <2>2, Unchanged DEF Explained
  <2> QED  BY <2>3, ExplainedInv
<1>5. CASE Begin(r)
  <2>1. req[r].user \in Users
    BY <1>0 DEF Requests
  <2> MakesRow(db, db', r, 0)
    BY <1>0, <1>5, <2>1, CreateRunStays DEF Begin
  <2>2. /\ RunsStay(db, db') /\ \A x \in Opens(db, db') : HasRun(db', x)
        /\ DOMAIN db'.runs = DOMAIN db.runs \cup {r}
    BY DEF MakesRow
  <2>3. /\ worker[r].pc = "queued" /\ failures' = failures /\ DOMAIN worker' = LiveRuns
        /\ \A s \in LiveRuns \ {r} : worker'[s] = worker[s]
        /\ worker'[r].pc \in {"running", "over"} /\ DOMAIN worker'[r] = {"pc", "sent"}
    BY <1>3, <1>5 DEF Begin
  <2>4. WorkerShape'
    BY <1>0, <2>3 DEF WorkerShape
  <2>5. NoRowYet'
    BY <1>0, <1>1, <2>2, <2>3, ClientsAssumption DEF NoRowYet
  <2>6. /\ \A c \in Opens(db, db') : c \in opened' \/ HasRun(db', c) \/ c \in Held'
        /\ opened \subseteq opened' /\ failures' \in {failures, failures + 1}
    BY <1>1, <2>2, <2>3
  <2>7. Explained(r)
    BY <1>2, <2>2, <2>4, <2>5, <2>6 DEF Explained
  <2> QED  BY <2>7, ExplainedInv
<1>6. CASE Flush(r) \/ Resend(r)
  <2>1. RunsStay(db, db') /\ NoNewRun(db, db') /\ Opens(db, db') = {}
    BY <1>0, <1>6, AppendEventsStays DEF Flush, Resend
  <2>2. failures' \in {failures, failures + 1}
    BY <1>6 DEF Flush, Resend, Fails
  <2>3. /\ WorkerShape'
        /\ \A s \in LiveRuns : worker[s].pc = "none" <=> worker'[s].pc = "none"
    <3>1. CASE Flush(r)
      <4>1. worker' = worker \/ \E hi : worker' = [worker EXCEPT ![r].sent = hi]
        BY <3>1 DEF Flush
      <4> QED  BY <1>0, <1>3, <4>1 DEF WorkerShape
    <3>2. CASE Resend(r)
      <4>1. worker' = [worker EXCEPT ![r].pc = "settle"] /\ worker[r].pc = "running"
        BY <3>2 DEF Resend
      <4> QED  BY <1>0, <1>3, <4>1 DEF WorkerShape
    <3> QED  BY <1>6, <3>1, <3>2
  <2> QED  BY <1>1, <2>1, <2>2, <2>3, QuietStep
<1>7. CASE Settle(r) \/ WorkerDies(r)
  <2>1. /\ db' = db /\ failures' \in {failures, failures + 1}
        /\ worker[r].pc \in {"running", "settle"}
        /\ \E pc \in {"over", "queued"} : worker' = [worker EXCEPT ![r].pc = pc]
    BY <1>7 DEF Settle, WorkerDies, Fails
  <2>2. RunsStay(db, db') /\ NoNewRun(db, db') /\ Opens(db, db') = {}
    BY <2>1, Unchanged
  <2>3. /\ WorkerShape'
        /\ \A s \in LiveRuns : worker[s].pc = "none" <=> worker'[s].pc = "none"
    BY <1>0, <1>3, <2>1 DEF WorkerShape
  <2> QED  BY <1>1, <2>1, <2>2, <2>3, QuietStep
<1> QED
  BY <1>4, <1>5, <1>6, <1>7

\* Most of the jobs' steps open no conversation and make no run.
LEMMA QuietOperate ==
  ASSUME StrayInv, IInv', Operate, ~ImportRow, ~JobDies,
         \A r \in LegacyRuns : ~ImportRecord(r) /\ ~ImportLegacyRow(r)
  PROVE  StrayInv'
<1>0. /\ IInv /\ Sound(db) /\ WorkerShape
      /\ DOMAIN job = {"kind", "pc", "todo", "run", "conv", "chunk", "plan"}
  BY DEF StrayInv, IInv, Shapes
<1>1. ASSUME NEW kind, NEW pc, NEW todo, pc # "row", Start(kind, pc, todo) PROVE StrayInv'
  <2>1. /\ db' = db /\ req' = req /\ worker' = worker /\ opened' = opened
        /\ failures' = failures /\ job.pc = "idle" /\ job'.pc = pc
    BY <1>1 DEF Start, JobOnly, Idle
  <2> QED  BY <1>0, <1>1, <2>1, Unchanged, QuietStep DEF WorkerShape
<1>2. CASE StartBackfill \/ StartLegacyImport \/ \E u \in Users : StartPrune(u)
  BY <1>1, <1>2 DEF StartBackfill, StartLegacyImport, StartPrune
<1>3. CASE Replay \/ Mark
  <2>1. RunsStay(db, db') /\ NoNewRun(db, db') /\ Opens(db, db') = {}
    BY <1>0, <1>3, AppendEventsStays DEF Replay, Mark
  <2>2. /\ req' = req /\ worker' = worker /\ opened' = opened /\ failures' = failures
        /\ job.pc # "row" /\ job'.pc # "row"
    BY <1>0, <1>3 DEF Replay, Mark, Goes, Unmoved, JobOnly
  <2> QED  BY <1>0, <2>1, <2>2, QuietStep DEF WorkerShape
<1>4. CASE Pin \/ NextRecord \/ Correct \/ NextCandidate
  <2>1. /\ db' = db /\ req' = req /\ worker' = worker /\ opened' = opened
        /\ failures' = failures /\ job.pc # "row" /\ job'.pc # "row"
    BY <1>0, <1>4 DEF Pin, NextRecord, Correct, NextCandidate, Goes, Unmoved, JobOnly
  <2> QED  BY <1>0, <2>1, Unchanged, QuietStep DEF WorkerShape
<1>5. CASE Classify \/ \E r \in DOMAIN db.runs : Plan(r)
  <2>1. /\ db' = db /\ req' = req /\ worker' = worker /\ opened' = opened
        /\ failures' = failures /\ job.pc # "row" /\ job'.pc # "row"
    BY <1>0, <1>5 DEF Classify, Plan, Unmoved, JobOnly
  <2> QED  BY <1>0, <2>1, Unchanged, QuietStep DEF WorkerShape
<1>6. ASSUME NEW c \in Conversations(db), Prune(c) PROVE StrayInv'
  <2>1. RunsStay(db, db') /\ NoNewRun(db, db') /\ Opens(db, db') = {}
    BY <1>0, <1>6, UpdateConversationStays DEF Prune
  <2>2. /\ req' = req /\ worker' = worker /\ opened' = opened /\ failures' = failures
        /\ job.pc # "row" /\ job'.pc # "row"
    BY <1>0, <1>6 DEF Prune, Unmoved, JobOnly
  <2> QED  BY <1>0, <2>1, <2>2, QuietStep DEF WorkerShape
<1>7. CASE JobEnds
  <2>1. /\ db' = db /\ req' = req /\ worker' = worker /\ opened' = opened
        /\ failures' = failures /\ job.pc # "row" /\ job'.pc # "row"
    BY <1>7 DEF JobEnds, Unmoved, JobOnly, Idle
  <2> QED  BY <1>0, <2>1, Unchanged, QuietStep DEF WorkerShape
<1> QED
  BY <1>2, <1>3, <1>4, <1>5, <1>6, <1>7 DEF Operate

LEMMA OperateStrays ==
  ASSUME StrayInv, IInv', Operate
  PROVE  StrayInv'
<1> USE PeopleAreUsers
<1>0. /\ IInv /\ Sound(db) /\ WorkerShape /\ NoRowYet
      /\ DOMAIN job = {"kind", "pc", "todo", "run", "conv", "chunk", "plan"}
  BY DEF StrayInv, IInv, Shapes
<1>1. ASSUME NEW r \in LegacyRuns, ImportRecord(r) PROVE StrayInv'
  <2>1. /\ req' = req /\ worker' = worker /\ opened' = opened /\ failures' = failures
        /\ job.pc = "import"
    BY <1>1 DEF ImportRecord, Unmoved, JobOnly
  <2>2. CASE r \in DOMAIN db.runs
    <3>1. db' = db /\ job'.pc = "replay"
      BY <1>0, <1>1, <2>2 DEF ImportRecord
    <3> QED  BY <1>0, <2>1, <3>1, Unchanged, QuietStep DEF WorkerShape
  <2>3. CASE r \notin DOMAIN db.runs
    <3>1. /\ db' = CreateConversation(db, LegacyUser)
          /\ job'.pc = "row" /\ job'.run = r /\ job'.conv = Len(db'.convs)
      BY <1>0, <1>1, <2>3 DEF ImportRecord
    <3>2. RunsStay(db, db') /\ NoNewRun(db, db') /\ Opens(db, db') \subseteq {Len(db'.convs)}
      BY <1>0, <3>1, CreateConversationStays
    <3>3. Held' = Held \cup {Len(db'.convs)} /\ Minted' = Minted
      BY <2>1, <3>1 DEF Held, Minted
    <3>4. NoRowYet' /\ WorkerShape'
      BY <1>0, <2>1, <2>3, <3>1, <3>2 DEF NoRowYet, NoNewRun, WorkerShape
    <3>5. Explained(0)
      BY <2>1, <3>2, <3>3, <3>4 DEF Explained
    <3> QED  BY <3>5, ExplainedInv
  <2> QED  BY <2>2, <2>3
<1>2. CASE ImportRow
  <2>1. /\ req' = req /\ worker' = worker /\ opened' = opened /\ failures' = failures
        /\ job.pc = "row" /\ job'.pc = "replay"
        /\ db' = CreateRun(db, job.run, LegacyUser, job.conv, Legacy[job.run])
    BY <1>0, <1>2 DEF ImportRow, Goes, Unmoved, JobOnly
  <2>2. job.run \in LegacyRuns \ DOMAIN db.runs /\ job.conv \in DOMAIN db.convs
    BY <1>0, <2>1 DEF NoRowYet, IInv, ImportAgrees
  <2> MakesRow(db, db', job.run, job.conv)
    BY <1>0, <2>1, CreateRunStays
  <2>3. /\ RunsStay(db, db') /\ \A x \in Opens(db, db') : HasRun(db', x)
        /\ DOMAIN db'.runs = DOMAIN db.runs \cup {job.run} /\ db'.runs[job.run].conv = job.conv
    BY <2>2 DEF MakesRow
  <2>4. HasRun(db', job.conv)
    BY <2>3 DEF HasRun
  <2>5. Minted' = Minted /\ Held \subseteq Held' \cup {job.conv}
    BY <2>1 DEF Minted, Held
  <2>6. NoRowYet' /\ WorkerShape'
    BY <1>0, <2>1, <2>2, <2>3, ClientsAssumption DEF NoRowYet, WorkerShape
  <2>7. /\ \A c \in Held : c \in Held' \/ HasRun(db', c)
        /\ \A c \in Opens(db, db') : c \in opened' \/ HasRun(db', c) \/ c \in Held'
        /\ opened \subseteq opened' /\ failures' \in {failures, failures + 1}
    BY <2>1, <2>3, <2>4, <2>5
  <2>8. \E r \in LiveRuns \cup {0} : Minted' \subseteq Minted \cup {r}
    BY <2>5
  <2>9. Explained(0)
    BY <2>3, <2>6, <2>7, <2>8 DEF Explained
  <2> QED  BY <2>9, ExplainedInv
<1>3. ASSUME NEW r \in LegacyRuns, ImportLegacyRow(r) PROVE StrayInv'
  <2>1. /\ req' = req /\ worker' = worker /\ opened' = opened /\ failures' = failures
        /\ job.pc = "import" /\ job'.pc = "replay"
        /\ db' = CreateRun(db, r, Anonymous, 0, Legacy[r])
    BY <1>0, <1>3 DEF ImportLegacyRow, Unmoved, JobOnly
  <2> MakesRow(db, db', r, 0)
    BY <1>0, <2>1, CreateRunStays
  <2>2. /\ RunsStay(db, db') /\ \A x \in Opens(db, db') : HasRun(db', x)
        /\ DOMAIN db'.runs = DOMAIN db.runs \cup {r}
    BY DEF MakesRow
  <2>3. Minted' = Minted /\ Held' = Held
    BY <2>1 DEF Minted, Held
  <2>4. NoRowYet' /\ WorkerShape'
    BY <1>0, <2>1, <2>2, ClientsAssumption DEF NoRowYet, WorkerShape
  <2>5. /\ \A c \in Opens(db, db') : c \in opened' \/ HasRun(db', c) \/ c \in Held'
        /\ opened \subseteq opened' /\ failures' \in {failures, failures + 1}
    BY <2>1, <2>2
  <2>6. \E s \in LiveRuns \cup {0} : Minted' \subseteq Minted \cup {s}
    BY <2>3
  <2>7. Explained(0)
    BY <2>2, <2>3, <2>4, <2>5, <2>6 DEF Explained
  <2> QED  BY <2>7, ExplainedInv
<1>4. CASE JobDies
  <2>1. /\ db' = db /\ req' = req /\ worker' = worker /\ opened' = opened
        /\ failures' = failures + 1 /\ job'.pc = "idle"
    BY <1>4 DEF JobDies, JobOnly, Fails, Idle
  <2>2. Minted' = Minted /\ Held \subseteq Held' \cup {job.conv}
    BY <2>1 DEF Minted, Held
  <2>3. NoRowYet' /\ WorkerShape'
    BY <1>0, <2>1 DEF NoRowYet, WorkerShape
  <2>4. \E s \in LiveRuns \cup {job.conv} : Minted' \subseteq Minted \cup {s}
    BY <2>2
  <2>5. /\ \A c \in Held : c \in Held' \/ (c = job.conv /\ failures' = failures + 1)
        /\ opened \subseteq opened' /\ failures' \in {failures, failures + 1}
    BY <2>1, <2>2
  <2>6. RunsStay(db, db') /\ Opens(db, db') = {}
    BY <2>1, Unchanged
  <2>7. Explained(job.conv)
    BY <2>3, <2>4, <2>5, <2>6 DEF Explained
  <2> QED  BY <2>7, ExplainedInv
<1> QED
  BY <1>1, <1>2, <1>3, <1>4, QuietOperate

LEMMA StoreStrays ==
  ASSUME StrayInv, IInv', StoreUpdates
  PROVE  StrayInv'
<1>1. RunsStay(db, db') /\ NoNewRun(db, db') /\ Opens(db, db') = {}
  BY FinishRunStays DEF StoreUpdates, StrayInv, IInv
<1>2. /\ req' = req /\ worker' = worker /\ opened' = opened /\ failures' = failures /\ job' = job
  BY DEF StoreUpdates
<1> QED
  BY <1>1, <1>2, QuietStep DEF StrayInv, WorkerShape

LEMMA InitStrays == Init => StrayInv
<1> SUFFICES ASSUME Init PROVE StrayInv
  OBVIOUS
<1>1. IInv
  BY InitInv
<1>2. /\ db.convs = << >> /\ db.runs = << >> /\ failures = 0 /\ job.pc = "idle"
      /\ \A r \in LiveRuns : req[r].pc = "none" /\ worker[r].pc = "none"
  BY DEF Init, EmptyDb, Idle
<1>3. Minted = {} /\ Strays = {}
  BY <1>2 DEF Minted, Strays, Conversations
<1>4. IsFiniteSet(Minted) /\ Cardinality(Left) = 0
  BY <1>3, FS_EmptySet DEF Left
<1>5. WorkerShape
  BY DEF Init, WorkerShape
<1>6. NoRowYet
  BY <1>2 DEF NoRowYet
<1> QED
  BY <1>1, <1>2, <1>4, <1>5, <1>6 DEF StrayInv

LEMMA StrayStep == StrayInv /\ [Next]_vars => StrayInv'
<1> SUFFICES ASSUME StrayInv, [Next]_vars PROVE StrayInv'
  OBVIOUS
<1>1. IInv'
  BY StepInv DEF StrayInv
<1>2. CASE UNCHANGED vars
  BY <1>1, <1>2, Unchanged, QuietStep DEF vars, StrayInv, WorkerShape
<1> QED
  BY <1>1, <1>2, RequestStrays, WorkStrays, OperateStrays, StoreStrays DEF Next

\* However often a spawn is replayed, an import is repeated or a caller dies,
\* there are no more conversations nobody asked for and without a run than
\* requests and imports under way and failures (create_run, import_record).
THEOREM StraysAreExplained == Spec => []StraysExplained
<1>1. Init => StrayInv
  BY InitStrays
<1>2. StrayInv /\ [Next]_vars => StrayInv'
  BY StrayStep
<1>3. StrayInv => StraysExplained
  BY StraysFromInv
<1> QED  BY <1>1, <1>2, <1>3, PTL DEF Spec

-----------------------------------------------------------------------------
(* append_events, event by event *)

\* The state after each event of a batch.
Stages(s, r, batch, f) ==
  /\ f[0] = s
  /\ \A i \in 1 .. Len(batch) : f[i] = StoreEvent(f[i - 1], r, batch[i])

\* The function StoreAll's fold is the last value of, on sets of the batch's places.
StoreFold(s, r, batch, it) ==
  it = [S \in SUBSET DOMAIN batch |->
          IF S = {} THEN s ELSE StoreEvent(it[S \ {Max(S)}], r, batch[Max(S)])]

LEMMA StoreFoldExists ==
  ASSUME NEW U, NEW batch \in Seq(U), NEW s, NEW r
  PROVE  \E it : StoreFold(s, r, batch, it)
<1> DEFINE n == Len(batch)
           D == SUBSET (1 .. n)
           rhs(it, S) == IF S = {} THEN s ELSE StoreEvent(it[S \ {Max(S)}], r, batch[Max(S)])
           P == {k \in Nat : \E it : it = [S \in D |-> it[S]] /\
                    \A S \in D : S \subseteq 1 .. k => it[S] = rhs(it, S)}
<1>0. DOMAIN batch = 1 .. n /\ n \in Nat
  OBVIOUS
<1> HIDE DEF n
<1>1. 0 \in P
  <2> DEFINE it == [S \in D |-> s]
  <2>1. \A S \in D : S \subseteq 1 .. 0 => it[S] = rhs(it, S)
    OBVIOUS
  <2>2. it = [S \in D |-> it[S]]
    OBVIOUS
  <2> HIDE DEF it, rhs
  <2> QED
    BY <2>1, <2>2
<1>2. ASSUME NEW k \in Nat, k \in P PROVE k + 1 \in P
  <2>1. PICK it : it = [S \in D |-> it[S]] /\ \A S \in D : S \subseteq 1 .. k => it[S] = rhs(it, S)
    BY <1>2
  <2> DEFINE g == [S \in D |-> rhs(it, S)]
  <2>2. ASSUME NEW S \in D, S \subseteq 1 .. (k + 1) PROVE g[S] = rhs(g, S)
    <3>1. CASE S = {}
      BY <3>1
    <3>2. CASE S # {}
      <4>1. Max(S) \in S /\ \A y \in S : Max(S) >= y
        BY <1>0, <3>2, MaxIs
      <4> DEFINE R == S \ {Max(S)}
      <4>2. R \in D /\ R \subseteq 1 .. k
        <5> SUFFICES ASSUME NEW y \in R PROVE y \in 1 .. k
          OBVIOUS
        <5>1. y \in 1 .. (k + 1) /\ Max(S) \in 1 .. (k + 1) /\ Max(S) >= y /\ y # Max(S)
          BY <2>2, <4>1
        <5> QED
          BY <5>1
      <4> HIDE DEF rhs
      <4>3. g[R] = it[R]
        BY <2>1, <4>2
      <4>4. g[S] = rhs(it, S)
        OBVIOUS
      <4> QED
        BY <3>2, <4>3, <4>4 DEF rhs
    <3> QED
      BY <3>1, <3>2
  <2>3. g = [S \in D |-> g[S]]
    OBVIOUS
  <2> HIDE DEF g, rhs
  <2>4. \E f : f = [S \in D |-> f[S]] /\ \A S \in D : S \subseteq 1 .. (k + 1) => f[S] = rhs(f, S)
    BY <2>2, <2>3
  <2> HIDE DEF D
  <2> QED
    BY <2>4
<1>3. n \in P
  <2> HIDE DEF P
  <2> QED
    BY <1>0, <1>1, <1>2, Induct
<1>4. PICK it : it = [S \in D |-> it[S]] /\ \A S \in D : S \subseteq 1 .. n => it[S] = rhs(it, S)
  BY <1>3
<1>5. it = [S \in D |-> rhs(it, S)]
  <2> HIDE DEF rhs
  <2> QED
    BY <1>4
<1> QED
  BY <1>0, <1>5 DEF StoreFold

\* StoreAll goes from one stage to the next.
LEMMA StoreAllStages ==
  ASSUME NEW U, NEW batch \in Seq(U), NEW s, NEW r
  PROVE  \E f : Stages(s, r, batch, f) /\ StoreAll(s, r, batch) = f[Len(batch)]
<1> DEFINE Body(it) == [S \in SUBSET DOMAIN batch |->
                   IF S = {} THEN s ELSE StoreEvent(it[S \ {Max(S)}], r, batch[Max(S)])]
           it == CHOOSE it : it = Body(it)
<1>1. StoreAll(s, r, batch) = it[DOMAIN batch]
  BY DEF StoreAll, FoldLeft, MapThenFoldSet
<1>2. StoreFold(s, r, batch, it)
  <2>1. \A w : w = Body(w) <=> StoreFold(s, r, batch, w)
    BY DEF StoreFold
  <2> HIDE DEF Body
  <2>2. PICK w : StoreFold(s, r, batch, w)
    BY StoreFoldExists
  <2>3. it = Body(it)
    BY <2>1, <2>2
  <2> HIDE DEF it
  <2> QED
    BY <2>1, <2>3
<1> HIDE DEF it
<1> DEFINE f == [n \in 0 .. Len(batch) |-> it[1 .. n]]
<1>3. DOMAIN batch = 1 .. Len(batch) /\ Len(batch) \in Nat
  OBVIOUS
<1>4. f[0] = s
  <2>1. 1 .. 0 = {} /\ {} \in SUBSET DOMAIN batch
    OBVIOUS
  <2>2. it[{}] = s
    BY <1>2, <2>1 DEF StoreFold
  <2> QED
    BY <1>3, <2>1, <2>2
<1>5. ASSUME NEW i \in 1 .. Len(batch) PROVE f[i] = StoreEvent(f[i - 1], r, batch[i])
  <2>1. 1 .. i \in SUBSET DOMAIN batch /\ 1 .. i # {} /\ Max(1 .. i) = i /\ (1 .. i) \ {i} = 1 .. (i - 1)
    BY <1>3, MaxOfInterval
  <2>2. it[1 .. i] = StoreEvent(it[1 .. (i - 1)], r, batch[i])
    BY <1>2, <2>1 DEF StoreFold
  <2>3. f[i] = it[1 .. i] /\ f[i - 1] = it[1 .. (i - 1)]
    BY <1>3
  <2> HIDE DEF f
  <2> QED
    BY <2>2, <2>3
<1>6. f[Len(batch)] = it[DOMAIN batch]
  BY <1>3
<1> HIDE DEF f
<1> QED
  BY <1>1, <1>4, <1>5, <1>6 DEF Stages

-----------------------------------------------------------------------------
(* Rows.  What an event does to a row, and what a batch does *)

RowOk(now) ==
  /\ DOMAIN now = {"status", "score", "error", "tokens", "extra"}
  /\ now.status \in Statuses /\ DOMAIN now.extra \subseteq ExtraKeys

\* What was put into the row is not taken away.
Grows(n, m) ==
  /\ DOMAIN n.extra \subseteq DOMAIN m.extra
  /\ n.score # None => m.score # None

EventOk(e) ==
  /\ e.type = "run.finished" => e.status \in Terminal
  /\ e.type = "episode.evaluated" => e.score # None

Final(r) == Log[r][Len(Log[r])]

\* A live run never looks as if it had ended well without a grade: the error of
\* evaluate is not among those of a log that says ok.
Honest(r, now) ==
  IF Final(r).status = "ok" THEN now.error \notin {"evaluate", "evaluate_sandbox"}
  ELSE now.status # "ok"

LEMMA EventGrows ==
  ASSUME NEW n, RowOk(n), NEW e, EventOk(e)
  PROVE  RowOk(ProjectColumns(n, e)) /\ Grows(n, ProjectColumns(n, e))
<1>1. CASE e.type = "run.started"
  <2>1. ProjectColumns(n, e) = [n EXCEPT !.status = "running"]
    BY <1>1 DEF ProjectColumns
  <2> QED
    BY <1>1, <2>1 DEF RowOk, Grows, Statuses
<1>2. CASE e.type = "llm.call"
  <2>1. ProjectColumns(n, e) = [n EXCEPT !.tokens = @ + e.tokens]
    BY <1>2 DEF ProjectColumns
  <2> QED
    BY <1>2, <2>1 DEF RowOk, Grows
<1>3. CASE e.type = "episode.evaluated"
  <2>1. ProjectColumns(n, e) = [n EXCEPT !.score = e.score] /\ e.score # None
    BY <1>3 DEF ProjectColumns, EventOk
  <2> QED
    BY <1>3, <2>1 DEF RowOk, Grows
<1>4. CASE e.type = "run.finished"
  <2> DEFINE x == With(n.extra, "usage", e.tokens)
  <2>1. DOMAIN x = DOMAIN n.extra \cup {"usage"}
    BY DEF With
  <2>2. ProjectColumns(n, e) =
          [n EXCEPT !.status = e.status, !.error = e.error, !.tokens = e.tokens, !.extra = x]
    BY <1>4 DEF ProjectColumns, RowOk
  <2>3. e.status \in Statuses
    BY <1>4 DEF EventOk, Statuses
  <2> HIDE DEF x
  <2> QED
    BY <2>1, <2>2, <2>3 DEF RowOk, Grows, ExtraKeys
<1>5. CASE e.type \notin {"run.started", "llm.call", "episode.evaluated", "run.finished"}
  <2>1. ProjectColumns(n, e) = n
    BY <1>5 DEF ProjectColumns
  <2> QED
    BY <1>5, <2>1 DEF Grows
<1> QED
  BY <1>1, <1>2, <1>3, <1>4, <1>5

LEMMA EventHonest ==
  ASSUME NEW r \in LiveRuns, NEW i \in DOMAIN Log[r], NEW n, RowOk(n), Honest(r, n)
  PROVE  Honest(r, ProjectColumns(n, Log[r][i]))
<1> DEFINE e == Log[r][i]
           m == ProjectColumns(n, e)
<1>1. CASE e.type = "run.finished"
  <2>1. e = Final(r) /\ (e.status = "ok" => e.error \notin {"evaluate", "evaluate_sandbox"})
    BY <1>1, LogAssumption DEF Final
  <2>2. m.status = e.status /\ m.error = e.error
    <3>1. m = [n EXCEPT !.status = e.status, !.error = e.error, !.tokens = e.tokens,
                        !.extra = With(@, "usage", e.tokens)]
      BY <1>1 DEF ProjectColumns
    <3> QED
      BY <3>1 DEF RowOk
  <2> QED
    BY <2>1, <2>2 DEF Honest
<1>2. CASE e.type # "run.finished"
  <2>1. m.error = n.error /\ m.status \in {n.status, "running"}
    <3>1. \/ m = [n EXCEPT !.status = "running"]
          \/ m = [n EXCEPT !.tokens = @ + e.tokens]
          \/ m = [n EXCEPT !.score = e.score]
          \/ m = n
      BY <1>2 DEF ProjectColumns
    <3> HIDE DEF m, e
    <3> QED
      BY <3>1 DEF RowOk
  <2> QED
    BY <2>1 DEF Honest
<1> QED
  BY <1>1, <1>2

\* A batch of events that are numbered from a.
Numbered(batch, a) == \A i \in DOMAIN batch : batch[i].id = a + i - 1

\* What k events of a batch have made of s.
Grown(s, t, batch, a, k) ==
  /\ DOMAIN t = {"events", "now", "messages"}
  /\ DOMAIN t.events = DOMAIN s.events \cup (a .. a + k - 1)
  /\ RowOk(t.now) /\ Grows(s.now, t.now)

LEMMA OneMore ==
  ASSUME NEW s, NEW U, NEW batch \in Seq(U), NEW a \in Nat, Numbered(batch, a), NEW r,
         NEW k \in Nat, k + 1 \in DOMAIN batch, EventOk(batch[k + 1]),
         NEW t, Grown(s, t, batch, a, k)
  PROVE  Grown(s, StoreEvent(t, r, batch[k + 1]), batch, a, k + 1)
<1> DEFINE e == batch[k + 1]
           u == StoreEvent(t, r, e)
<1>1. e.id = a + k
  <2>2. a + (k + 1) - 1 = a + k
    OBVIOUS
  <2>3. \A i \in DOMAIN batch : batch[i].id = a + i - 1
    BY DEF Numbered
  <2>4. e.id = a + (k + 1) - 1
    BY <2>3
  <2> HIDE DEF e
  <2> QED
    BY <2>2, <2>4
<1>2. (a .. a + (k + 1) - 1) = (a .. a + k - 1) \cup {a + k}
  OBVIOUS
<1>3. CASE e.id \in DOMAIN t.events
  <2>1. u = t /\ e.id \in DOMAIN s.events
    BY <1>1, <1>3 DEF StoreEvent, Grown
  <2>2. DOMAIN t.events = DOMAIN s.events \cup (a .. a + (k + 1) - 1)
    BY <1>1, <1>2, <2>1 DEF Grown
  <2> HIDE DEF e, u
  <2> QED
    BY <2>1, <2>2 DEF Grown, e, u
<1>4. CASE e.id \notin DOMAIN t.events
  <2>1. u = [events |-> With(t.events, e.id, e), now |-> ProjectColumns(t.now, e),
             messages |-> ProjectMessages(t.messages, r, e)]
    BY <1>4 DEF StoreEvent
  <2>2. DOMAIN u = {"events", "now", "messages"} /\ u.now = ProjectColumns(t.now, e)
        /\ DOMAIN u.events = DOMAIN t.events \cup {a + k}
    BY <1>1, <2>1 DEF With
  <2>3. DOMAIN u.events = DOMAIN s.events \cup (a .. a + (k + 1) - 1)
    BY <1>2, <2>2 DEF Grown
  <2> HIDE DEF u, e
  <2>4. RowOk(u.now) /\ Grows(t.now, u.now)
    BY <2>2, EventGrows DEF Grown, e
  <2>5. Grows(s.now, u.now)
    BY <2>4 DEF Grown, Grows
  <2> QED
    BY <2>2, <2>3, <2>4, <2>5 DEF Grown, u, e
<1> QED
  BY <1>3, <1>4

LEMMA BatchGrows ==
  ASSUME NEW s, DOMAIN s = {"events", "now", "messages"}, RowOk(s.now),
         NEW U, NEW batch \in Seq(U), NEW a \in Nat, Numbered(batch, a), NEW r,
         \A i \in DOMAIN batch : EventOk(batch[i])
  PROVE  Grown(s, StoreAll(s, r, batch), batch, a, Len(batch))
<1>1. PICK f : Stages(s, r, batch, f) /\ StoreAll(s, r, batch) = f[Len(batch)]
  BY StoreAllStages
<1> DEFINE P == {k \in Nat : k <= Len(batch) => Grown(s, f[k], batch, a, k)}
<1>2. 0 \in P
  <2>1. f[0] = s /\ (a .. a + 0 - 1) = {} /\ 1 .. 0 = {}
    BY <1>1 DEF Stages
  <2> QED
    BY <2>1 DEF Grown, Grows
<1>3. ASSUME NEW k \in Nat, k \in P PROVE k + 1 \in P
  <2> SUFFICES ASSUME k + 1 <= Len(batch) PROVE Grown(s, f[k + 1], batch, a, k + 1)
    OBVIOUS
  <2>1. k + 1 \in DOMAIN batch /\ k + 1 \in 1 .. Len(batch) /\ (k + 1) - 1 = k
    OBVIOUS
  <2>2. f[k + 1] = StoreEvent(f[k], r, batch[k + 1])
    BY <1>1, <2>1 DEF Stages
  <2>3. Grown(s, f[k], batch, a, k)
    BY <1>3
  <2> QED
    BY <2>1, <2>2, <2>3, OneMore
<1> HIDE DEF P
<1>4. Len(batch) \in P
  BY <1>2, <1>3, Induct
<1> QED
  BY <1>1, <1>4 DEF P

\* A live run's own events leave its row honest.
LEMMA BatchHonest ==
  ASSUME NEW r \in LiveRuns, NEW s, DOMAIN s = {"events", "now", "messages"},
         RowOk(s.now), Honest(r, s.now),
         NEW U, NEW batch \in Seq(U), \A i \in DOMAIN batch : \E j \in DOMAIN Log[r] : batch[i] = Log[r][j]
  PROVE  Honest(r, StoreAll(s, r, batch).now)
<1>1. PICK f : Stages(s, r, batch, f) /\ StoreAll(s, r, batch) = f[Len(batch)]
  BY StoreAllStages
<1> DEFINE P == {k \in Nat : k <= Len(batch) => RowOk(f[k].now) /\ Honest(r, f[k].now)}
<1>2. 0 \in P
  <2>1. f[0] = s
    BY <1>1 DEF Stages
  <2> QED
    BY <2>1
<1>3. ASSUME NEW k \in Nat, k \in P PROVE k + 1 \in P
  <2> SUFFICES ASSUME k + 1 <= Len(batch) PROVE RowOk(f[k + 1].now) /\ Honest(r, f[k + 1].now)
    OBVIOUS
  <2>1. k + 1 \in DOMAIN batch /\ k + 1 \in 1 .. Len(batch) /\ (k + 1) - 1 = k
    OBVIOUS
  <2>2. f[k + 1] = StoreEvent(f[k], r, batch[k + 1])
    BY <1>1, <2>1 DEF Stages
  <2>3. RowOk(f[k].now) /\ Honest(r, f[k].now)
    BY <1>3
  <2>4. PICK j \in DOMAIN Log[r] : batch[k + 1] = Log[r][j]
    BY <2>1
  <2>5. f[k + 1].now \in {f[k].now, ProjectColumns(f[k].now, Log[r][j])}
    BY <2>2, <2>4 DEF StoreEvent
  <2>6. EventOk(Log[r][j])
    BY LogAssumption DEF EventOk, Runs
  <2> QED
    BY <2>3, <2>5, <2>6, EventGrows, EventHonest
<1> HIDE DEF P
<1>4. Len(batch) \in P
  BY <1>2, <1>3, Induct
<1> QED
  BY <1>1, <1>4 DEF P

-----------------------------------------------------------------------------
(* The tables, and what every verb does to them *)

\* m is a list of some length.
Lists(m) == \E n \in Nat : DOMAIN m = 1 .. n /\ m = [i \in 1 .. n |-> m[i]]

\* Of n events the ids are the first n.
Counted(ids) == \E n \in Nat : ids = 0 .. n - 1

Tables(d) ==
  /\ Sound(d)
  /\ d.users \subseteq Users
  /\ \A c \in DOMAIN d.convs : d.convs[c].user \in d.users
  /\ Lists(d.messages) /\ DOMAIN d.messages = DOMAIN d.convs
  /\ DOMAIN d.runs \subseteq Runs /\ DOMAIN d.events = DOMAIN d.runs
  /\ \A r \in DOMAIN d.runs :
       /\ DOMAIN d.runs[r] = {"conv", "user", "now"}
       /\ RowOk(d.runs[r].now) /\ Counted(DOMAIN d.events[r])

\* Conversations stay, and runs with their conversation and owner; only the runs of R
\* are new or have other columns or other events.
Spares(d, e, R) ==
  /\ DOMAIN d.convs \subseteq DOMAIN e.convs
  /\ \A r \in DOMAIN d.runs : e.runs[r].conv = d.runs[r].conv /\ e.runs[r].user = d.runs[r].user
  /\ DOMAIN d.runs \subseteq DOMAIN e.runs /\ DOMAIN e.runs \subseteq DOMAIN d.runs \cup R
  /\ \A r \in DOMAIN d.runs \ R :
       e.runs[r].now = d.runs[r].now /\ DOMAIN e.events[r] = DOMAIN d.events[r]

LEMMA SparesSame ==
  ASSUME NEW d, NEW e, e.runs = d.runs, e.events = d.events,
         DOMAIN d.convs \subseteq DOMAIN e.convs, NEW R
  PROVE  Spares(d, e, R)
  BY DEF Spares

LEMMA SparesMore ==
  ASSUME NEW d, NEW e, NEW f, NEW R, Spares(d, e, {}), Spares(e, f, R)
  PROVE  Spares(d, f, R)
  BY DEF Spares

LEMMA UpsertTables ==
  ASSUME NEW d, Tables(d), NEW u \in Users
  PROVE  Tables(UpsertUser(d, u)) /\ Spares(d, UpsertUser(d, u), {}) /\ u \in UpsertUser(d, u).users
<1> DEFINE e == UpsertUser(d, u)
<1>1. /\ e.users = d.users \cup {u} /\ e.convs = d.convs /\ e.messages = d.messages
      /\ e.runs = d.runs /\ e.events = d.events
  BY DEF Tables, Sound, UpsertUser
<1>2. Sound(e)
  BY UpsertKeeps DEF Tables, Keeps
<1> HIDE DEF e
<1>3. Tables(e) /\ Spares(d, e, {})
  BY <1>1, <1>2, SparesSame DEF Tables
<1> QED
  BY <1>1, <1>3 DEF e

LEMMA Longer ==
  ASSUME NEW m, Lists(m), NEW x
  PROVE  Lists(Append(m, x)) /\ DOMAIN Append(m, x) = 1 .. Len(m) + 1
         /\ DOMAIN m = 1 .. Len(m) /\ Len(m) \in Nat
<1> DEFINE U == {m[i] : i \in DOMAIN m} \cup {x}
<1>1. PICK n \in Nat : DOMAIN m = 1 .. n /\ m = [i \in 1 .. n |-> m[i]]
  BY DEF Lists
<1>2. \A i \in 1 .. n : m[i] \in U
  BY <1>1
<1>3. x \in U
  OBVIOUS
<1> HIDE DEF U
<1>4. m \in [1 .. n -> U]
  BY <1>1, <1>2
<1>5. m \in Seq(U)
  BY <1>4, IsASeq
<1>6. Len(m) \in Nat /\ DOMAIN m = 1 .. Len(m)
  BY <1>5, LenProperties
<1>7. Append(m, x) \in Seq(U) /\ Len(Append(m, x)) = Len(m) + 1
  BY <1>3, <1>5, AppendProperties
<1>8. Append(m, x) \in [1 .. Len(m) + 1 -> U]
  BY <1>7, LenProperties
<1>9. DOMAIN Append(m, x) = 1 .. Len(m) + 1 /\ Len(m) + 1 \in Nat
      /\ Append(m, x) = [i \in 1 .. Len(m) + 1 |-> Append(m, x)[i]]
  <2> DEFINE y == Append(m, x)
             n2 == Len(m) + 1
  <2>1. y \in [1 .. n2 -> U] /\ n2 \in Nat
    BY <1>6, <1>8
  <2> HIDE DEF y, n2
  <2>2. DOMAIN y = 1 .. n2 /\ y = [i \in 1 .. n2 |-> y[i]]
    BY <2>1
  <2> QED
    BY <2>1, <2>2 DEF y, n2
<1> QED
  BY <1>6, <1>9 DEF Lists

LEMMA CreateConversationTables ==
  ASSUME NEW d, Tables(d), NEW u \in Users
  PROVE  Tables(CreateConversation(d, u)) /\ Spares(d, CreateConversation(d, u), {})
         /\ u \in CreateConversation(d, u).users
<1> DEFINE x == [user |-> u, archived |-> FALSE]
           none == << >>
           e == CreateConversation(d, u)
<1>1. /\ e.users = d.users \cup {u} /\ e.convs = Append(d.convs, x)
      /\ e.messages = Append(d.messages, none) /\ e.runs = d.runs /\ e.events = d.events
  BY DEF Tables, Sound, CreateConversation, UpsertUser
<1>2. Sound(e)
  BY CreateConversationKeeps DEF Tables, Keeps
<1>3. x \in Conversation
  BY DEF Conversation
<1>4. /\ DOMAIN e.convs = 1 .. Len(d.convs) + 1 /\ DOMAIN d.convs = 1 .. Len(d.convs)
      /\ Len(d.convs) \in Nat
      /\ \A c \in DOMAIN d.convs : e.convs[c] = d.convs[c]
      /\ e.convs[Len(d.convs) + 1] = x
  BY <1>1, <1>3, AppendProperties, LenProperties DEF Tables, Sound
<1>5. \A c \in DOMAIN e.convs : e.convs[c].user \in e.users
  <2> SUFFICES ASSUME NEW c \in DOMAIN e.convs PROVE e.convs[c].user \in e.users
    OBVIOUS
  <2>1. CASE c = Len(d.convs) + 1
    BY <1>1, <1>4, <2>1
  <2>2. CASE c # Len(d.convs) + 1
    <3> HIDE DEF e
    <3>1. c \in DOMAIN d.convs
      BY <1>4, <2>2
    <3> QED
      BY <1>1, <1>4, <3>1 DEF Tables
  <2> QED
    BY <2>1, <2>2
<1>6. Lists(e.messages) /\ DOMAIN e.messages = DOMAIN e.convs
  <2> HIDE DEF none
  <2>1. /\ Lists(e.messages) /\ DOMAIN e.messages = 1 .. Len(d.messages) + 1
        /\ DOMAIN d.messages = 1 .. Len(d.messages) /\ Len(d.messages) \in Nat
    BY <1>1, Longer DEF Tables
  <2>2. 1 .. Len(d.messages) = 1 .. Len(d.convs)
    BY <1>4, <2>1 DEF Tables
  <2>3. Len(d.messages) = Len(d.convs)
    BY <1>4, <2>1, <2>2
  <2> HIDE DEF e
  <2> QED
    BY <1>4, <2>1, <2>3
<1> HIDE DEF e, none
<1>7. DOMAIN d.convs \subseteq DOMAIN e.convs
  BY <1>4
<1>8. Tables(e) /\ Spares(d, e, {})
  BY <1>1, <1>2, <1>5, <1>6, <1>7, SparesSame DEF Tables
<1> QED
  BY <1>1, <1>8 DEF e

LEMMA UpdateConversationTables ==
  ASSUME NEW d, Tables(d), NEW c, NEW u, NEW a \in BOOLEAN
  PROVE  Tables(UpdateConversation(d, c, u, a)) /\ Spares(d, UpdateConversation(d, c, u, a), {})
<1> DEFINE e == UpdateConversation(d, c, u, a)
<1>0. Keeps(d, e)
  BY UpdateConversationKeeps DEF Tables
<1>1. CASE MayOpen(d, c, u)
  <2>1. /\ e.users = d.users /\ e.messages = d.messages /\ e.runs = d.runs /\ e.events = d.events
        /\ DOMAIN e.convs = DOMAIN d.convs
    BY <1>1 DEF Tables, Sound, UpdateConversation
  <2> HIDE DEF e
  <2>2. Tables(e) /\ Spares(d, e, {})
    BY <1>0, <2>1, SparesSame DEF Tables, Keeps
  <2> QED
    BY <2>2 DEF e
<1>2. CASE ~MayOpen(d, c, u)
  BY <1>2, SparesSame DEF UpdateConversation
<1> QED
  BY <1>1, <1>2

LEMMA NewRow ==
  ASSUME NEW rec, Given(rec, "status", "queued") \in Statuses
  PROVE  RowOk(NewColumns(rec))
<1>1. DOMAIN Only(rec, ExtraKeys \ {"usage"}) \subseteq ExtraKeys
  BY DEF Only
<1> QED
  BY <1>1 DEF RowOk, NewColumns

\* A new run has the columns of its record and no events.
NewRun(d, e, r, rec) ==
  r \notin DOMAIN d.runs => e.runs[r].now = NewColumns(rec) /\ DOMAIN e.events[r] = {}

LEMMA CreateRunTables ==
  ASSUME NEW d, Tables(d), NEW r \in Runs, NEW owner \in Users, NEW c, NEW rec,
         c \in DOMAIN d.convs => d.convs[c].user = owner,
         Given(rec, "status", "queued") \in Statuses
  PROVE  LET e == CreateRun(d, r, owner, c, rec)
         IN  /\ Tables(e) /\ Spares(d, e, {r} \ DOMAIN d.runs)
             /\ r \in DOMAIN e.runs /\ NewRun(d, e, r, rec)
<1> DEFINE d1 == UpsertUser(d, owner)
           known == c \in Conversations(d1)
           d2 == IF known THEN d1 ELSE CreateConversation(d1, owner)
           home == IF known THEN c ELSE Len(d2.convs)
           row == [conv |-> home, user |-> owner, now |-> NewColumns(rec)]
           none == << >>
           d3 == [d2 EXCEPT !.runs = With(@, r, row), !.events = With(@, r, none)]
           e == CreateRun(d, r, owner, c, rec)
<1>1. CASE r \in DOMAIN d.runs
  <2>1. e = d
    BY <1>1 DEF CreateRun
  <2> QED
    BY <1>1, <2>1, SparesSame DEF NewRun
<1>2. CASE r \notin DOMAIN d.runs
  <2>0. Sound(e)
    BY CreateRunKeeps DEF Tables, Keeps
  <2>1. Tables(d1) /\ Spares(d, d1, {}) /\ owner \in d1.users
    BY UpsertTables
  <2>2. Tables(d2) /\ Spares(d, d2, {}) /\ owner \in d2.users
    <3>1. CASE known
      BY <2>1, <3>1
    <3>2. CASE ~known
      <4>1. d2 = CreateConversation(d1, owner)
        BY <3>2
      <4> HIDE DEF d2, d1, known
      <4>2. Tables(d2) /\ Spares(d1, d2, {}) /\ owner \in d2.users
        BY <2>1, <4>1, CreateConversationTables
      <4> QED
        BY <2>1, <4>2, SparesMore
    <3> QED
      BY <3>1, <3>2
  <2>3. e = d3
    BY <1>2 DEF CreateRun
  <2> HIDE DEF d1, known, d2, home, e
  <2>4. /\ e.users = d2.users /\ e.convs = d2.convs /\ e.messages = d2.messages
        /\ e.runs = With(d2.runs, r, row) /\ e.events = With(d2.events, r, none)
    BY <2>2, <2>3 DEF Tables, Sound
  <2>5. /\ DOMAIN e.runs = DOMAIN d2.runs \cup {r} /\ e.runs[r] = row
        /\ DOMAIN e.events = DOMAIN d2.events \cup {r} /\ e.events[r] = none
        /\ \A x \in DOMAIN d2.runs \ {r} : e.runs[x] = d2.runs[x]
        /\ \A x \in DOMAIN d2.events \ {r} : e.events[x] = d2.events[x]
    BY <2>4 DEF With
  <2>6. DOMAIN none = {} /\ Counted(DOMAIN none)
    <3>1. DOMAIN none = {} /\ {} = 0 .. 0 - 1 /\ 0 \in Nat
      OBVIOUS
    <3> QED
      BY <3>1 DEF Counted
  <2>7. RowOk(NewColumns(rec))
    BY NewRow
  <2> HIDE DEF none
  <2>8. \A x \in DOMAIN e.runs : /\ DOMAIN e.runs[x] = {"conv", "user", "now"}
                                 /\ RowOk(e.runs[x].now) /\ Counted(DOMAIN e.events[x])
    BY <2>2, <2>5, <2>6, <2>7 DEF Tables
  <2>9. Tables(e)
    BY <2>0, <2>2, <2>4, <2>5, <2>8 DEF Tables
  <2>10. Spares(d2, e, {r}) /\ DOMAIN d2.runs = DOMAIN d.runs
    BY <1>2, <2>2, <2>4, <2>5 DEF Spares, Tables
  <2>11. Spares(d, e, {r} \ DOMAIN d.runs)
    BY <1>2, <2>2, <2>10, SparesMore
  <2>12. r \in DOMAIN e.runs /\ NewRun(d, e, r, rec)
    BY <2>5, <2>6 DEF NewRun
  <2> QED
    BY <2>9, <2>11, <2>12 DEF e
<1> QED
  BY <1>1, <1>2

FieldsOk(fields) == "status" \in DOMAIN fields => fields["status"] \in Statuses

\* What finish_run makes of a row.
LEMMA UpdatedRow ==
  ASSUME NEW n, RowOk(n), NEW fields, FieldsOk(fields), NEW read, DOMAIN read \subseteq ExtraKeys
  PROVE  /\ RowOk(Updated(n, read, fields))
         /\ n.score # None => Updated(n, read, fields).score # None
         /\ DOMAIN fields \cap ExtraKeys = {} => Updated(n, read, fields).extra = n.extra
         /\ DOMAIN fields \cap ExtraKeys # {} =>
              DOMAIN Updated(n, read, fields).extra = (DOMAIN fields \cap ExtraKeys) \cup DOMAIN read
<1> DEFINE x == KeptExtra(n, read, fields)
           u == Updated(n, read, fields)
<1>1. CASE DOMAIN fields \cap ExtraKeys = {}
  <2>1. x = n.extra
    BY <1>1 DEF KeptExtra
  <2>2. u.extra = n.extra
    BY <2>1 DEF Updated
  <2> QED
    BY <1>1, <2>1, <2>2 DEF Updated, RowOk, FieldsOk, Given
<1>2. CASE DOMAIN fields \cap ExtraKeys # {}
  <2>1. DOMAIN x = (DOMAIN fields \cap ExtraKeys) \cup DOMAIN read
    BY <1>2 DEF KeptExtra, Over, Only
  <2> HIDE DEF x
  <2>2. u.extra = x /\ DOMAIN u = {"status", "score", "error", "tokens", "extra"}
    BY DEF Updated, x
  <2>3. u.status \in Statuses
    BY DEF Updated, RowOk, FieldsOk, Given
  <2>4. n.score # None => u.score # None
    BY DEF Updated, Given
  <2> HIDE DEF u
  <2>5. RowOk(u)
    BY <2>1, <2>2, <2>3 DEF RowOk
  <2> QED
    BY <1>2, <2>1, <2>2, <2>4, <2>5 DEF u
<1> QED
  BY <1>1, <1>2

\* What finish_run leaves: the row of run r becomes u, and nothing else moves.
FinishedAs(d, e, r, u) ==
  /\ Tables(e) /\ Spares(d, e, {r})
  /\ e.runs[r].now = u /\ e.events = d.events
  /\ DOMAIN e.runs = DOMAIN d.runs

LEMMA FinishRunTables ==
  ASSUME NEW d, NEW e, NEW r, NEW fields, NEW read, Tables(d), r \in DOMAIN d.runs,
         FieldsOk(fields), DOMAIN read \subseteq ExtraKeys, e = FinishRun(d, r, read, fields)
  PROVE  FinishedAs(d, e, r, Updated(d.runs[r].now, read, fields))
<1> DEFINE u == Updated(d.runs[r].now, read, fields)
<1>1. /\ e.users = d.users /\ e.convs = d.convs /\ e.messages = d.messages /\ e.events = d.events
      /\ e.runs = [d.runs EXCEPT ![r].now = u]
  BY DEF Tables, Sound, FinishRun
<1>2. Sound(e)
  BY FinishRunKeeps DEF Tables, Keeps
<1>3. RowOk(u)
  BY UpdatedRow DEF Tables
<1> HIDE DEF u
<1>4. /\ DOMAIN e.runs = DOMAIN d.runs /\ e.runs[r].now = u
      /\ e.runs[r].conv = d.runs[r].conv /\ e.runs[r].user = d.runs[r].user
      /\ DOMAIN e.runs[r] = {"conv", "user", "now"}
      /\ \A x \in DOMAIN d.runs \ {r} : e.runs[x] = d.runs[x]
  BY <1>1 DEF Tables
<1>5. Tables(e)
  BY <1>1, <1>2, <1>3, <1>4 DEF Tables
<1>6. Spares(d, e, {r})
  BY <1>1, <1>4 DEF Spares
<1> QED
  BY <1>1, <1>4, <1>5, <1>6 DEF u, FinishedAs

LEMMA CountedUp ==
  ASSUME NEW ids, Counted(ids), NEW a \in Nat, NEW k \in Nat, a = 0 \/ a - 1 \in ids
  PROVE  Counted(ids \cup (a .. a + k - 1))
<1>1. PICK n \in Nat : ids = 0 .. n - 1
  BY DEF Counted
<1>2. a <= n
  BY <1>1
<1>3. CASE a + k <= n
  <2>1. ids \cup (a .. a + k - 1) = 0 .. n - 1
    BY <1>1, <1>3
  <2> QED
    BY <2>1 DEF Counted
<1>4. CASE ~(a + k <= n)
  <2>1. ids \cup (a .. a + k - 1) = 0 .. (a + k) - 1 /\ a + k \in Nat
    BY <1>1, <1>2, <1>4
  <2> QED
    BY <2>1 DEF Counted
<1> QED
  BY <1>3, <1>4

\* What append_events does to run r, whose batch goes on where the events end or
\* before.
Appended(d, e, r, batch, a) ==
  /\ Spares(d, e, {r}) /\ DOMAIN e.runs = DOMAIN d.runs
  /\ DOMAIN e.events[r] = DOMAIN d.events[r] \cup (a .. a + Len(batch) - 1)
  /\ Grows(d.runs[r].now, e.runs[r].now)

LEMMA AppendTables ==
  ASSUME NEW d, Tables(d), NEW r \in DOMAIN d.runs, NEW U, NEW batch \in Seq(U),
         NEW a \in Nat, Numbered(batch, a), a = 0 \/ a - 1 \in DOMAIN d.events[r],
         \A i \in DOMAIN batch : EventOk(batch[i])
  PROVE  Tables(AppendEvents(d, r, batch)) /\ Appended(d, AppendEvents(d, r, batch), r, batch, a)
<1> DEFINE c == d.runs[r].conv
           old == [events |-> d.events[r], now |-> d.runs[r].now, messages |-> d.messages[c]]
           new == StoreAll(old, r, batch)
           e == AppendEvents(d, r, batch)
<1>1. /\ e.users = d.users /\ e.convs = d.convs
      /\ e.messages = [d.messages EXCEPT ![c] = new.messages]
      /\ e.runs = [d.runs EXCEPT ![r].now = new.now]
      /\ e.events = [d.events EXCEPT ![r] = new.events]
  BY DEF Tables, Sound, AppendEvents
<1>2. Sound(e)
  BY AppendEventsKeeps DEF Tables, Keeps
<1>3. DOMAIN old = {"events", "now", "messages"} /\ RowOk(old.now)
      /\ old.events = d.events[r] /\ old.now = d.runs[r].now
  BY DEF Tables
<1> HIDE DEF old, e
<1>4. Grown(old, new, batch, a, Len(batch))
  BY <1>3, BatchGrows
<1> HIDE DEF new
<1>5. /\ DOMAIN e.runs = DOMAIN d.runs /\ e.runs[r].now = new.now
      /\ e.runs[r].conv = d.runs[r].conv /\ e.runs[r].user = d.runs[r].user
      /\ DOMAIN e.runs[r] = {"conv", "user", "now"}
      /\ \A x \in DOMAIN d.runs \ {r} : e.runs[x] = d.runs[x]
      /\ DOMAIN e.events = DOMAIN d.events /\ e.events[r] = new.events
      /\ \A x \in DOMAIN d.runs \ {r} : e.events[x] = d.events[x]
  BY <1>1 DEF Tables
<1>6. Lists(e.messages) /\ DOMAIN e.messages = DOMAIN d.messages
  <2>1. PICK n \in Nat : DOMAIN d.messages = 1 .. n /\ d.messages = [i \in 1 .. n |-> d.messages[i]]
    BY DEF Tables, Lists
  <2>2. e.messages = [i \in 1 .. n |-> e.messages[i]] /\ DOMAIN e.messages = 1 .. n
    BY <1>1, <2>1
  <2> QED
    BY <2>1, <2>2 DEF Lists
<1>7. Counted(DOMAIN e.events[r]) /\ RowOk(e.runs[r].now)
  <2>1. DOMAIN new.events = DOMAIN d.events[r] \cup (a .. a + Len(batch) - 1) /\ RowOk(new.now)
    BY <1>3, <1>4 DEF Grown
  <2>2. Len(batch) \in Nat
    OBVIOUS
  <2>3. Counted(DOMAIN d.events[r])
    BY DEF Tables
  <2>4. Counted(DOMAIN d.events[r] \cup (a .. a + Len(batch) - 1))
    BY <2>2, <2>3, CountedUp
  <2> QED
    BY <1>5, <2>1, <2>4
<1>8. Tables(e)
  BY <1>1, <1>2, <1>5, <1>6, <1>7 DEF Tables
<1>9. Appended(d, e, r, batch, a)
  BY <1>1, <1>3, <1>4, <1>5 DEF Appended, Spares, Grown
<1> QED
  BY <1>8, <1>9 DEF e

LEMMA AppendHonest ==
  ASSUME NEW d, Tables(d), NEW r \in LiveRuns \cap DOMAIN d.runs, Honest(r, d.runs[r].now),
         NEW U, NEW batch \in Seq(U),
         \A i \in DOMAIN batch : \E j \in DOMAIN Log[r] : batch[i] = Log[r][j]
  PROVE  Honest(r, AppendEvents(d, r, batch).runs[r].now)
<1> DEFINE old == [events |-> d.events[r], now |-> d.runs[r].now,
                   messages |-> d.messages[d.runs[r].conv]]
           new == StoreAll(old, r, batch)
           e == AppendEvents(d, r, batch)
<1>1. e.runs[r].now = new.now
  BY DEF Tables, Sound, AppendEvents
<1>2. DOMAIN old = {"events", "now", "messages"} /\ RowOk(old.now) /\ Honest(r, old.now)
  BY DEF Tables
<1> HIDE DEF old
<1>3. Honest(r, new.now)
  BY <1>2, BatchHonest
<1> QED
  BY <1>1, <1>3

-----------------------------------------------------------------------------
(* The invariant behind the types and the rows: what every actor holds of  *)
(* the row it is about to change                                           *)

\* A live run's row, and that its events are those of its log.
LiveRow(d, r) ==
  /\ Honest(r, d.runs[r].now)
  /\ DOMAIN d.events[r] \subseteq 0 .. Len(Log[r]) - 1

LiveRows(d) == \A r \in LiveRuns \cap DOMAIN d.runs : LiveRow(d, r)

\* What a worker takes for sent is stored.
WorkerOk(d, r, w) ==
  /\ w.pc \in {"none", "queued", "running", "settle", "over"}
  /\ w.sent \in 0 .. Len(Log[r])
  /\ w.pc \in {"running", "settle"} =>
       r \in DOMAIN d.runs /\ (w.sent = 0 \/ w.sent - 1 \in DOMAIN d.events[r])

WorkersOk(d, q, w) ==
  \A r \in LiveRuns :
    /\ WorkerOk(d, r, w[r])
    /\ q[r].pc = "created" => r \in DOMAIN d.runs

\* An update that waits: the extra_json a job has read is still the row's, and a
\* request's or a worker's update takes no key away whatever it has read.
HonestFields(r, fields) ==
  /\ "error" \in DOMAIN fields => fields["error"] \notin {"evaluate", "evaluate_sandbox"}
  /\ "status" \in DOMAIN fields => Final(r).status = "ok" \/ fields["status"] # "ok"

CallOk(d, c) ==
  /\ c.run \in DOMAIN d.runs /\ DOMAIN c.read \subseteq ExtraKeys /\ FieldsOk(c.fields)
  /\ c.by = "job" => c.run \in LegacyRuns /\ c.read = d.runs[c.run].now.extra
  /\ c.by # "job" =>
       /\ c.run \in LiveRuns /\ HonestFields(c.run, c.fields)
       /\ DOMAIN c.fields \cap ExtraKeys = {} \/ ExtraKeys \subseteq DOMAIN c.fields

CallsOk(d, s) == \A c \in s : CallOk(d, c)

\* A job waits for its update, so there is one at most.
OneWaits(s, j) ==
  /\ \A c, x \in s : c.by = "job" /\ x.by = "job" => c = x
  /\ j.pc \notin {"idle", "pinning", "correcting"} => \A c \in s : c.by # "job"

\* The job's run is an imported one, and its next step finds the events as they
\* were.
JobOk(d, j) ==
  /\ j.pc \in {"idle", "import", "row", "replay", "pinning", "classify", "mark",
               "correct", "correcting", "prune"}
  /\ j.pc = "row" => j.run \in LegacyRuns /\ j.chunk = 1
  /\ j.pc \in {"replay", "mark", "correct"} => j.run \in LegacyRuns \cap DOMAIN d.runs
  /\ j.pc = "replay" =>
       /\ j.chunk \in Nat \ {0}
       /\ \A i \in 0 .. Len(Log[j.run]) - 1 :
            i < (j.chunk - 1) * ChunkSize => i \in DOMAIN d.events[j.run]
  /\ j.pc = "mark" =>
       /\ j.plan.event.type = "log" /\ j.plan.event.id \in Nat
       /\ DOMAIN d.events[j.run] = 0 .. j.plan.event.id - 1
  /\ j.pc \in {"mark", "correct"} => FieldsOk(j.plan.fields)

FactsAt(d, q, w, s, j, o) ==
  /\ Tables(d) /\ LiveRows(d)
  /\ WorkersOk(d, q, w)
  /\ CallsOk(d, s) /\ OneWaits(s, j) /\ JobOk(d, j)
  /\ o \subseteq DOMAIN d.convs

Facts == FactsAt(db, req, worker, calls, job, opened)

FactsInv == StrayInv /\ Facts

\* Nobody takes away a row, an event or what an update put into a row.
Climbs(d, e) ==
  \A r \in DOMAIN d.runs :
    /\ r \in DOMAIN e.runs
    /\ e.runs[r].conv = d.runs[r].conv /\ e.runs[r].user = d.runs[r].user
    /\ DOMAIN d.events[r] \subseteq DOMAIN e.events[r]
    /\ Grows(d.runs[r].now, e.runs[r].now)

LEMMA SparedClimb ==
  ASSUME NEW d, NEW e, NEW R, Spares(d, e, R),
         \A r \in R \cap DOMAIN d.runs :
           DOMAIN d.events[r] \subseteq DOMAIN e.events[r] /\ Grows(d.runs[r].now, e.runs[r].now)
  PROVE  Climbs(d, e)
  BY DEF Spares, Climbs, Grows

LEMMA LiveKept ==
  ASSUME NEW d, LiveRows(d), NEW e, NEW R, Spares(d, e, R),
         \A r \in R \cap LiveRuns : LiveRow(e, r)
  PROVE  LiveRows(e)
  BY DEF LiveRows, LiveRow, Spares

LEMMA WorkersKept ==
  ASSUME NEW d, NEW q, NEW w, WorkersOk(d, q, w), NEW e, Climbs(d, e)
  PROVE  WorkersOk(e, q, w)
  BY DEF WorkersOk, WorkerOk, Climbs, Grows

LEMMA CallsKept ==
  ASSUME NEW d, NEW s, CallsOk(d, s), NEW e, NEW R, Spares(d, e, R),
         \A c \in s : c.by = "job" => c.run \notin R
  PROVE  CallsOk(e, s)
<1> SUFFICES ASSUME NEW c \in s PROVE CallOk(e, c)
  BY DEF CallsOk
<1>1. CallOk(d, c)
  BY DEF CallsOk
<1>2. c.run \in DOMAIN e.runs
  BY <1>1 DEF CallOk, Spares
<1>3. c.by = "job" => e.runs[c.run].now = d.runs[c.run].now
  BY <1>1 DEF CallOk, Spares
<1> QED
  BY <1>1, <1>2, <1>3 DEF CallOk

LEMMA JobKept ==
  ASSUME NEW d, NEW j, JobOk(d, j), NEW e, Climbs(d, e), NEW R, Spares(d, e, R),
         j.pc = "mark" => j.run \notin R
  PROVE  JobOk(e, j)
<1>1. j.pc = "mark" => DOMAIN e.events[j.run] = DOMAIN d.events[j.run]
  BY DEF JobOk, Spares
<1>2. j.pc \in {"replay", "mark", "correct"} =>
        /\ j.run \in LegacyRuns \cap DOMAIN e.runs
        /\ DOMAIN d.events[j.run] \subseteq DOMAIN e.events[j.run]
  BY DEF JobOk, Climbs
<1> QED
  BY <1>1, <1>2 DEF JobOk

LEMMA CountIs ==
  ASSUME NEW ids, Counted(ids)
  PROVE  Cardinality(ids) \in Nat /\ ids = 0 .. Cardinality(ids) - 1
<1>1. PICK n \in Nat : ids = 0 .. n - 1
  BY DEF Counted
<1>2. Cardinality(0 .. n - 1) = IF 0 > n - 1 THEN 0 ELSE (n - 1) - 0 + 1
  BY FS_Interval
<1>3. Cardinality(0 .. n - 1) = n
  BY <1>2
<1> QED
  BY <1>1, <1>3

LEMMA TypesFromInv == FactsInv => TypeOK
<1> SUFFICES ASSUME FactsInv PROVE TypeOK
  OBVIOUS
<1>1. Tables(db) /\ Sound(db)
  BY DEF FactsInv, Facts, FactsAt, Tables
<1>2. db.convs \in Seq([user : db.users, archived : BOOLEAN])
  <2> DEFINE n == Len(db.convs)
             C == [user : db.users, archived : BOOLEAN]
  <2>1. n \in Nat /\ DOMAIN db.convs = 1 .. n /\ db.convs \in [1 .. n -> Conversation]
    BY <1>1, LenProperties DEF Sound
  <2>2. \A c \in 1 .. n : db.convs[c] \in C
    <3> SUFFICES ASSUME NEW c \in 1 .. n PROVE db.convs[c] \in C
      OBVIOUS
    <3>1. db.convs[c] \in Conversation /\ db.convs[c].user \in db.users
      BY <1>1, <2>1 DEF Tables
    <3> QED
      BY <3>1 DEF Conversation
  <2> HIDE DEF C, n
  <2>3. db.convs \in [1 .. n -> C]
    BY <2>1, <2>2
  <2>4. db.convs \in Seq(C)
    BY <2>1, <2>3, IsASeq
  <2> QED
    BY <2>4 DEF C
<1>3. \A r \in DOMAIN db.runs :
        /\ db.runs[r].conv \in Conversations(db) /\ db.runs[r].user \in db.users
        /\ db.runs[r].now.status \in Statuses
        /\ DOMAIN db.runs[r].now.extra \subseteq ExtraKeys
        /\ DOMAIN db.events[r] = 0 .. Cardinality(DOMAIN db.events[r]) - 1
  BY <1>1, CountIs DEF Tables, Sound, RowOk, Conversations
<1>4. \A r \in LiveRuns :
        /\ req[r].pc \in {"none", "open", "minted", "created", "answered", "gone"}
        /\ worker[r].pc \in {"none", "queued", "running", "settle", "over"}
        /\ worker[r].sent \in 0 .. Len(Log[r])
  BY DEF FactsInv, Facts, FactsAt, StrayInv, IInv, Shapes, Requests, WorkersOk, WorkerOk
<1>5. /\ \A c \in calls : c.run \in DOMAIN db.runs
      /\ opened \subseteq Conversations(db)
      /\ job.pc \in {"idle", "import", "row", "replay", "pinning", "classify", "mark",
                     "correct", "correcting", "prune"}
  BY DEF FactsInv, Facts, FactsAt, CallsOk, CallOk, JobOk, Conversations
<1> QED
  BY <1>1, <1>2, <1>3, <1>4, <1>5 DEF TypeOK, Tables

LEMMA InitFacts == Init => FactsInv
<1> SUFFICES ASSUME Init PROVE FactsInv
  OBVIOUS
<1>1. StrayInv /\ IInv
  BY InitStrays DEF StrayInv
<1> DEFINE none == << >>
<1>2. DOMAIN none = {} /\ Lists(none)
  <2>1. DOMAIN none = {} /\ 1 .. 0 = {} /\ 0 \in Nat
    OBVIOUS
  <2> HIDE DEF none
  <2>2. none = [i \in 1 .. 0 |-> none[i]]
    <3>1. [i \in 1 .. 0 |-> none[i]] = << >>
      OBVIOUS
    <3> QED
      BY <3>1 DEF none
  <2> QED
    BY <2>1, <2>2 DEF Lists
<1>3. /\ db.users = {} /\ db.convs = none /\ db.runs = none /\ db.events = none
      /\ db.messages = none
  BY DEF Init, EmptyDb
<1> HIDE DEF none
<1>4. Tables(db)
  BY <1>1, <1>2, <1>3 DEF Tables, IInv
<1>5. LiveRows(db)
  BY <1>2, <1>3 DEF LiveRows
<1>6. WorkersOk(db, req, worker)
  <2> SUFFICES ASSUME NEW r \in LiveRuns PROVE WorkerOk(db, r, worker[r]) /\ req[r].pc = "none"
    BY DEF WorkersOk
  <2>1. worker[r] = [pc |-> "none", sent |-> 0] /\ req[r].pc = "none"
    BY DEF Init
  <2>2. Len(Log[r]) \in Nat
    BY LogAssumption, LenProperties DEF Runs
  <2> QED
    BY <2>1, <2>2 DEF WorkerOk
<1>7. CallsOk(db, calls) /\ OneWaits(calls, job) /\ opened \subseteq DOMAIN db.convs
  BY DEF Init, CallsOk, OneWaits, Idle
<1>8. JobOk(db, job)
  BY DEF Init, Idle, JobOk
<1> QED
  BY <1>1, <1>4, <1>5, <1>6, <1>7, <1>8 DEF FactsInv, Facts, FactsAt

\* A run's events are numbered from 0, and a live run's last one is its run.finished.
LEMMA LogShape ==
  ASSUME NEW r \in Runs
  PROVE  /\ Log[r] \in Seq(ToSet(Log[r])) /\ Len(Log[r]) \in Nat
         /\ DOMAIN Log[r] = 1 .. Len(Log[r])
         /\ \A i \in DOMAIN Log[r] : Log[r][i].id = i - 1 /\ EventOk(Log[r][i])
<1>1. Log[r] \in Seq(ToSet(Log[r]))
  BY LogAssumption
<1>2. \A i \in DOMAIN Log[r] : Log[r][i].id = i - 1 /\ EventOk(Log[r][i])
  BY LogAssumption DEF EventOk
<1> QED
  BY <1>1, <1>2, LenProperties

LEMMA LiveLogShape ==
  ASSUME NEW r \in LiveRuns
  PROVE  /\ Len(Log[r]) > 0
         /\ \A i \in DOMAIN Log[r] : Log[r][i].type = "run.finished" <=> i = Len(Log[r])
<1>1. Log[r] # << >> /\ \A i \in DOMAIN Log[r] : Log[r][i].type = "run.finished" <=> i = Len(Log[r])
  BY LogAssumption
<1>2. Log[r] \in Seq(ToSet(Log[r]))
  BY LogShape DEF Runs
<1> QED
  BY <1>1, <1>2, EmptySeq, LenProperties

-----------------------------------------------------------------------------
(* What the Store's verbs leave of the facts, whoever calls them *)

\* Only new runs, of which the live ones are as they should be.
LEMMA Newer ==
  ASSUME NEW d, NEW q, NEW w, NEW s, NEW j, NEW o, FactsAt(d, q, w, s, j, o),
         NEW e, Tables(e), NEW R, Spares(d, e, R), R \cap DOMAIN d.runs = {},
         \A r \in R \cap LiveRuns : LiveRow(e, r)
  PROVE  FactsAt(e, q, w, s, j, o) /\ Climbs(d, e)
<1>1. Climbs(d, e)
  BY SparedClimb
<1>2. LiveRows(e)
  BY LiveKept DEF FactsAt
<1>3. WorkersOk(e, q, w)
  BY <1>1, WorkersKept DEF FactsAt
<1>4. CallsOk(e, s)
  <2>1. \A c \in s : c.run \notin R
    BY DEF FactsAt, CallsOk, CallOk
  <2> QED
    BY <2>1, CallsKept DEF FactsAt
<1>5. JobOk(e, j)
  <2>1. j.pc = "mark" => j.run \notin R
    BY DEF FactsAt, JobOk
  <2> QED
    BY <1>1, <2>1, JobKept DEF FactsAt
<1>6. o \subseteq DOMAIN e.convs
  BY DEF FactsAt, Spares
<1> QED
  BY <1>1, <1>2, <1>3, <1>4, <1>5, <1>6 DEF FactsAt

\* A new run that is queued.
LEMMA CreateRunFacts ==
  ASSUME NEW d, NEW q, NEW w, NEW s, NEW j, NEW o, FactsAt(d, q, w, s, j, o),
         NEW r \in Runs, NEW owner \in Users, NEW c, NEW rec,
         c \in DOMAIN d.convs => d.convs[c].user = owner,
         Given(rec, "status", "queued") \in Statuses,
         r \in LiveRuns => rec = [status |-> "queued"]
  PROVE  LET e == CreateRun(d, r, owner, c, rec)
         IN  FactsAt(e, q, w, s, j, o) /\ Climbs(d, e) /\ r \in DOMAIN e.runs
<1> DEFINE e == CreateRun(d, r, owner, c, rec)
           R == {r} \ DOMAIN d.runs
<1>1. Tables(e) /\ Spares(d, e, R) /\ r \in DOMAIN e.runs /\ NewRun(d, e, r, rec)
  BY CreateRunTables DEF FactsAt
<1>2. ASSUME NEW x \in R \cap LiveRuns PROVE LiveRow(e, x)
  <2>1. x = r /\ e.runs[r].now = NewColumns(rec) /\ DOMAIN e.events[r] = {}
    BY <1>1 DEF NewRun
  <2>2. NewColumns(rec).status = "queued" /\ NewColumns(rec).error = None
    BY <2>1 DEF NewColumns, Given
  <2>3. Honest(r, e.runs[r].now)
    BY <2>1, <2>2 DEF Honest, None
  <2> QED
    BY <2>1, <2>3 DEF LiveRow
<1> HIDE DEF e
<1>3. FactsAt(e, q, w, s, j, o) /\ Climbs(d, e)
  BY <1>1, <1>2, Newer
<1> QED
  BY <1>1, <1>3 DEF e

\* A batch of a log's events that goes on where the stored ones end, or before.
LEMMA AppendFacts ==
  ASSUME NEW d, NEW q, NEW w, NEW s, NEW j, NEW o, FactsAt(d, q, w, s, j, o),
         NEW r \in DOMAIN d.runs, NEW U, NEW batch \in Seq(U),
         NEW a \in Nat, Numbered(batch, a), a = 0 \/ a - 1 \in DOMAIN d.events[r],
         \A i \in DOMAIN batch : EventOk(batch[i]),
         r \in LiveRuns => \A i \in DOMAIN batch : \E k \in DOMAIN Log[r] : batch[i] = Log[r][k],
         \A c \in s : c.by = "job" => c.run # r,
         j.pc = "mark" => j.run # r
  PROVE  LET e == AppendEvents(d, r, batch)
         IN  FactsAt(e, q, w, s, j, o) /\ Climbs(d, e) /\ Appended(d, e, r, batch, a)
<1> DEFINE e == AppendEvents(d, r, batch)
<1>1. Tables(e) /\ Appended(d, e, r, batch, a)
  BY AppendTables DEF FactsAt
<1>2. r \in LiveRuns => Honest(r, e.runs[r].now)
  BY AppendHonest DEF FactsAt, LiveRows, LiveRow
<1> HIDE DEF e
<1>3. /\ Spares(d, e, {r})
      /\ DOMAIN e.events[r] = DOMAIN d.events[r] \cup (a .. a + Len(batch) - 1)
      /\ Grows(d.runs[r].now, e.runs[r].now)
  BY <1>1 DEF Appended
<1>4. Climbs(d, e)
  BY <1>3, SparedClimb
<1>5. ASSUME r \in LiveRuns PROVE LiveRow(e, r)
  <2>0. LiveRow(d, r)
    BY <1>5 DEF FactsAt, LiveRows
  <2>1. DOMAIN batch = 1 .. Len(batch) /\ Len(batch) \in Nat
    OBVIOUS
  <2>2. DOMAIN Log[r] = 1 .. Len(Log[r]) /\ Len(Log[r]) \in Nat /\ Len(Log[r]) > 0
    BY <1>5, LogShape, LiveLogShape DEF Runs
  <2>3. \A i \in DOMAIN batch : \E k \in DOMAIN Log[r] : batch[i] = Log[r][k] /\ batch[i].id = k - 1
    <3>1. r \in Runs
      BY <1>5 DEF Runs
    <3>2. \A k \in DOMAIN Log[r] : Log[r][k].id = k - 1
      BY <3>1, LogShape
    <3> QED
      BY <1>5, <3>2
  <2>4. \A n \in a .. a + Len(batch) - 1 : \E i \in DOMAIN batch : batch[i].id = n
    <3> SUFFICES ASSUME NEW n \in a .. a + Len(batch) - 1 PROVE \E i \in DOMAIN batch : batch[i].id = n
      OBVIOUS
    <3>1. n - a + 1 \in DOMAIN batch /\ a + (n - a + 1) - 1 = n
      BY <2>1
    <3> QED
      BY <3>1 DEF Numbered
  <2>5. \A n \in a .. a + Len(batch) - 1 : n \in 0 .. Len(Log[r]) - 1
    <3> SUFFICES ASSUME NEW n \in a .. a + Len(batch) - 1 PROVE n \in 0 .. Len(Log[r]) - 1
      OBVIOUS
    <3>1. PICK i \in DOMAIN batch : batch[i].id = n
      BY <2>4
    <3>2. PICK k \in DOMAIN Log[r] : n = k - 1
      BY <2>3, <3>1
    <3> QED
      BY <2>2, <3>2
  <2>6. DOMAIN e.events[r] \subseteq 0 .. Len(Log[r]) - 1
    BY <1>3, <2>0, <2>5 DEF LiveRow
  <2> QED
    BY <1>2, <1>5, <2>6 DEF LiveRow
<1>6. LiveRows(e)
  BY <1>3, <1>5, LiveKept DEF FactsAt
<1>7. WorkersOk(e, q, w) /\ CallsOk(e, s) /\ JobOk(e, j) /\ o \subseteq DOMAIN e.convs
  <2>1. CallsOk(e, s)
    BY <1>3, CallsKept DEF FactsAt
  <2>2. JobOk(e, j)
    BY <1>3, <1>4, JobKept DEF FactsAt
  <2> QED
    BY <1>3, <1>4, <2>1, <2>2, WorkersKept DEF FactsAt, Spares
<1>8. FactsAt(e, q, w, s, j, o)
  BY <1>1, <1>6, <1>7 DEF FactsAt
<1> QED
  BY <1>1, <1>4, <1>8 DEF e

LEMMA QuietFacts ==
  ASSUME NEW d, NEW q, NEW w, NEW s, NEW j, NEW o, FactsAt(d, q, w, s, j, o),
         NEW e, Tables(e), Spares(d, e, {})
  PROVE  FactsAt(e, q, w, s, j, o) /\ Climbs(d, e)
  BY Newer

LEMMA NothingClimbs ==
  ASSUME NEW d
  PROVE  Climbs(d, d)
  BY DEF Climbs, Grows

\* A request is at another place, which is after the row if the row is there.
LEMMA RequestMoves ==
  ASSUME NEW d, NEW q, NEW w, NEW s, NEW j, NEW o, FactsAt(d, q, w, s, j, o),
         NEW r \in LiveRuns, NEW p, \A x \in LiveRuns \ {r} : p[x] = q[x],
         p[r].pc = "created" => r \in DOMAIN d.runs
  PROVE  FactsAt(d, p, w, s, j, o)
  BY DEF FactsAt, WorkersOk

\* An update that is not the job's begins.
LEMMA CallBegins ==
  ASSUME NEW d, NEW q, NEW w, NEW s, NEW j, NEW o, FactsAt(d, q, w, s, j, o),
         NEW c, CallOk(d, c), c.by # "job"
  PROVE  FactsAt(d, q, w, s \cup {c}, j, o)
<1>1. CallsOk(d, s \cup {c})
  BY DEF FactsAt, CallsOk
<1>2. OneWaits(s \cup {c}, j)
  BY DEF FactsAt, OneWaits
<1> QED
  BY <1>1, <1>2 DEF FactsAt

LEMMA RequestFacts ==
  ASSUME FactsInv, Request
  PROVE  Facts' /\ Climbs(db, db')
<1> USE PeopleAreUsers
<1> DEFINE F(d) == FactsAt(d, req, worker, calls, job, opened)
<1>0. /\ Sound(db) /\ Tables(db) /\ F(db)
      /\ req \in [LiveRuns -> Requests] /\ WorkerShape /\ RequestsAgree
  BY DEF FactsInv, Facts, FactsAt, StrayInv, IInv, Shapes
<1>1. ASSUME NEW u \in People, Identify(u) PROVE Facts' /\ Climbs(db, db')
  <2>1. Tables(db') /\ Spares(db, db', {})
    BY <1>0, <1>1, UpsertTables DEF Identify
  <2>2. F(db') /\ Climbs(db, db')
    BY <1>0, <2>1, QuietFacts
  <2> QED
    BY <1>1, <2>2 DEF Identify, ApiOnly, Facts
<1>2. ASSUME NEW u \in People, OpenConversation(u) PROVE Facts' /\ Climbs(db, db')
  <2>1. db' = CreateConversation(db, u) /\ u \in Users
    BY <1>2 DEF OpenConversation
  <2>2. Tables(db') /\ Spares(db, db', {}) /\ Len(db'.convs) \in DOMAIN db'.convs
    BY <1>0, <2>1, CreateConversationTables, CreateConversationKeeps
  <2>3. F(db') /\ Climbs(db, db')
    BY <1>0, <2>2, QuietFacts
  <2>4. /\ opened' = opened \cup {Len(db'.convs)} /\ req' = req /\ worker' = worker
        /\ calls' = calls /\ job' = job
    BY <1>2 DEF OpenConversation, ApiOnly
  <2> QED
    BY <2>2, <2>3, <2>4 DEF Facts, FactsAt
<1>3. ASSUME NEW u \in People, NEW c \in Conversations(db), NEW a \in BOOLEAN, Archive(u, c, a)
      PROVE  Facts' /\ Climbs(db, db')
  <2> DEFINE d == UpsertUser(db, u)
  <2>1. Tables(d) /\ Spares(db, d, {})
    BY <1>0, UpsertTables
  <2>2. db' = UpdateConversation(d, c, u, a)
    BY <1>3 DEF Archive
  <2> HIDE DEF d
  <2>3. Tables(db') /\ Spares(d, db', {})
    BY <2>1, <2>2, UpdateConversationTables
  <2>4. Spares(db, db', {})
    BY <2>1, <2>3, SparesMore
  <2>5. F(db') /\ Climbs(db, db')
    BY <1>0, <2>3, <2>4, QuietFacts
  <2> QED
    BY <1>3, <2>5 DEF Archive, ApiOnly, Facts
<1>4. ASSUME NEW u \in People, NEW c \in Conversations(db), NEW r \in LiveRuns, Continue(u, c, r)
      PROVE  Facts' /\ Climbs(db, db')
  <2>1. Tables(db') /\ Spares(db, db', {})
    BY <1>0, <1>4, UpsertTables DEF Continue
  <2>2. F(db') /\ Climbs(db, db')
    BY <1>0, <2>1, QuietFacts
  <2>3. /\ \A x \in LiveRuns \ {r} : req'[x] = req[x]
        /\ req'[r].pc = "open"
    BY <1>0, <1>4 DEF Continue
  <2>4. FactsAt(db', req', worker, calls, job, opened)
    BY <2>2, <2>3, RequestMoves
  <2> QED
    BY <1>4, <2>2, <2>4 DEF Continue, ApiOnly, Facts
<1>5. ASSUME NEW u \in People \cup {None}, NEW r \in LiveRuns, Post(u, r)
      PROVE  Facts' /\ Climbs(db, db')
  <2>1. Tables(db') /\ Spares(db, db', {})
    BY <1>0, <1>5, CreateConversationTables DEF Post
  <2>2. F(db') /\ Climbs(db, db')
    BY <1>0, <2>1, QuietFacts
  <2>3. /\ \A x \in LiveRuns \ {r} : req'[x] = req[x]
        /\ req'[r].pc = "minted"
    BY <1>0, <1>5 DEF Post
  <2>4. FactsAt(db', req', worker, calls, job, opened)
    BY <2>2, <2>3, RequestMoves
  <2> QED
    BY <1>5, <2>2, <2>4 DEF Post, ApiOnly, Facts
<1>6. ASSUME NEW r \in LiveRuns, CreateRow(r) PROVE Facts' /\ Climbs(db, db')
  <2> DEFINE rec == [status |-> "queued"]
  <2>1. /\ req[r].conv \in DOMAIN db.convs => db.convs[req[r].conv].user = req[r].user
        /\ req[r].user \in Users /\ r \in Runs
        /\ db' = CreateRun(db, r, req[r].user, req[r].conv, rec)
    BY <1>0, <1>6 DEF CreateRow, RequestsAgree, Requests, Runs
  <2>2. Given(rec, "status", "queued") \in Statuses
    BY DEF Given, Statuses
  <2>3. r \in LiveRuns => rec = [status |-> "queued"]
    OBVIOUS
  <2> HIDE DEF rec
  <2>4. F(db') /\ Climbs(db, db') /\ r \in DOMAIN db'.runs
    BY <1>0, <2>1, <2>2, <2>3, CreateRunFacts
  <2>5. /\ \A x \in LiveRuns \ {r} : req'[x] = req[x]
        /\ req'[r].pc = "created"
    BY <1>0, <1>6 DEF CreateRow, Requests
  <2>6. FactsAt(db', req', worker, calls, job, opened)
    BY <2>4, <2>5, RequestMoves
  <2> QED
    BY <1>6, <2>4, <2>6 DEF CreateRow, ApiOnly, Facts
<1>7. ASSUME NEW r \in LiveRuns, RequestDies(r) PROVE Facts' /\ Climbs(db, db')
  <2>1. /\ \A x \in LiveRuns \ {r} : req'[x] = req[x]
        /\ req'[r].pc = "gone" /\ db' = db
    BY <1>0, <1>7 DEF RequestDies, Requests
  <2>2. FactsAt(db, req', worker, calls, job, opened)
    BY <1>0, <2>1, RequestMoves
  <2> QED
    BY <1>7, <2>1, <2>2, NothingClimbs DEF RequestDies, ApiOnly, Facts
<1>8. ASSUME NEW r \in LiveRuns, Spawn(r) \/ SpawnRaises(r) PROVE Facts' /\ Climbs(db, db')
  <2>1. /\ \A x \in LiveRuns \ {r} : req'[x] = req[x] /\ worker'[x] = worker[x]
        /\ req'[r].pc = "answered" /\ db' = db /\ req[r].pc = "created"
        /\ worker'[r].pc \in {"none", "queued"} /\ worker'[r].sent = worker[r].sent
    BY <1>0, <1>8 DEF Spawn, SpawnRaises, Requests, WorkerShape
  <2>2. FactsAt(db, req', worker, calls, job, opened)
    BY <1>0, <2>1, RequestMoves
  <2>3. WorkersOk(db, req', worker')
    BY <2>1, <2>2 DEF FactsAt, WorkersOk, WorkerOk
  <2>4. FactsAt(db, req', worker', calls, job, opened)
    BY <2>2, <2>3 DEF FactsAt
  <2>5. CASE Spawn(r)
    BY <2>1, <2>4, <2>5, NothingClimbs DEF Spawn, Facts
  <2>6. CASE SpawnRaises(r)
    <3> DEFINE fields == [status |-> "error", error |-> "other"]
               c == [by |-> "request", run |-> r, read |-> db.runs[r].now.extra,
                     fields |-> fields]
    <3>1. r \in DOMAIN db.runs
      BY <1>0, <2>1 DEF FactsAt, WorkersOk
    <3>2. /\ DOMAIN fields \cap ExtraKeys = {} /\ FieldsOk(fields) /\ HonestFields(r, fields)
      BY DEF ExtraKeys, FieldsOk, Statuses, Terminal, HonestFields
    <3>3. DOMAIN db.runs[r].now.extra \subseteq ExtraKeys
      BY <1>0, <3>1 DEF Tables, RowOk
    <3>4. CallOk(db, c) /\ c.by # "job"
      BY <3>1, <3>2, <3>3 DEF CallOk
    <3>5. calls' = calls \cup {c}
      BY <2>6 DEF SpawnRaises, Update
    <3> HIDE DEF c
    <3>6. FactsAt(db, req', worker', calls', job, opened)
      BY <2>4, <3>4, <3>5, CallBegins
    <3> QED
      BY <2>1, <2>6, <3>6, NothingClimbs DEF SpawnRaises, Facts
  <2> QED
    BY <1>8, <2>5, <2>6
<1> QED
  BY <1>1, <1>2, <1>3, <1>4, <1>5, <1>6, <1>7, <1>8 DEF Request

\* A stretch of a run's log, from event a to before event hi.
IsSlice(b, r, a, hi) ==
  /\ b \in Seq(ToSet(Log[r])) /\ Len(b) = hi - a /\ Numbered(b, a)
  /\ \A i \in DOMAIN b : EventOk(b[i]) /\ \E k \in DOMAIN Log[r] : b[i] = Log[r][k]

LEMMA Slice ==
  ASSUME NEW r \in Runs, NEW a \in Nat, NEW hi \in Nat, a <= hi, hi <= Len(Log[r])
  PROVE  IsSlice(SubSeq(Log[r], a + 1, hi), r, a, hi)
<1> DEFINE L == Log[r]
           b == SubSeq(L, a + 1, hi)
<1>1. /\ L \in Seq(ToSet(L)) /\ Len(L) \in Nat /\ DOMAIN L = 1 .. Len(L)
      /\ \A i \in DOMAIN L : L[i].id = i - 1 /\ EventOk(L[i])
  BY LogShape
<1> HIDE DEF L
<1>2. \A i \in a + 1 .. hi : L[i] \in ToSet(L)
  <2> SUFFICES ASSUME NEW i \in a + 1 .. hi PROVE L[i] \in ToSet(L)
    OBVIOUS
  <2>1. i \in DOMAIN L
    BY <1>1 DEF L
  <2> QED
    BY <2>1 DEF ToSet
<1>3. a + 1 \in Int /\ hi \in Int
  OBVIOUS
<1>4. /\ b \in Seq(ToSet(L)) /\ Len(b) = IF a + 1 <= hi THEN hi - (a + 1) + 1 ELSE 0
      /\ \A i \in 1 .. hi - (a + 1) + 1 : b[i] = L[(a + 1) + i - 1]
  BY <1>2, <1>3, SubSeqProperties
<1> HIDE DEF b
<1>5. Len(b) = hi - a /\ DOMAIN b = 1 .. hi - a
  <2>1. Len(b) = hi - a
    BY <1>4
  <2>2. DOMAIN b = 1 .. Len(b)
    BY <1>4, LenProperties
  <2> QED
    BY <2>1, <2>2
<1>6. \A i \in DOMAIN b : a + i \in DOMAIN L /\ b[i] = L[a + i]
  <2> SUFFICES ASSUME NEW i \in DOMAIN b PROVE a + i \in DOMAIN L /\ b[i] = L[a + i]
    OBVIOUS
  <2>1. i \in 1 .. hi - (a + 1) + 1 /\ (a + 1) + i - 1 = a + i
    BY <1>5
  <2>2. a + i \in 1 .. Len(L)
    BY <2>1, <1>1 DEF L
  <2> QED
    BY <1>1, <1>4, <2>1, <2>2
<1>7. \A i \in DOMAIN b : b[i].id = a + i - 1 /\ EventOk(b[i])
  <2> SUFFICES ASSUME NEW i \in DOMAIN b PROVE b[i].id = a + i - 1 /\ EventOk(b[i])
    OBVIOUS
  <2>1. a + i \in DOMAIN L /\ b[i] = L[a + i]
    BY <1>6
  <2>2. \A k \in DOMAIN L : L[k].id = k - 1 /\ EventOk(L[k])
    BY <1>1
  <2>3. L[a + i].id = (a + i) - 1 /\ EventOk(L[a + i])
    BY <2>1, <2>2
  <2>4. (a + i) - 1 = a + i - 1
    BY <1>5
  <2> QED
    BY <2>1, <2>3, <2>4
<1>8. \A i \in DOMAIN b : EventOk(b[i]) /\ \E k \in DOMAIN L : b[i] = L[k]
  BY <1>6, <1>7
<1>9. IsSlice(b, r, a, hi)
  BY <1>4, <1>5, <1>7, <1>8 DEF IsSlice, Numbered, L
<1> QED
  BY <1>9 DEF b, L

LEMMA WholeSlice ==
  ASSUME NEW r \in Runs
  PROVE  IsSlice(Log[r], r, 0, Len(Log[r]))
  BY LogShape DEF IsSlice, Numbered

LEMMA SliceFacts ==
  ASSUME NEW d, NEW q, NEW w, NEW s, NEW j, NEW o, FactsAt(d, q, w, s, j, o),
         NEW r \in DOMAIN d.runs, NEW b, NEW a \in Nat, NEW hi \in Nat, IsSlice(b, r, a, hi),
         a = 0 \/ a - 1 \in DOMAIN d.events[r],
         \A c \in s : c.by = "job" => c.run # r,
         j.pc = "mark" => j.run # r
  PROVE  LET e == AppendEvents(d, r, b)
         IN  /\ FactsAt(e, q, w, s, j, o) /\ Climbs(d, e) /\ DOMAIN e.runs = DOMAIN d.runs
             /\ DOMAIN e.events[r] = DOMAIN d.events[r] \cup (a .. hi - 1)
<1> DEFINE e == AppendEvents(d, r, b)
           U == ToSet(Log[r])
<1>1. /\ b \in Seq(U) /\ Numbered(b, a) /\ \A i \in DOMAIN b : EventOk(b[i])
      /\ r \in LiveRuns => \A i \in DOMAIN b : \E k \in DOMAIN Log[r] : b[i] = Log[r][k]
      /\ Len(b) = hi - a
  BY DEF IsSlice
<1> HIDE DEF U
<1>2. FactsAt(e, q, w, s, j, o) /\ Climbs(d, e) /\ Appended(d, e, r, b, a)
  BY <1>1, AppendFacts
<1> HIDE DEF e
<1>3. a + Len(b) - 1 = hi - 1
  BY <1>1
<1> QED
  BY <1>2, <1>3 DEF Appended, e

-----------------------------------------------------------------------------

\* A worker's own step.
LEMMA WorkerMoves ==
  ASSUME NEW d, NEW q, NEW w, NEW s, NEW j, NEW o, FactsAt(d, q, w, s, j, o),
         NEW r \in LiveRuns, NEW v, \A x \in LiveRuns \ {r} : v[x] = w[x],
         WorkerOk(d, r, v[r])
  PROVE  FactsAt(d, q, v, s, j, o)
  BY DEF FactsAt, WorkersOk

\* The job's calls and marks are of imported runs.
LEMMA JobLeavesLive ==
  ASSUME NEW d, NEW q, NEW w, NEW s, NEW j, NEW o, FactsAt(d, q, w, s, j, o),
         NEW r \in LiveRuns
  PROVE  /\ \A c \in s : c.by = "job" => c.run # r
         /\ j.pc = "mark" => j.run # r
  BY ClientsAssumption DEF FactsAt, CallsOk, CallOk, JobOk

LEMMA WorkFacts ==
  ASSUME FactsInv, Work
  PROVE  Facts' /\ Climbs(db, db')
<1> DEFINE F(d) == FactsAt(d, req, worker, calls, job, opened)
<1>0. /\ Sound(db) /\ Tables(db) /\ F(db) /\ LiveRows(db)
      /\ req \in [LiveRuns -> Requests]
      /\ DOMAIN worker = LiveRuns /\ \A r \in LiveRuns : DOMAIN worker[r] = {"pc", "sent"}
      /\ \A r \in LiveRuns : WorkerOk(db, r, worker[r])
  BY DEF FactsInv, Facts, FactsAt, StrayInv, IInv, Shapes, WorkerShape, WorkersOk
<1> PICK r \in LiveRuns : LocalRun(r) \/ Begin(r) \/ Flush(r) \/ Resend(r) \/ Settle(r) \/ WorkerDies(r)
  BY DEF Work
<1> DEFINE n == Len(Log[r])
<1>1. r \in Runs /\ n \in Nat
  BY LogShape DEF Runs
<1>2. req' = req /\ job' = job /\ opened' = opened
  BY DEF LocalRun, Begin, Flush, Resend, Settle, WorkerDies, WorkerOnly
<1>3. /\ \A c \in calls : c.by = "job" => c.run # r
      /\ job.pc = "mark" => job.run # r
  BY <1>0, JobLeavesLive
<1> HIDE DEF n
<1>4. CASE LocalRun(r) \/ WorkerDies(r)
  <2>1. /\ db' = db /\ calls' = calls /\ \A x \in LiveRuns \ {r} : worker'[x] = worker[x]
        /\ worker'[r].pc = "queued" /\ worker'[r].sent = worker[r].sent
    BY <1>0, <1>4 DEF LocalRun, WorkerDies
  <2>2. WorkerOk(db, r, worker'[r])
    BY <1>0, <2>1 DEF WorkerOk
  <2>3. FactsAt(db, req, worker', calls, job, opened)
    BY <1>0, <2>1, <2>2, WorkerMoves
  <2> QED
    BY <1>2, <2>1, <2>3, NothingClimbs DEF Facts
<1>5. CASE Begin(r)
  <2> DEFINE rec == [status |-> "queued"]
  <2>1. /\ db' = CreateRun(db, r, req[r].user, 0, rec) /\ req[r].user \in Users
        /\ 0 \notin DOMAIN db.convs
    BY <1>0, <1>5, LenProperties DEF Begin, Sound, Requests
  <2>2. Given(rec, "status", "queued") \in Statuses
    BY DEF Given, Statuses
  <2>3. r \in LiveRuns => rec = [status |-> "queued"]
    OBVIOUS
  <2> HIDE DEF rec
  <2>4. F(db') /\ Climbs(db, db') /\ r \in DOMAIN db'.runs
    BY <1>0, <1>1, <2>1, <2>2, <2>3, CreateRunFacts
  <2> DEFINE ids == DOMAIN db'.events[r]
             k == Cardinality(ids)
  <2>5. Counted(ids) /\ ids \subseteq 0 .. n - 1
    BY <2>4 DEF FactsAt, Tables, LiveRows, LiveRow, n
  <2> HIDE DEF ids
  <2>6. k \in Nat /\ ids = 0 .. k - 1
    BY <2>5, CountIs
  <2>7. k \in 0 .. n /\ (k = 0 \/ k - 1 \in ids)
    <3> HIDE DEF k
    <3>1. k = 0 \/ k - 1 \in ids
      BY <2>6
    <3>2. k = 0 \/ k - 1 \in 0 .. n - 1
      BY <2>5, <3>1
    <3> QED
      BY <1>1, <2>6, <3>1, <3>2
  <2>8. /\ calls' = calls /\ \A x \in LiveRuns \ {r} : worker'[x] = worker[x]
        /\ \/ worker'[r].pc = "over" /\ worker'[r].sent = worker[r].sent
           \/ worker'[r].pc = "running" /\ worker'[r].sent = k
    BY <1>0, <1>5 DEF Begin, ids
  <2> HIDE DEF k
  <2>9. WorkerOk(db', r, worker'[r])
    BY <1>0, <2>4, <2>7, <2>8 DEF WorkerOk, n, ids
  <2>10. FactsAt(db', req, worker', calls, job, opened)
    BY <2>4, <2>8, <2>9, WorkerMoves
  <2> QED
    BY <1>2, <2>4, <2>8, <2>10 DEF Facts
<1>6. CASE Flush(r)
  <2> DEFINE a == worker[r].sent
  <2>1. PICK hi \in a + 1 .. n :
          /\ db' = AppendEvents(db, r, SubSeq(Log[r], a + 1, hi))
          /\ worker' = [worker EXCEPT ![r].sent = hi] \/ worker' = worker
    BY <1>6 DEF Flush, n
  <2>2. /\ worker[r].pc = "running" /\ calls' = calls
        /\ r \in DOMAIN db.runs /\ a \in 0 .. n /\ (a = 0 \/ a - 1 \in DOMAIN db.events[r])
    BY <1>0, <1>6 DEF Flush, WorkerOk, n
  <2> DEFINE b == SubSeq(Log[r], a + 1, hi)
  <2>3. a \in Nat /\ hi \in Nat /\ a <= hi /\ hi <= Len(Log[r]) /\ hi \in 0 .. n
        /\ hi - 1 \in a .. hi - 1
    BY <1>1, <2>2 DEF n
  <2>4. IsSlice(b, r, a, hi)
    BY <1>1, <2>3, Slice
  <2> HIDE DEF b
  <2>5. db' = AppendEvents(db, r, b)
    BY <2>1 DEF b
  <2>6. /\ F(db') /\ Climbs(db, db') /\ DOMAIN db'.runs = DOMAIN db.runs
        /\ DOMAIN db'.events[r] = DOMAIN db.events[r] \cup (a .. hi - 1)
    BY <1>0, <1>3, <2>2, <2>3, <2>4, <2>5, SliceFacts
  <2>7. WorkerOk(db', r, worker[r])
    BY <2>6 DEF FactsAt, WorkersOk
  <2>8. /\ \A x \in LiveRuns \ {r} : worker'[x] = worker[x]
        /\ \/ worker'[r] = worker[r]
           \/ worker'[r].pc = "running" /\ worker'[r].sent = hi
    BY <1>0, <2>1, <2>2
  <2>9. WorkerOk(db', r, worker'[r])
    BY <2>2, <2>3, <2>6, <2>7, <2>8 DEF WorkerOk, n
  <2>10. FactsAt(db', req, worker', calls, job, opened)
    BY <2>6, <2>8, <2>9, WorkerMoves
  <2> QED
    BY <1>2, <2>2, <2>6, <2>10 DEF Facts
<1>7. CASE Resend(r)
  <2>1. /\ worker[r].pc = "running" /\ worker[r].sent = n /\ calls' = calls
        /\ r \in DOMAIN db.runs /\ db' = AppendEvents(db, r, Log[r])
    BY <1>0, <1>7 DEF Resend, WorkerOk, n
  <2> DEFINE b == Log[r]
             a == 0
  <2>2. IsSlice(b, r, a, n) /\ a \in Nat /\ (a = 0 \/ a - 1 \in DOMAIN db.events[r])
        /\ db' = AppendEvents(db, r, b)
    BY <1>1, <2>1, WholeSlice DEF n
  <2> HIDE DEF b, a
  <2>3. F(db') /\ Climbs(db, db')
    BY <1>0, <1>1, <1>3, <2>1, <2>2, SliceFacts
  <2>4. /\ \A x \in LiveRuns \ {r} : worker'[x] = worker[x]
        /\ worker'[r].pc = "settle" /\ worker'[r].sent = worker[r].sent
    BY <1>0, <1>7 DEF Resend
  <2>5. WorkerOk(db', r, worker[r])
    BY <2>3 DEF FactsAt, WorkersOk
  <2>6. WorkerOk(db', r, worker'[r])
    BY <2>1, <2>4, <2>5 DEF WorkerOk
  <2>7. FactsAt(db', req, worker', calls, job, opened)
    BY <2>3, <2>4, <2>6, WorkerMoves
  <2> QED
    BY <1>2, <2>1, <2>3, <2>7 DEF Facts
<1>8. CASE Settle(r)
  <2> DEFINE fields == [status |-> Final(r).status, usage |-> Final(r).tokens,
                        error_class |-> None, interruptions |-> {}]
             c == [by |-> "worker", run |-> r, read |-> db.runs[r].now.extra, fields |-> fields]
  <2>1. calls' = calls \cup {c} /\ db' = db
    BY <1>8 DEF Settle, Update, Final
  <2>2. /\ \A x \in LiveRuns \ {r} : worker'[x] = worker[x]
        /\ worker'[r].pc = "over" /\ worker'[r].sent = worker[r].sent /\ worker[r].pc = "settle"
    BY <1>0, <1>8 DEF Settle
  <2>3. WorkerOk(db, r, worker'[r]) /\ r \in DOMAIN db.runs
    BY <1>0, <2>2 DEF WorkerOk
  <2>4. FactsAt(db, req, worker', calls, job, opened)
    BY <1>0, <2>2, <2>3, WorkerMoves
  <2>5. Final(r).status \in Statuses
    <3>1. n \in DOMAIN Log[r] /\ EventOk(Log[r][n]) /\ Log[r][n].type = "run.finished"
      BY <1>1, LogShape, LiveLogShape DEF n
    <3> QED
      BY <3>1 DEF Final, EventOk, Statuses, n
  <2>6. /\ ExtraKeys \subseteq DOMAIN fields /\ FieldsOk(fields) /\ HonestFields(r, fields)
    BY <2>5 DEF ExtraKeys, FieldsOk, HonestFields
  <2>7. DOMAIN db.runs[r].now.extra \subseteq ExtraKeys
    BY <1>0, <2>3 DEF Tables, RowOk
  <2> HIDE DEF fields
  <2>8. CallOk(db, c) /\ c.by # "job"
    BY <2>3, <2>6, <2>7 DEF CallOk
  <2> HIDE DEF c
  <2>9. FactsAt(db, req, worker', calls', job, opened)
    BY <2>1, <2>4, <2>8, CallBegins
  <2> QED
    BY <1>2, <2>1, <2>9, NothingClimbs DEF Facts
<1> QED
  BY <1>4, <1>5, <1>6, <1>7, <1>8

LEMMA UpdateHonest ==
  ASSUME NEW r, NEW n, Honest(r, n), NEW fields, HonestFields(r, fields), NEW read
  PROVE  Honest(r, Updated(n, read, fields))
<1> DEFINE u == Updated(n, read, fields)
<1>1. u.status = Given(fields, "status", n.status) /\ u.error = Given(fields, "error", n.error)
  BY DEF Updated
<1> HIDE DEF u
<1>2. Honest(r, u)
  BY <1>1 DEF Honest, HonestFields, Given
<1> QED
  BY <1>2 DEF u

LEMMA StoreFacts ==
  ASSUME FactsInv, StoreUpdates
  PROVE  Facts' /\ Climbs(db, db')
<1> PICK c \in calls :
      /\ db' = FinishRun(db, c.run, c.read, c.fields) /\ calls' = calls \ {c}
      /\ UNCHANGED <<req, worker, job, opened, jobs, failures>>
  BY DEF StoreUpdates
<1> DEFINE r == c.run
           n == db.runs[r].now
           u == Updated(n, c.read, c.fields)
<1>0. /\ Tables(db) /\ LiveRows(db) /\ WorkersOk(db, req, worker)
      /\ CallsOk(db, calls) /\ OneWaits(calls, job) /\ JobOk(db, job) /\ opened \subseteq DOMAIN db.convs
  BY DEF FactsInv, Facts, FactsAt
<1>1. CallOk(db, c)
  BY <1>0 DEF CallsOk
<1>2. r \in DOMAIN db.runs /\ DOMAIN c.read \subseteq ExtraKeys /\ FieldsOk(c.fields)
  BY <1>1 DEF CallOk
<1>3. /\ Tables(db') /\ Spares(db, db', {r}) /\ db'.runs[r].now = u /\ db'.events = db.events
      /\ DOMAIN db'.runs = DOMAIN db.runs
  <2>1. FinishedAs(db, db', r, u)
    BY <1>0, <1>2, FinishRunTables
  <2> QED
    BY <2>1 DEF FinishedAs
<1>4. RowOk(n)
  BY <1>0, <1>2 DEF Tables
<1> HIDE DEF n, r
<1>5. /\ n.score # None => u.score # None
      /\ DOMAIN c.fields \cap ExtraKeys = {} => u.extra = n.extra
      /\ DOMAIN c.fields \cap ExtraKeys # {} =>
           DOMAIN u.extra = (DOMAIN c.fields \cap ExtraKeys) \cup DOMAIN c.read
  BY <1>2, <1>4, UpdatedRow
<1> HIDE DEF u
<1>6. Grows(n, u)
  <2>1. CASE c.by = "job"
    BY <1>1, <1>5, <2>1 DEF CallOk, Grows, n, r
  <2>2. CASE c.by # "job"
    <3>1. DOMAIN c.fields \cap ExtraKeys = {} \/ ExtraKeys \subseteq DOMAIN c.fields
      BY <1>1, <2>2 DEF CallOk
    <3>2. DOMAIN n.extra \subseteq ExtraKeys
      BY <1>4 DEF RowOk
    <3> QED
      BY <1>5, <3>1, <3>2 DEF Grows
  <2> QED
    BY <2>1, <2>2
<1>7. Climbs(db, db')
  <2>1. \A x \in {r} \cap DOMAIN db.runs :
          DOMAIN db.events[x] \subseteq DOMAIN db'.events[x] /\ Grows(db.runs[x].now, db'.runs[x].now)
    BY <1>3, <1>6 DEF n
  <2> QED
    BY <1>3, <2>1, SparedClimb
<1>8. LiveRows(db')
  <2>1. ASSUME r \in LiveRuns PROVE LiveRow(db', r)
    <3>1. LiveRow(db, r) /\ Honest(r, n)
      BY <1>0, <1>2, <2>1 DEF LiveRows, LiveRow, n
    <3>2. HonestFields(r, c.fields)
      BY <1>1, <2>1, ClientsAssumption DEF CallOk, r
    <3>3. Honest(r, u)
      BY <3>1, <3>2, UpdateHonest DEF u
    <3> QED
      BY <1>3, <3>1, <3>3 DEF LiveRow
  <2> QED
    BY <1>0, <1>3, <2>1, LiveKept
<1>9. WorkersOk(db', req, worker)
  BY <1>0, <1>7, WorkersKept
<1>10. CallsOk(db', calls') /\ OneWaits(calls', job)
  <2>1. CallsOk(db, calls') /\ OneWaits(calls', job)
    BY <1>0 DEF CallsOk, OneWaits
  <2>2. ASSUME NEW x \in calls', x.by = "job" PROVE x.run \notin {r}
    <3>1. x \in calls /\ x # c
      OBVIOUS
    <3>2. c.by # "job"
      BY <1>0, <2>2, <3>1 DEF OneWaits
    <3>3. CallOk(db, x)
      BY <1>0, <3>1 DEF CallsOk
    <3> QED
      BY <1>1, <2>2, <3>2, <3>3, ClientsAssumption DEF CallOk, r
  <2>3. CallsOk(db', calls')
    BY <1>3, <2>1, <2>2, CallsKept
  <2> QED
    BY <2>1, <2>3
<1>11. JobOk(db', job)
  <2>1. job.pc = "mark" => job.run \notin {r}
    BY <1>0, <1>1, ClientsAssumption DEF OneWaits, JobOk, CallOk, r
  <2> QED
    BY <1>0, <1>3, <1>7, <2>1, JobKept
<1>12. opened \subseteq DOMAIN db'.convs
  BY <1>0, <1>3 DEF Spares
<1> QED
  BY <1>3, <1>7, <1>8, <1>9, <1>10, <1>11, <1>12 DEF Facts, FactsAt

-----------------------------------------------------------------------------
(* The jobs *)

LEMMA Divided ==
  ASSUME NEW n \in Nat, NEW k \in Nat \ {0}, NEW c \in Nat \ {0}, c <= (n + k - 1) \div k
  PROVE  (c - 1) * k \in Nat /\ c * k \in Nat /\ c * k = (c - 1) * k + k /\ (c - 1) * k < n
<1> DEFINE q == (n + k - 1) \div k
<1>1. q \in Int /\ k * q <= n + k - 1
  OBVIOUS
<1> HIDE DEF q
<1>2. q \in Nat /\ q - c \in Nat
  BY <1>1 DEF q
<1>3. k * (q - c) >= 0 /\ k * (q - c) = k * q - k * c
  BY <1>1, <1>2
<1>4. (c - 1) * k \in Nat /\ c * k \in Nat /\ c * k = (c - 1) * k + k /\ c * k = k * c
  OBVIOUS
<1> QED
  BY <1>1, <1>3, <1>4

\* The events of an import's chunk.
LEMMA ChunkIs ==
  ASSUME NEW r \in Runs, NEW c \in Nat \ {0}, c <= Chunks(Log[r], ChunkSize)
  PROVE  LET a == (c - 1) * ChunkSize
             hi == IF c * ChunkSize < Len(Log[r]) THEN c * ChunkSize ELSE Len(Log[r])
         IN  /\ a \in Nat /\ hi \in Nat /\ a <= hi /\ a <= Len(Log[r])
             /\ \A i \in 0 .. Len(Log[r]) - 1 : i < c * ChunkSize => i < a \/ i \in a .. hi - 1
             /\ IsSlice(Chunk(Log[r], ChunkSize, c), r, a, hi)
<1> DEFINE n == Len(Log[r])
           a == (c - 1) * ChunkSize
           b == c * ChunkSize
           hi == IF b < n THEN b ELSE n
<1>1. n \in Nat /\ ChunkSize \in Nat \ {0} /\ c <= (n + ChunkSize - 1) \div ChunkSize
  BY LogShape, ClientsAssumption DEF Chunks
<1> HIDE DEF n
<1>2. a \in Nat /\ b \in Nat /\ b = a + ChunkSize /\ a < n
  BY <1>1, Divided
<1>3. Chunk(Log[r], ChunkSize, c) = SubSeq(Log[r], a + 1, hi)
  BY DEF Chunk, n
<1> HIDE DEF a, b
<1>4. /\ hi \in Nat /\ a <= hi /\ hi <= n /\ a <= n
      /\ \A i \in 0 .. n - 1 : i < b => i < a \/ i \in a .. hi - 1
  BY <1>1, <1>2
<1> HIDE DEF hi
<1>5. IsSlice(SubSeq(Log[r], a + 1, hi), r, a, hi)
  BY <1>2, <1>4, Slice DEF n
<1> QED
  BY <1>2, <1>3, <1>4, <1>5 DEF a, b, hi, n

\* A job's step that is not the Store's.
LEMMA JobMovesOn ==
  ASSUME FactsInv, db' = db, req' = req, worker' = worker, opened' = opened,
         CallsOk(db, calls'), OneWaits(calls', job'), JobOk(db, job')
  PROVE  Facts' /\ Climbs(db, db')
  BY NothingClimbs DEF FactsInv, Facts, FactsAt

\* Between its waits a job has no update under way.
LEMMA NoneWaits ==
  ASSUME FactsInv, job.pc \notin {"idle", "pinning", "correcting"} \/ ~Waits
  PROVE  \A c \in calls : c.by # "job"
  BY DEF FactsInv, Facts, FactsAt, OneWaits, Waits

\* The job's update of an imported run begins, and the job waits.
LEMMA JobCalls ==
  ASSUME FactsInv, NEW fields, FieldsOk(fields), job.run \in LegacyRuns \cap DOMAIN db.runs,
         Update("job", job.run, fields), NEW pc \in {"pinning", "correcting"}, Goes(pc),
         job.pc \notin {"idle", "pinning", "correcting"},
         db' = db, req' = req, worker' = worker, opened' = opened
  PROVE  Facts' /\ Climbs(db, db')
<1> DEFINE c == [by |-> "job", run |-> job.run, read |-> db.runs[job.run].now.extra,
                 fields |-> fields]
<1>1. calls' = calls \cup {c}
  BY DEF Update
<1>2. \A x \in calls : x.by # "job"
  BY NoneWaits
<1>3. DOMAIN db.runs[job.run].now.extra \subseteq ExtraKeys
  BY DEF FactsInv, Facts, FactsAt, Tables, RowOk
<1>4. CallOk(db, c)
  BY <1>3 DEF CallOk
<1>5. CallsOk(db, calls')
  BY <1>1, <1>4 DEF FactsInv, Facts, FactsAt, CallsOk
<1>6. job'.pc = pc
  BY DEF Goes, FactsInv, StrayInv, IInv, Shapes
<1>7. OneWaits(calls', job')
  BY <1>1, <1>2, <1>6 DEF OneWaits
<1>8. JobOk(db, job')
  BY <1>6 DEF JobOk
<1> QED
  BY <1>5, <1>7, <1>8, JobMovesOn

\* The marker's id is the next one.
LEMMA MarkerIsNext ==
  ASSUME NEW n \in Nat, NEW rec, DOMAIN rec.events = 0 .. n - 1
  PROVE  NextSeq(rec) = n
<1>1. CASE n = 0
  BY <1>1 DEF NextSeq
<1>2. CASE n # 0
  <2>1. n - 1 \in 0 .. n - 1 /\ 0 .. n - 1 # {} /\ n - 1 \in Nat
    BY <1>2
  <2>2. Max(0 .. n - 1) = n - 1
    <3>1. n - 1 \in 0 .. n - 1 /\ \A y \in 0 .. n - 1 : n - 1 >= y
      BY <2>1
    <3>2. \A x \in 0 .. n - 1 : (\A y \in 0 .. n - 1 : x >= y) => x = n - 1
      BY <2>1
    <3> QED
      BY <3>1, <3>2 DEF Max
  <2> QED
    BY <2>1, <2>2 DEF NextSeq
<1> QED
  BY <1>1, <1>2

\* A run that looks fine without a grade is an imported one.
LEMMA CandidateIsLegacy ==
  ASSUME FactsInv, NEW r \in DOMAIN db.runs, IsCandidate(GetRun(db, r))
  PROVE  r \in LegacyRuns
<1>1. /\ db.runs[r].now.status = "ok"
      /\ db.runs[r].now.error \in {"evaluate", "evaluate_sandbox"}
  BY DEF IsCandidate, Ungraded, GetRun
<1>2. r \in LiveRuns => Honest(r, db.runs[r].now)
  BY DEF FactsInv, Facts, FactsAt, LiveRows, LiveRow
<1>3. r \notin LiveRuns
  BY <1>1, <1>2 DEF Honest
<1> QED
  BY <1>3 DEF FactsInv, Facts, FactsAt, Tables, Runs

LEMMA OperateFacts ==
  ASSUME FactsInv, Operate
  PROVE  Facts' /\ Climbs(db, db')
<1> USE PeopleAreUsers
<1> DEFINE F(d) == FactsAt(d, req, worker, calls, job, opened)
<1>0. /\ Sound(db) /\ Tables(db) /\ F(db) /\ CallsOk(db, calls) /\ OneWaits(calls, job)
      /\ JobOk(db, job) /\ ImportAgrees /\ NoRowYet
      /\ DOMAIN job = {"kind", "pc", "todo", "run", "conv", "chunk", "plan"}
  BY DEF FactsInv, Facts, FactsAt, StrayInv, IInv, Shapes
<1>1. ASSUME NEW kind, NEW pc \in {"import", "prune"}, NEW todo, Start(kind, pc, todo)
      PROVE  Facts' /\ Climbs(db, db')
  <2>1. /\ db' = db /\ req' = req /\ worker' = worker /\ opened' = opened /\ calls' = calls
        /\ job'.pc = pc /\ ~Waits
    BY <1>1 DEF Start, JobOnly, Idle
  <2>2. OneWaits(calls', job')
    BY <2>1, NoneWaits DEF OneWaits
  <2>3. JobOk(db, job')
    BY <2>1 DEF JobOk
  <2> QED
    BY <1>0, <2>1, <2>2, <2>3, JobMovesOn
<1>2. CASE StartBackfill \/ StartLegacyImport \/ \E u \in Users : StartPrune(u)
  BY <1>1, <1>2 DEF StartBackfill, StartLegacyImport, StartPrune
<1>3. CASE NextRecord \/ NextCandidate \/ Classify \/ JobEnds \/ JobDies
  <2>1. /\ db' = db /\ req' = req /\ worker' = worker /\ opened' = opened /\ calls' = calls
        /\ job'.pc \in {"import", "classify", "idle"}
        /\ job'.pc # "idle" => job.pc \notin {"idle", "pinning", "correcting"} \/ ~Waits
    <3>1. CASE NextRecord \/ NextCandidate
      BY <1>0, <3>1 DEF NextRecord, NextCandidate, Goes, NoCall, Unmoved, JobOnly
    <3>2. CASE Classify
      BY <1>0, <3>2 DEF Classify, NoCall, Unmoved, JobOnly
    <3>3. CASE JobEnds \/ JobDies
      BY <3>3 DEF JobEnds, JobDies, NoCall, Unmoved, JobOnly, Idle
    <3> QED
      BY <1>3, <3>1, <3>2, <3>3
  <2>2. OneWaits(calls', job')
    <3>1. job'.pc # "idle" => \A c \in calls : c.by # "job"
      BY <2>1, NoneWaits
    <3> QED
      BY <1>0, <2>1, <3>1 DEF OneWaits
  <2>3. JobOk(db, job')
    BY <2>1 DEF JobOk
  <2> QED
    BY <1>0, <2>1, <2>2, <2>3, JobMovesOn
<1>4. CASE Pin
  <2> DEFINE fields == Pinned(Legacy[job.run])
  <2>1. /\ job.pc = "replay" /\ Update("job", job.run, fields) /\ Goes("pinning")
        /\ db' = db /\ req' = req /\ worker' = worker /\ opened' = opened
    BY <1>4 DEF Pin, Unmoved, JobOnly
  <2>2. job.run \in LegacyRuns \cap DOMAIN db.runs
    BY <1>0, <2>1 DEF JobOk
  <2>3. FieldsOk(fields)
    <3>1. Legacy[job.run].status \in Statuses
      BY <2>2, LogAssumption
    <3>2. "status" \in DOMAIN fields => fields["status"] = Legacy[job.run].status
      BY DEF Pinned
    <3> QED
      BY <3>1, <3>2 DEF FieldsOk
  <2> HIDE DEF fields
  <2> QED
    BY <2>1, <2>2, <2>3, JobCalls
<1>5. CASE Correct
  <2>1. /\ job.pc = "correct" /\ Update("job", job.run, job.plan.fields) /\ Goes("correcting")
        /\ db' = db /\ req' = req /\ worker' = worker /\ opened' = opened
    BY <1>5 DEF Correct, Unmoved, JobOnly
  <2>2. job.run \in LegacyRuns \cap DOMAIN db.runs /\ FieldsOk(job.plan.fields)
    BY <1>0, <2>1 DEF JobOk
  <2> QED
    BY <2>1, <2>2, JobCalls
<1>6. ASSUME NEW r \in DOMAIN db.runs, Plan(r) PROVE Facts' /\ Climbs(db, db')
  <2> DEFINE rec == GetRun(db, r)
  <2>1. /\ db' = db /\ req' = req /\ worker' = worker /\ opened' = opened /\ calls' = calls
        /\ job.pc = "classify"
        /\ \/ job'.pc = "classify"
           \/ IsCandidate(rec) /\ job'.pc = "mark" /\ job'.run = r /\ job'.plan = PlanFor(rec)
    BY <1>0, <1>6 DEF Plan, NoCall, Unmoved, JobOnly
  <2>2. OneWaits(calls', job')
    BY <2>1, NoneWaits DEF OneWaits
  <2>3. ASSUME IsCandidate(rec), job'.pc = "mark", job'.run = r, job'.plan = PlanFor(rec)
        PROVE  JobOk(db, job')
    <3>1. r \in LegacyRuns
      BY <2>3, CandidateIsLegacy
    <3>2. rec.events = db.events[r]
      BY DEF GetRun
    <3>3. PICK n \in Nat : DOMAIN rec.events = 0 .. n - 1
      BY <1>0, <3>2 DEF Tables, Counted
    <3> HIDE DEF rec
    <3>4. NextSeq(rec) = n
      BY <3>3, MarkerIsNext
    <3>5. job'.plan.event.type = "log" /\ job'.plan.event.id = n
      BY <2>3, <3>4 DEF PlanFor, MarkerEvent
    <3>6. FieldsOk(PlanFields(rec))
      BY DEF FieldsOk, PlanFields, Statuses, Terminal
    <3>7. FieldsOk(job'.plan.fields)
      BY <2>3, <3>6 DEF PlanFor
    <3> QED
      BY <2>3, <3>1, <3>2, <3>3, <3>5, <3>7 DEF JobOk
  <2>4. JobOk(db, job')
    <3>1. job'.pc = "classify" => JobOk(db, job')
      BY DEF JobOk
    <3> HIDE DEF rec
    <3> QED
      BY <2>1, <2>3, <3>1
  <2> QED
    BY <1>0, <2>1, <2>2, <2>4, JobMovesOn
<1>7. ASSUME NEW c \in Conversations(db), Prune(c) PROVE Facts' /\ Climbs(db, db')
  <2>1. /\ db' = UpdateConversation(db, c, db.convs[c].user, TRUE) /\ req' = req
        /\ worker' = worker /\ opened' = opened /\ calls' = calls /\ job.pc = "prune" /\ job'.pc = "prune"
    BY <1>0, <1>7 DEF Prune, NoCall, Unmoved, JobOnly
  <2>2. Tables(db') /\ Spares(db, db', {})
    BY <1>0, <2>1, UpdateConversationTables
  <2>3. F(db') /\ Climbs(db, db')
    BY <1>0, <2>2, QuietFacts
  <2>4. OneWaits(calls, job') /\ JobOk(db', job')
    BY <1>0, <2>1 DEF OneWaits, JobOk
  <2> QED
    BY <2>1, <2>3, <2>4 DEF Facts, FactsAt
<1>8. ASSUME NEW r \in LegacyRuns, ImportRecord(r) PROVE Facts' /\ Climbs(db, db')
  <2>1. /\ req' = req /\ worker' = worker /\ opened' = opened /\ calls' = calls
        /\ job.pc = "import"
    BY <1>8 DEF ImportRecord, NoCall, Unmoved, JobOnly
  <2>2. CASE r \in DOMAIN db.runs
    <3>1. db' = db /\ job'.pc = "replay" /\ job'.run = r /\ job'.chunk = 1
      BY <1>0, <1>8, <2>2 DEF ImportRecord
    <3>2. (job'.chunk - 1) * ChunkSize = 0
      BY <3>1, ClientsAssumption
    <3>3. JobOk(db, job')
      BY <2>2, <3>1, <3>2 DEF JobOk
    <3>4. OneWaits(calls', job')
      BY <2>1, NoneWaits DEF OneWaits
    <3> QED
      BY <1>0, <2>1, <3>1, <3>3, <3>4, JobMovesOn
  <2>3. CASE r \notin DOMAIN db.runs
    <3>1. /\ db' = CreateConversation(db, LegacyUser) /\ job'.pc = "row" /\ job'.run = r
          /\ job'.chunk = 1
      BY <1>0, <1>8, <2>3 DEF ImportRecord
    <3>2. Tables(db') /\ Spares(db, db', {})
      BY <1>0, <3>1, CreateConversationTables
    <3>3. F(db') /\ Climbs(db, db')
      BY <1>0, <3>2, QuietFacts
    <3>4. JobOk(db', job')
      BY <3>1 DEF JobOk
    <3>5. OneWaits(calls, job')
      BY <2>1, NoneWaits DEF OneWaits
    <3> QED
      BY <2>1, <3>3, <3>4, <3>5 DEF Facts, FactsAt
  <2> QED
    BY <2>2, <2>3
<1>9. ASSUME NEW r \in LegacyRuns, NEW owner \in Users, NEW c, c \in DOMAIN db.convs => db.convs[c].user = owner,
             db' = CreateRun(db, r, owner, c, Legacy[r]), req' = req, worker' = worker,
             opened' = opened, calls' = calls, job.pc \in {"import", "row"},
             job'.pc = "replay", job'.run = r, job'.chunk = 1
      PROVE  Facts' /\ Climbs(db, db')
  <2> DEFINE rec == Legacy[r]
  <2>1. r \in Runs /\ r \notin LiveRuns
    BY ClientsAssumption DEF Runs
  <2>2. Given(rec, "status", "queued") \in Statuses
    <3>1. rec.status \in Statuses
      BY LogAssumption
    <3>2. Given(rec, "status", "queued") \in {rec["status"], "queued"}
      BY DEF Given
    <3> QED
      BY <3>1, <3>2 DEF Statuses
  <2>3. db' = CreateRun(db, r, owner, c, rec)
    BY <1>9
  <2> HIDE DEF rec
  <2>4. F(db') /\ Climbs(db, db') /\ r \in DOMAIN db'.runs
    BY <1>0, <1>9, <2>1, <2>2, <2>3, CreateRunFacts
  <2>5. (job'.chunk - 1) * ChunkSize = 0
    BY <1>9, ClientsAssumption
  <2>6. JobOk(db', job')
    BY <1>9, <2>4, <2>5 DEF JobOk
  <2>7. OneWaits(calls, job')
    BY <1>9, NoneWaits DEF OneWaits
  <2> QED
    BY <1>9, <2>4, <2>6, <2>7 DEF Facts, FactsAt
<1>10. CASE ImportRow
  <2>1. /\ db' = CreateRun(db, job.run, LegacyUser, job.conv, Legacy[job.run])
        /\ req' = req /\ worker' = worker /\ opened' = opened /\ calls' = calls
        /\ job.pc = "row" /\ job'.pc = "replay" /\ job'.run = job.run /\ job'.chunk = job.chunk
    BY <1>0, <1>10 DEF ImportRow, Goes, NoCall, Unmoved, JobOnly
  <2>2. job.run \in LegacyRuns /\ db.convs[job.conv].user = LegacyUser /\ LegacyUser \in Users
        /\ job.chunk = 1
    BY <1>0, <2>1 DEF JobOk, ImportAgrees
  <2> QED
    BY <1>9, <2>1, <2>2
<1>11. ASSUME NEW r \in LegacyRuns, ImportLegacyRow(r) PROVE Facts' /\ Climbs(db, db')
  <2>1. /\ db' = CreateRun(db, r, Anonymous, 0, Legacy[r])
        /\ req' = req /\ worker' = worker /\ opened' = opened /\ calls' = calls
        /\ job.pc = "import" /\ job'.pc = "replay" /\ job'.run = r /\ job'.chunk = 1
    BY <1>0, <1>11 DEF ImportLegacyRow, NoCall, Unmoved, JobOnly
  <2>2. 0 \notin DOMAIN db.convs /\ Anonymous \in Users
    BY <1>0, LenProperties DEF Sound
  <2> QED
    BY <1>9, <2>1, <2>2
<1>12. CASE Replay
  <2> DEFINE r == job.run
             c == job.chunk
             n == Len(Log[r])
             a == (c - 1) * ChunkSize
             hi == IF c * ChunkSize < n THEN c * ChunkSize ELSE n
             b == Chunk(Log[r], ChunkSize, c)
  <2>1. /\ job.pc = "replay" /\ c <= Chunks(Log[r], ChunkSize) /\ db' = AppendEvents(db, r, b)
        /\ req' = req /\ worker' = worker /\ opened' = opened /\ calls' = calls
        /\ job'.pc = "replay" /\ job'.run = r /\ job'.chunk = c + 1
    BY <1>0, <1>12 DEF Replay, NoCall, Unmoved, JobOnly
  <2>2. /\ r \in LegacyRuns \cap DOMAIN db.runs /\ r \in Runs /\ c \in Nat \ {0}
        /\ \A i \in 0 .. n - 1 : i < a => i \in DOMAIN db.events[r]
    BY <1>0, <2>1 DEF JobOk, Runs
  <2> HIDE DEF r, c
  <2>3. /\ a \in Nat /\ hi \in Nat /\ a <= hi /\ a <= n
        /\ \A i \in 0 .. n - 1 : i < c * ChunkSize => i < a \/ i \in a .. hi - 1
        /\ IsSlice(b, r, a, hi)
    BY <2>1, <2>2, ChunkIs
  <2>4. n \in Nat
    BY <2>2, LogShape
  <2>5. (c + 1 - 1) * ChunkSize = c * ChunkSize
    BY <2>2
  <2> HIDE DEF a, hi, b, n
  <2>6. a = 0 \/ a - 1 \in DOMAIN db.events[r]
    <3>1. a # 0 => a - 1 \in 0 .. n - 1 /\ a - 1 < a
      BY <2>3, <2>4
    <3> QED
      BY <2>2, <3>1
  <2>7. \A x \in calls : x.by = "job" => x.run # r
    BY <2>1, NoneWaits
  <2>8. /\ F(db') /\ Climbs(db, db') /\ DOMAIN db'.runs = DOMAIN db.runs
        /\ DOMAIN db'.events[r] = DOMAIN db.events[r] \cup (a .. hi - 1)
    BY <1>0, <2>1, <2>2, <2>3, <2>6, <2>7, SliceFacts
  <2>9. JobOk(db', job')
    <3>1. \A i \in 0 .. n - 1 : i < c * ChunkSize => i \in DOMAIN db'.events[r]
      BY <2>2, <2>3, <2>8
    <3>2. job'.chunk \in Nat \ {0}
      BY <2>1, <2>2
    <3> QED
      BY <2>1, <2>2, <2>5, <2>8, <3>1, <3>2 DEF JobOk, n
  <2>10. OneWaits(calls, job')
    BY <2>1, NoneWaits DEF OneWaits
  <2> QED
    BY <2>1, <2>8, <2>9, <2>10 DEF Facts, FactsAt
<1>13. CASE Mark
  <2> DEFINE r == job.run
             e == job.plan.event
             a == e.id
             b == <<e>>
             U == {e}
  <2>1. /\ job.pc = "mark" /\ db' = AppendEvents(db, r, b)
        /\ req' = req /\ worker' = worker /\ opened' = opened /\ calls' = calls
        /\ job'.pc = "correct" /\ job'.run = r /\ job'.plan = job.plan
    BY <1>0, <1>13 DEF Mark, Goes, NoCall, Unmoved, JobOnly
  <2>2. /\ r \in LegacyRuns \cap DOMAIN db.runs /\ r \notin LiveRuns /\ a \in Nat
        /\ DOMAIN db.events[r] = 0 .. a - 1 /\ e.type = "log"
        /\ FieldsOk(job.plan.fields)
    BY <1>0, <2>1, ClientsAssumption DEF JobOk
  <2>3. \A x \in calls : x.by # "job"
    BY <2>1, NoneWaits
  <2>4. /\ b \in Seq(U) /\ DOMAIN b = {1} /\ b[1] = e /\ EventOk(e)
    <3>1. b \in Seq(U) /\ Len(b) = 1 /\ b[1] = e
      OBVIOUS
    <3>2. DOMAIN b = 1 .. 1
      BY <3>1, LenProperties
    <3> QED
      BY <2>2, <3>1, <3>2 DEF EventOk
  <2>5. OneWaits(calls, job') /\ JobOk(db, job')
    BY <2>1, <2>2, <2>3 DEF OneWaits, JobOk
  <2> DEFINE j == job'
  <2>6. FactsAt(db, req, worker, calls, j, opened) /\ j.pc # "mark"
    BY <1>0, <2>1, <2>5 DEF FactsAt
  <2> HIDE DEF b, r, e, U, j
  <2>7. Numbered(b, a) /\ (a = 0 \/ a - 1 \in DOMAIN db.events[r])
        /\ \A i \in DOMAIN b : EventOk(b[i])
    BY <2>2, <2>4 DEF Numbered
  <2> HIDE DEF a
  <2>8. FactsAt(db', req, worker, calls, j, opened) /\ Climbs(db, db')
    BY <2>1, <2>2, <2>3, <2>4, <2>6, <2>7, AppendFacts
  <2> QED
    BY <2>1, <2>8 DEF Facts, j
<1> QED
  BY <1>2, <1>3, <1>4, <1>5, <1>6, <1>7, <1>8, <1>10, <1>11, <1>12, <1>13 DEF Operate

LEMMA FactsStep ==
  ASSUME FactsInv, [Next]_vars
  PROVE  FactsInv' /\ Climbs(db, db')
<1>1. StrayInv'
  BY StrayStep DEF FactsInv
<1>2. CASE UNCHANGED vars
  <2>1. /\ db' = db /\ req' = req /\ worker' = worker /\ opened' = opened /\ calls' = calls
        /\ job' = job
    BY <1>2 DEF vars
  <2> QED
    BY <1>1, <2>1, NothingClimbs DEF FactsInv, Facts
<1>3. Request \/ Work \/ Operate \/ StoreUpdates \/ UNCHANGED vars
  BY DEF Next
<1> QED
  BY <1>1, <1>2, <1>3, RequestFacts, WorkFacts, OperateFacts, StoreFacts DEF FactsInv

\* Whoever calls the Store in whatever order, and whoever dies, the tables refer to
\* one another as the schema of sqlite_store.py says: the owner and the conversation
\* of a run are there, its events are numbered without a gap, though append_events
\* takes any number, and its status is "queued", "running" or one of TERMINAL_STATUSES.
THEOREM TablesHoldTogether == Spec => []TypeOK
<1>1. Init => FactsInv
  BY InitFacts
<1>2. FactsInv /\ [Next]_vars => FactsInv'
  BY FactsStep
<1>3. FactsInv => TypeOK
  BY TypesFromInv
<1> QED
  BY <1>1, <1>2, <1>3, PTL DEF Spec

\* A run's row keeps its owner and its conversation, and goes on having a score, a
\* usage and an error class once it has them (which ones may change), though
\* finish_run reads the row before the transaction that writes extra_json, and a
\* request's, a worker's and a job's updates overlap.
THEOREM RowsKeepTheirFacts == Spec => RowKeepsItsFacts
<1> DEFINE A == \A r \in DOMAIN db.runs :
                  /\ r \in DOMAIN db'.runs
                  /\ db'.runs[r].conv = db.runs[r].conv /\ db'.runs[r].user = db.runs[r].user
                  /\ DOMAIN db.runs[r].now.extra \subseteq DOMAIN db'.runs[r].now.extra
                  /\ db.runs[r].now.score # None => db'.runs[r].now.score # None
<1>1. Init => FactsInv
  BY InitFacts
<1>2. FactsInv /\ [Next]_vars => FactsInv' /\ [A]_vars
  <2> SUFFICES ASSUME FactsInv, [Next]_vars PROVE FactsInv' /\ A
    OBVIOUS
  <2>1. FactsInv' /\ Climbs(db, db')
    BY FactsStep
  <2> QED
    BY <2>1 DEF Climbs, Grows
<1> QED
  BY <1>1, <1>2, PTL DEF Spec, RowKeepsItsFacts
=============================================================================
