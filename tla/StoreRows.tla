----------------------------- MODULE StoreRows -----------------------------
(***************************************************************************)
(* The Store's tables and its verbs (sqlite_store.py), each a function     *)
(* from one database to the next: users, conversations, runs, events, and  *)
(* the transcript (messages and blocks) that append_events projects from   *)
(* the events.  Nothing here moves by itself; StoreClients calls it.       *)
(*                                                                         *)
(* A run's row is what is fixed at creation (conv, user) and what changes  *)
(* (now); now.extra is the row's extra_json.  Titles, times, scenarios,    *)
(* models and texts are left out, and so is the checkpoint a terminal      *)
(* status asks for (StoreCheckpoint).                                      *)
(***************************************************************************)
EXTENDS Naturals, Sequences, SequencesExt, FiniteSets

CONSTANTS
  Users,        \* ids in the users table
  Anonymous     \* ANON_USER_ID, the owner of a run nobody claims

ASSUME AnonymousAssumption == Anonymous \in Users

None == "none"
NoStep == 0

Terminal == {"ok", "error", "truncated", "unevaluated", "interrupted"}

\* The keys finish_run finds no column for.
ExtraKeys == {"usage", "error_class", "interruptions"}

-----------------------------------------------------------------------------
(* Users and conversations *)

EmptyDb == [users |-> {}, convs |-> << >>, runs |-> << >>,
            events |-> << >>, messages |-> << >>]

UpsertUser(db, u) == [db EXCEPT !.users = @ \cup {u}]

\* create_conversation: the new conversation is the last one.
CreateConversation(db, u) ==
  [UpsertUser(db, u) EXCEPT !.convs = Append(@, [user |-> u, archived |-> FALSE]),
                            !.messages = Append(@, << >>)]

Conversations(db) == DOMAIN db.convs
RunsOf(db, c) == {r \in DOMAIN db.runs : db.runs[r].conv = c}

\* get_conversation and update_conversation: no caller given, no check.
MayOpen(db, c, u) ==
  c \in Conversations(db) /\ (u = None \/ db.convs[c].user = u)

ListConversations(db, u) ==
  {c \in Conversations(db) : db.convs[c].user = u /\ ~db.convs[c].archived}

\* update_conversation, and delete_conversation with archived = TRUE.
UpdateConversation(db, c, u, archived) ==
  IF MayOpen(db, c, u) THEN [db EXCEPT !.convs[c].archived = archived] ELSE db

-----------------------------------------------------------------------------
(* Runs *)

With(f, k, v) == [x \in DOMAIN f \cup {k} |-> IF x = k THEN v ELSE f[x]]
Over(f, g) == [x \in DOMAIN f \cup DOMAIN g |-> IF x \in DOMAIN f THEN f[x] ELSE g[x]]
Only(f, S) == [x \in DOMAIN f \cap S |-> f[x]]
Given(f, k, old) == IF k \in DOMAIN f THEN f[k] ELSE old

\* The columns of a new row: "usage" has columns of its own and is not kept
\* in extra_json.
NewColumns(rec) ==
  [status |-> Given(rec, "status", "queued"),
   score |-> Given(rec, "evaluation", None),
   error |-> Given(rec, "error", None),
   tokens |-> Given(rec, "usage", 0),
   extra |-> Only(rec, ExtraKeys \ {"usage"})]

\* mutant: the conversation is made before the run is looked for.
CreateRun_Eager(db, r, owner, c, rec) ==
  LET d == UpsertUser(db, owner)
      known == c \in Conversations(d)
      e == IF known THEN d ELSE CreateConversation(d, owner)
      home == IF known THEN c ELSE Len(e.convs)
  IN  IF r \in DOMAIN db.runs THEN e
      ELSE [e EXCEPT
             !.runs = With(@, r, [conv |-> home, user |-> owner, now |-> NewColumns(rec)]),
             !.events = With(@, r, << >>)]

\* create_run.  A run that is there stays as it is; a conversation that is not
\* there is made.
CreateRun(db, r, owner, c, rec) ==
  LET d == UpsertUser(db, owner)
      known == c \in Conversations(d)
      e == IF known THEN d ELSE CreateConversation(d, owner)
      home == IF known THEN c ELSE Len(e.convs)
  IN  IF r \in DOMAIN db.runs THEN db
      ELSE [e EXCEPT
             !.runs = With(@, r, [conv |-> home, user |-> owner, now |-> NewColumns(rec)]),
             !.events = With(@, r, << >>)]

\* mutant: extra_json is written back with every update.
KeptExtra_Always(now, read, fields) == Over(Only(fields, ExtraKeys), read)

\* extra_json is written when a field has no column, on top of what was read.
KeptExtra(now, read, fields) ==
  IF DOMAIN fields \cap ExtraKeys = {} THEN now.extra
  ELSE Over(Only(fields, ExtraKeys), read)

\* The columns after an update; read is the extra_json that finish_run saw
\* before its transaction.
Updated(now, read, fields) ==
  [status |-> Given(fields, "status", now.status),
   score |-> IF Given(fields, "evaluation", None) = None THEN now.score
             ELSE fields["evaluation"],
   error |-> Given(fields, "error", now.error),
   tokens |-> Given(fields, "usage", now.tokens),
   extra |-> KeptExtra(now, read, fields)]

FinishRun(db, r, read, fields) ==
  [db EXCEPT !.runs[r].now = Updated(@, read, fields)]

\* get_run: usage is that of extra_json, or else the columns.
GetRun(db, r) ==
  LET now == db.runs[r].now
  IN  [run |-> r, user |-> db.runs[r].user, conv |-> db.runs[r].conv,
       status |-> now.status, score |-> now.score, error |-> now.error,
       usage |-> Given(now.extra, "usage", now.tokens),
       error_class |-> Given(now.extra, "error_class", None),
       interruptions |-> Given(now.extra, "interruptions", {}),
       events |-> db.events[r]]

\* list_runs: the summaries, of one user or of all.
ListRuns(db, u) ==
  [r \in {r \in DOMAIN db.runs : u = None \/ db.runs[r].user = u} |->
     [status |-> db.runs[r].now.status, score |-> db.runs[r].now.score]]

-----------------------------------------------------------------------------
(* Events and the transcript *)

BlockTypes == {"episode.reset", "turn.text", "tool.call", "tool.result"}

\* mutant: results are put into the assistant's message.
Role_Flat(e) == IF e.type = "episode.reset" THEN "user" ELSE "assistant"

\* _project: the task and the results of calls are the user's, as they were
\* when the model saw them.
Role(e) == IF e.type \in {"episode.reset", "tool.result"} THEN "user" ELSE "assistant"
StepOf(e) == IF e.type = "episode.reset" THEN NoStep ELSE e.step
Block(e) == [type |-> e.type, use |-> e.use]

\* _message and _block: the block goes to the run's message of its role and
\* step; a message that is not there is added at the conversation's end.
PutBlock(messages, r, e) ==
  LET mine == {i \in DOMAIN messages : /\ messages[i].run = r
                                       /\ messages[i].role = Role(e)
                                       /\ messages[i].step = StepOf(e)}
  IN  IF mine # {}
        THEN [messages EXCEPT ![CHOOSE i \in mine : TRUE].blocks = Append(@, Block(e))]
        ELSE Append(messages, [run |-> r, role |-> Role(e), step |-> StepOf(e),
                               blocks |-> <<Block(e)>>])

ProjectMessages(messages, r, e) ==
  IF e.type \in BlockTypes THEN PutBlock(messages, r, e) ELSE messages

\* _project, the run's row.
ProjectColumns(now, e) ==
  CASE e.type = "run.started" -> [now EXCEPT !.status = "running"]
    [] e.type = "llm.call" -> [now EXCEPT !.tokens = @ + e.tokens]
    [] e.type = "episode.evaluated" -> [now EXCEPT !.score = e.score]
    [] e.type = "run.finished" ->
         [now EXCEPT !.status = e.status, !.error = e.error, !.tokens = e.tokens,
                     !.extra = With(@, "usage", e.tokens)]
    [] OTHER -> now

\* mutant: an event that is stored already is projected again.
StoreEvent_Again(s, r, e) ==
  [events |-> IF e.id \in DOMAIN s.events THEN s.events ELSE With(s.events, e.id, e),
   now |-> ProjectColumns(s.now, e),
   messages |-> ProjectMessages(s.messages, r, e)]

\* INSERT OR IGNORE on (run_id, seq), then _project, but only of what was not there:
\* s is the run's events, its row and its conversation's messages.
StoreEvent(s, r, e) ==
  IF e.id \in DOMAIN s.events THEN s
  ELSE [events |-> With(s.events, e.id, e),
        now |-> ProjectColumns(s.now, e),
        messages |-> ProjectMessages(s.messages, r, e)]

StoreAll(s, r, batch) == FoldLeft(LAMBDA x, e : StoreEvent(x, r, e), s, batch)

\* append_events, one transaction, event by event.
AppendEvents(db, r, batch) ==
  LET old == [events |-> db.events[r], now |-> db.runs[r].now,
              messages |-> db.messages[db.runs[r].conv]]
      new == StoreAll(old, r, batch)
  IN  [db EXCEPT !.events[r] = new.events,
                 !.runs[r].now = new.now,
                 !.messages[db.runs[r].conv] = new.messages]
=============================================================================
