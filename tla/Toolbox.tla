------------------------------ MODULE Toolbox ------------------------------
(***************************************************************************)
(* What one tool call does at the tool boundary and in the workspace, as   *)
(* operators: the classification of calls and the fault plan (faults.py),  *)
(* the file operations (workspace.py) and the ledger row with its          *)
(* provenance (mcp_tools.py _Step, provenance.py).                         *)
(*                                                                         *)
(* A workspace is a function from the files that exist to their contents;  *)
(* a content is how many times the entry the task asks for stands in it.   *)
(* A shell command is its verb and the path it names: "cat" reads, "ls"    *)
(* lists, "overwrite" and "append" redirect into the path, "pytest" and    *)
(* "script" name no path, and the script appends to Scripted.              *)
(***************************************************************************)
EXTENDS Integers, Sequences, FiniteSets, FiniteSetsExt, SequencesExt, Functions

CONSTANTS
  Files,         \* files of the workspace root
  EvalFile,      \* a file under .faultline_eval, a directory nothing lists
  Scripted       \* the file a script of the agent rewrites without naming it

Root == "."
Below == "CHANGELOG.md/x"     \* a path below a file that no scenario removes
Outside == "/etc/passwd"

ASSUME FilesAssumption ==
  /\ Scripted \in Files /\ EvalFile \notin Files
  /\ {Root, Below, Outside} \cap (Files \cup {EvalFile}) = {}

Paths == Files \cup {EvalFile, Root, Below}
Unlimited == -1

Call ==
  [tool : {"read_file", "list_dir"}, verb : {"none"}, path : Paths \cup {Outside}]
    \cup [tool : {"write_file"}, verb : {"overwrite", "append"}, path : Paths \cup {Outside}]
    \cup [tool : {"run_command"}, path : Paths,
          verb : {"cat", "ls", "overwrite", "append", "pytest", "script"}]

-----------------------------------------------------------------------------
(* Classification of calls *)

IsMutating(c) ==
  c.tool = "write_file" \/ (c.tool = "run_command" /\ c.verb \in {"overwrite", "append"})

IsListing(c) == c.tool = "list_dir" \/ (c.tool = "run_command" /\ c.verb = "ls")

IsRead(c) ==
  /\ ~IsMutating(c)
  /\ c.tool = "run_command" => c.verb \in {"cat", "ls", "pytest"}

Touches(p, c) ==
  c.path = p /\ ~(c.tool = "run_command" /\ c.verb \in {"pytest", "script"})

-----------------------------------------------------------------------------
(* The fault plan: a sequence of [kind, mode, path, hits] *)

Lifted(hits, i) == hits[i] # Unlimited /\ hits[i] <= 0
Sticky(f) == f.kind = "missing_file" /\ f.mode = "sticky"

\* mutant: a name stays hidden when its fault is lifted
HiddenPaths_Lifted(plan, hits) ==
  {plan[i].path : i \in {j \in DOMAIN plan : plan[j].kind = "missing_file" /\ ~Sticky(plan[j])}}

\* Names that listings leave out, to agree with the reads.
HiddenPaths(plan, hits) ==
  {plan[i].path : i \in {j \in DOMAIN plan : /\ plan[j].kind = "missing_file"
                                             /\ ~Sticky(plan[j]) /\ ~Lifted(hits, j)}}

\* A sticky missing_file is realised at reset, a listing of a vanished name is
\* filtered instead of refused, and write faults only bite writes.
Intercepts(f, c) ==
  /\ ~Sticky(f) /\ Touches(f.path, c)
  /\ f.kind = "missing_file" => ~IsListing(c)
  /\ f.kind # "missing_file" => IsMutating(c)

Biting(plan, hits, c) == {i \in DOMAIN plan : ~Lifted(hits, i) /\ Intercepts(plan[i], c)}

\* decide: at most one fault per call, in plan order; 0 is none.
Decide(plan, hits, c) ==
  IF Biting(plan, hits, c) = {} THEN 0 ELSE Min(Biting(plan, hits, c))

InitialHits(plan) == [i \in DOMAIN plan |-> plan[i].hits]

Consume(hits, i) ==
  IF i = 0 \/ hits[i] = Unlimited THEN hits ELSE [hits EXCEPT ![i] = Max({0, @ - 1})]

InjectedCode(kind) ==
  CASE kind = "missing_file" -> "ENOENT"
    [] kind = "denied_write" -> "EACCES"
    [] kind = "ack_lost" -> "ETIMEDOUT"

Fired(step, kind, path, mode) ==
  [step |-> step, kind |-> kind, path |-> path, mode |-> mode,
   origin |-> IF kind = "missing_file" /\ mode = "sticky" THEN "staged" ELSE "injected"]
NoFault == [step |-> 0, kind |-> "none", path |-> Root, mode |-> "none", origin |-> "none"]

-----------------------------------------------------------------------------
(* The workspace, seen through its helper script *)

Without(tree, fs) == Restrict(tree, DOMAIN tree \ fs)
Put(tree, f, content) == [g \in DOMAIN tree \cup {f} |-> IF g = f THEN content ELSE tree[g]]
Old(tree, f) == IF f \in DOMAIN tree THEN tree[f] ELSE 0

\* build_workspace_tar: the fixture and its overlays without the sticky files.
StickyRemoved(plan) == {plan[i].path : i \in {j \in DOMAIN plan : Sticky(plan[j])}}
WorkspaceTar(fixture, plan) == Without(fixture, StickyRemoved(plan))

\* what list_dir, ls and the baseline can see
Visible(tree) == Without(tree, {EvalFile})

\* Below a file the helper meets an OSError it has no answer for.
ReadKind(tree, p) ==
  CASE p = Root -> "dir"
    [] p = Below -> "error"
    [] p \in DOMAIN tree -> "file"
    [] OTHER -> "missing"

WriteKind(p) ==
  CASE p = Root -> "isdir"
    [] p = Below -> "error"
    [] OTHER -> "ok"

\* A write counts as one entry when it overwrites, as one more when it appends.
Written(tree, p, append) == Put(tree, p, IF append THEN Old(tree, p) + 1 ELSE 1)

ListKind(tree, p) ==
  CASE p = Root -> "ok"
    [] p \in DOMAIN tree -> "notdir"
    [] OTHER -> "missing"

Entries(tree, hidden) == DOMAIN Visible(tree) \ hidden

\* bash -lc: exit code and tree.
ShellExit(tree, c) ==
  CASE c.verb = "cat" -> IF ReadKind(tree, c.path) = "file" THEN 0 ELSE 1
    [] c.verb = "ls" -> IF ListKind(tree, c.path) = "missing" THEN 2 ELSE 0
    [] c.verb \in {"overwrite", "append"} -> IF c.path \in {Root, Below} THEN 1 ELSE 0
    [] OTHER -> 0

ShellTree(tree, c) ==
  CASE c.verb \in {"overwrite", "append"} /\ c.path \notin {Root, Below} ->
         Written(tree, c.path, c.verb = "append")
    [] c.verb = "script" -> Written(tree, Scripted, TRUE)
    [] OTHER -> tree

ShellEnoent(tree, c) == c.verb \in {"cat", "ls"} /\ ReadKind(tree, c.path) = "missing"

-----------------------------------------------------------------------------
(* What the sandbox makes of a call that is not refused: the new tree, the *)
(* error code or "none", the exit code (shell) and the names shown (listing) *)

Ran(tree, code, exit, shown) == [tree |-> tree, code |-> code, exit |-> exit, shown |-> shown]

ExecRead(tree, c) ==
  Ran(tree, CASE ReadKind(tree, c.path) = "missing" -> "ENOENT"
              [] ReadKind(tree, c.path) = "dir" -> "EINVAL"
              [] ReadKind(tree, c.path) = "error" -> "ESANDBOX"
              [] OTHER -> "none", 0, {})

ExecWrite(tree, c) ==
  CASE WriteKind(c.path) = "isdir" -> Ran(tree, "EINVAL", 0, {})
    [] WriteKind(c.path) = "error" -> Ran(tree, "ESANDBOX", 0, {})
    [] OTHER -> Ran(Written(tree, c.path, c.verb = "append"), "none", 0, {})

ExecList(tree, c, hidden) ==
  CASE ListKind(tree, c.path) = "missing" -> Ran(tree, "ENOENT", 0, {})
    [] ListKind(tree, c.path) = "notdir" -> Ran(tree, "EINVAL", 0, {})
    [] OTHER -> Ran(tree, "none", 0, Entries(tree, hidden))

ExecShell(tree, c, hidden) ==
  Ran(ShellTree(tree, c), "none", ShellExit(tree, c),
      IF c.verb = "ls" /\ c.path = Root THEN Entries(tree, hidden) ELSE {})

Exec(tree, c, hidden) ==
  CASE c.tool = "read_file" -> ExecRead(tree, c)
    [] c.tool = "write_file" -> ExecWrite(tree, c)
    [] c.tool = "list_dir" -> ExecList(tree, c, hidden)
    [] c.tool = "run_command" -> ExecShell(tree, c, hidden)

-----------------------------------------------------------------------------
(* The ledger row *)

StagedPaths(plan, c) == {p \in StickyRemoved(plan) : Touches(p, c)}

StagedReported(ledger, p) ==
  \E i \in DOMAIN ledger : ledger[i].fault.origin = "staged" /\ ledger[i].fault.path = p

\* record: i is the fault acted on, or 0; enoent is the code ENOENT of a failed
\* call or the shell's "No such file or directory".
RowFault(ep, c, i, enoent) ==
  IF i # 0 THEN Fired(ep.step, ep.plan[i].kind, ep.plan[i].path, ep.plan[i].mode)
  ELSE IF enoent /\ \E p \in StagedPaths(ep.plan, c) : ~StagedReported(ep.ledger, p)
    THEN Fired(ep.step, "missing_file",
               CHOOSE p \in StagedPaths(ep.plan, c) : TRUE, "sticky")
  ELSE NoFault

RowOrigin(ep, c, i, outcome, enoent) ==
  CASE i # 0 -> "injected"
    [] i = 0 /\ outcome = "ok" -> "none"
    [] i = 0 /\ outcome # "ok" /\ enoent /\ StagedPaths(ep.plan, c) # {} -> "staged"
    [] OTHER -> "real"

RowCode(ep, i, outcome, code) ==
  IF outcome = "ok" THEN "none"
  ELSE IF i # 0 /\ code = "none" THEN InjectedCode(ep.plan[i].kind) ELSE code

\* record: the row, the hit and the step of this call
Recorded(ep, n, c, i, outcome, code, exit, enoent) ==
  [ep EXCEPT
     !.hits = Consume(@, i),
     !.ledger = Append(@,
       [n |-> n, call |-> c, step |-> ep.step, mutating |-> IsMutating(c),
        fault |-> RowFault(ep, c, i, enoent), outcome |-> outcome, exit |-> exit,
        origin |-> RowOrigin(ep, c, i, outcome, enoent),
        code |-> RowCode(ep, i, outcome, code), interrupted |-> FALSE])]

-----------------------------------------------------------------------------
(* POST /episodes/{id}/interruptions *)

Matching(ledger, c) ==
  {i \in DOMAIN ledger : /\ ledger[i].call.tool = c.tool
                         /\ ledger[i].outcome \in {"ok", "ack_lost"}
                         /\ c.tool # "run_command" => Touches(c.path, ledger[i].call)}

\* A report of a shell command names neither command nor path.
Reported(c) ==
  IF c.tool = "run_command" THEN [c EXCEPT !.verb = "none", !.path = Root] ELSE c

Interrupted(ep, c, code) ==
  IF Matching(ep.ledger, c) # {}
    THEN [ep EXCEPT !.ledger[Max(Matching(ep.ledger, c))].interrupted = TRUE]
    ELSE [ep EXCEPT !.ledger = Append(@,
            [n |-> 0, call |-> Reported(c), step |-> ep.step,
             mutating |-> c.tool = "write_file",
             fault |-> NoFault, outcome |-> "error", exit |-> 0, origin |-> "real",
             code |-> code, interrupted |-> TRUE])]
=============================================================================
