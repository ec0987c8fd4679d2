--------------------------- MODULE MCStoreClients ---------------------------
EXTENDS StoreClients

Plain(i, type, step, use) ==
  [id |-> i, type |-> type, step |-> step, use |-> use, gone |-> FALSE,
   tokens |-> 0, score |-> None, status |-> None, error |-> None]

Finished(i, error, tokens) ==
  [Plain(i, "run.finished", 0, None) EXCEPT !.status = "ok", !.error = error,
                                            !.tokens = tokens]

\* A live run: one turn without a tool call and a grade.
LiveLog ==
  << Plain(0, "run.started", 0, None), Plain(1, "turn.text", 1, None),
     [Plain(2, "episode.evaluated", 1, None) EXCEPT !.score = "full"],
     Finished(3, None, 1) >>

\* An old run that lost its sandbox and that nobody could grade, and one that
\* ended well.
LostLog ==
  << Plain(0, "run.started", 0, None), Plain(1, "episode.reset", 0, None),
     Plain(2, "turn.text", 1, None), Plain(3, "tool.call", 1, "t1"),
     [Plain(4, "tool.result", 1, "t1") EXCEPT !.gone = TRUE],
     Finished(5, "evaluate", 1) >>

GradedLog ==
  << Plain(0, "run.started", 0, None),
     [Plain(1, "episode.evaluated", 0, None) EXCEPT !.score = "full"],
     Finished(2, None, 1) >>

MCLog == [r1 |-> LiveLog, lost |-> LostLog, graded |-> GradedLog]

MCLegacy ==
  [lost |-> [status |-> "ok", error |-> "evaluate", score |-> None, evaluation |-> None, usage |-> 1],
   graded |-> [status |-> "ok", error |-> None, score |-> "full", evaluation |-> "full", usage |-> 1]]
=============================================================================
