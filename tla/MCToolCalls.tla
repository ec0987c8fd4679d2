---------------------------- MODULE MCToolCalls ----------------------------
EXTENDS ToolCalls

MCFiles == {Config, Readme, Limits, Changelog, Version}

ReadFile(p) == [tool |-> "read_file", verb |-> "none", path |-> p]
ListDir(p) == [tool |-> "list_dir", verb |-> "none", path |-> p]
WriteFile(p, verb) == [tool |-> "write_file", verb |-> verb, path |-> p]
Shell(verb, p) == [tool |-> "run_command", verb |-> verb, path |-> p]

Planted == WriteFile(EvalFile, "overwrite")

\* Typed and shell calls on every kind of path: removed at reset, hidden, denied,
\* lost, outside of the workspace, below a file, planted where the hidden tests go.
MCMenu ==
  [missing_config |-> {ReadFile(Readme), ListDir(Root), Shell("ls", Root), Shell("cat", Config),
                       ReadFile(Config), WriteFile(Config, "overwrite"), WriteFile(Readme, "append")},
   locked_file |-> {Shell("append", Limits), WriteFile(Limits, "overwrite"), ReadFile(Limits),
                    Shell("pytest", Root), WriteFile(Outside, "append"), Planted},
   gauntlet |-> {Shell("append", Limits), WriteFile(Changelog, "append"), WriteFile(Limits, "overwrite"),
                 ReadFile(Changelog), ReadFile(Config), Shell("ls", Root)},
   worker_crash |-> {WriteFile(Changelog, "append"), ReadFile(Changelog), Shell("cat", Changelog),
                     WriteFile(Version, "overwrite"), ListDir(Config), ReadFile(Below)},
   lost_ack |-> {WriteFile(Changelog, "append"), ReadFile(Changelog), Shell("append", Changelog),
                 Shell("script", Root), WriteFile(Version, "overwrite"), Planted}]
=============================================================================
