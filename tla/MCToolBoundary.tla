--------------------------- MODULE MCToolBoundary ---------------------------
(***************************************************************************)
(* Tool calls for TLC: one of each kind the code tells apart.              *)
(***************************************************************************)
EXTENDS ToolBoundary

Plain ==
    [tool |-> "run_local_checks", conforms |-> TRUE, path |-> "relative",
     name |-> "status", content |-> "text", argv |-> "plain"]

Read(name) == [Plain EXCEPT !.tool = "read_file", !.name = name]
Patch(name, content) ==
    [Plain EXCEPT !.tool = "apply_patch", !.name = name, !.content = content]
Run(name, content) ==
    [Plain EXCEPT !.tool = "run_command", !.name = name, !.content = content]
Finalize == [Plain EXCEPT !.tool = "finalize_task"]

Accepted ==
    {Plain, Read("status"), Read("link"), Finalize,
     Patch("status", "done"), Patch("link", "done"), Patch("link", "text"),
     Patch("status", "undecodable"), Run("status", "done"),
     Run("status", "unreadable"), Run("link", "to_common"),
     Run("link", "to_outside"), Run("link", "absent")}

Rejected ==
    {[Finalize EXCEPT !.conforms = FALSE],
     [Read("status") EXCEPT !.path = "absolute"],
     [Run("status", "done") EXCEPT !.argv = "shell"]}

Fatal ==
    {[Plain EXCEPT !.tool = "unknown"],
     [Patch("status", "done") EXCEPT !.path = "parent"],
     [Run("status", "done") EXCEPT !.argv = "nul"]}

Malformed == [Plain EXCEPT !.tool = "malformed"]

\* One call, or two of which the first may fork, close or end the run.
MCBatches ==
    {<<call>> : call \in Accepted \cup Rejected \cup Fatal}
    \cup {<<first, second>> :
            first \in {Finalize, Patch("status", "done"), Run("link", "to_common"),
                       [Read("status") EXCEPT !.path = "absolute"]},
            second \in {Read("link"), Patch("link", "done"), Finalize,
                        Malformed}}
=============================================================================
