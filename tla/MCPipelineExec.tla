--------------------------- MODULE MCPipelineExec ---------------------------
(* Instances of PipelineExec for model checking: the group structures.     *)
EXTENDS PipelineExec

Flat == <<>>
SequentialGroups == <<[mode |-> "sequential", first |-> 1, last |-> 2],
                      [mode |-> "sequential", first |-> 3, last |-> 3]>>
ParallelSecond == <<[mode |-> "sequential", first |-> 1, last |-> 1],
                    [mode |-> "parallel", first |-> 2, last |-> 3]>>
=============================================================================
