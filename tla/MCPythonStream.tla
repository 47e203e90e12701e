--------------------------- MODULE MCPythonStream ---------------------------
(* Two Python threads and one worker of the runtime share one stream.      *)
EXTENDS PythonStream

CONSTANTS main, other, worker

MCCallers == {main, other}
MCWorkers == {worker}

=============================================================================
