------------------------------- MODULE MCPipe -------------------------------
\* The environment that made the pipe writes, its child reads.
EXTENDS Pipe
=============================================================================
