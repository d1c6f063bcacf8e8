------------------------------ MODULE MCFsServer ------------------------------
EXTENDS FsServer

\* A new file, for writing; a file that exists, truncated, for both.
SomeModes == {[acc |-> "wronly", creat |-> TRUE, excl |-> TRUE, trunc |-> FALSE],
              [acc |-> "rdwr", creat |-> FALSE, excl |-> FALSE, trunc |-> TRUE]}
===============================================================================
