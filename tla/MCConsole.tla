------------------------------- MODULE MCConsole -------------------------------
EXTENDS Console

\* Characters that have been read, and cells of the ring that have been, no longer
\* matter, nor does how often the keyboard was hit in what order.
Shape == <<kq, sq, shift, Ring, crt_buf, crt_pos, pc, who, line, lines, strokes, held, caps, overrun,
           Waiting, InputIsStream>>
===============================================================================
