----------------------------- MODULE MCFileSink -----------------------------
(* Small instances of FileSink for TLC.                                    *)
EXTENDS FileSink

\* A line that just fits the buffer together with its newline, and one that is as
\* long as the whole buffer.
ShortAndLong == <<1, 2>>
=============================================================================
