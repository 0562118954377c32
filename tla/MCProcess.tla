----------------------------- MODULE MCProcess -----------------------------
(* Small instances of Process for TLC: two command lines that are good, and *)
(* others that are wrong in one place each.                                 *)
EXTENDS Process

ToFile == [url |-> "uri", output |-> "File", path |-> TRUE,
           limit |-> 2, initial |-> 1, max |-> 2]
ToStdout == [url |-> "uri", output |-> "Stdout", path |-> FALSE,
             limit |-> 1, initial |-> 1, max |-> 1]
MCConfigs ==
    {ToFile, ToStdout,
     [ToFile EXCEPT !.url = "libpq"], [ToFile EXCEPT !.path = FALSE],
     [ToFile EXCEPT !.initial = 3], [ToFile EXCEPT !.initial = 0],
     [ToFile EXCEPT !.max = 0], [ToFile EXCEPT !.limit = 0],
     [ToFile EXCEPT !.limit = MaxLimit + 1]}
=============================================================================
