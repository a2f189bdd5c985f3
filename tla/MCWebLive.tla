------------------------------ MODULE MCWebLive -----------------------------
(* Instance of WebLive for TLC.  The streams and the page meet only in the *)
(* manager's snapshot, so they are explored one at a time: two changes at  *)
(* the venue with the streams and no page, which fill the stream's queue;  *)
(* and one change and one revaluation with a page and no streams, where    *)
(* only the interval refreshes.  Every queue holds one message.            *)
EXTENDS WebLive

MCScenarios ==
  {[streams |-> TRUE, page |-> FALSE, changes |-> 2, revalues |-> 0],
   [streams |-> FALSE, page |-> TRUE, changes |-> 1, revalues |-> 1]}
=============================================================================
