----------------------------- MODULE MCMockWorker -----------------------------
(* Two calls, a queue of one, failures injected or not, and a cache that holds *)
(* one long prefix or two short ones: the queue overflows, and prefixes are   *)
(* evicted for their number alone, for their tokens alone and for both.      *)
EXTENDS MockWorker

SmallRequest == [work |-> 1, outputs |-> 1, prefixes |-> <<"a", "b">>]
LargeRequest == [work |-> 2, outputs |-> 3, prefixes |-> <<"d", "c">>]
BothRequests == {SmallRequest, LargeRequest}
PrefixLengths == [p \in {"a", "b", "c", "d"} |-> IF p = "c" THEN 3 ELSE 1]
=============================================================================
