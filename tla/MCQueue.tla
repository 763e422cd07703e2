------------------------------ MODULE MCQueue ------------------------------
(* Small instances of Queue. *)
EXTENDS Queue, TLC

(* loadConfig does not reject a negative max_active_connections. *)
LimitsWithNegative == {-1, 0, 2}

(* On duplicate-free slices `Without' is the filter loop of                *)
(* releaseFromHandle.                                                      *)
Slices == UNION {{s \in [1..n -> Handle] : \A i, j \in 1..n : s[i] = s[j] => i = j} :
                   n \in 0..Cardinality(Handle)}
ASSUME WithoutIsFilter ==
  \A s \in Slices, h \in Handle : Without(s, h) = SelectSeq(s, LAMBDA x : x # h)
=============================================================================
