------------------------------ MODULE MapSpec ------------------------------
(***************************************************************************)
(* What ci_map.h promises: a map from keys to values with insert-or-       *)
(* replace, delete, clear.  dict[k] is NoVal when k is absent.  A set can  *)
(* fail for lack of memory, and then changes nothing.                      *)
(*                                                                         *)
(* call is the last call with its arguments, so that a step of a map that  *)
(* implements this one is the step of its own call, key and value.         *)
(***************************************************************************)
CONSTANTS Key, Val, NoVal

VARIABLES dict, call, ret

dvars == <<dict, call, ret>>

Empty == [k \in Key |-> NoVal]

DInit == dict = Empty /\ call = <<"other">> /\ ret = 1

DSet(k, v) ==
    /\ call' = <<"set", k, v>>
    /\ \/ dict' = [dict EXCEPT ![k] = v] /\ ret' = 1
       \/ UNCHANGED dict /\ ret' = 0

DDelete(k) ==
    /\ call' = <<"delete", k>>
    /\ dict' = [dict EXCEPT ![k] = NoVal]
    /\ ret' = IF dict[k] = NoVal THEN 0 ELSE 1

DClear == call' = <<"clear">> /\ dict' = Empty /\ ret' = 1

\* Growing the table and looking at it are not visible.
DOther == call' = <<"other">> /\ UNCHANGED dict /\ ret' = 1

DNext ==
    \/ \E k \in Key, v \in Val : DSet(k, v)
    \/ \E k \in Key : DDelete(k)
    \/ DClear \/ DOther

DSpec == DInit /\ [][DNext]_dvars
=============================================================================
