------------------------------ MODULE MCCiMap ------------------------------
(* Keys that fight for few home slots and share two or three preindex        *)
(* routes; a and x have the same content.  A key's value is the key itself,  *)
(* so that a mix-up shows; a and x can have each other's too.                *)
EXTENDS CiMap, TLC

CONSTANTS a, b, c, d, e, f, g, x

MCKeys == {a, b, c, d, e, f, g, x}
MCSame == [o \in MCKeys |-> IF o = x THEN a ELSE o]
MCVals == [o \in MCKeys |-> IF o \in {a, x} THEN {a, x} ELSE {o}]

(* A pointer map that grows from a small table and whose probes saturate,    *)
(* an identity map without deletions, and one with them.                     *)
Pointers ==
  [obj |-> {a, b, c, d, e, f}, ident |-> FALSE, min |-> 4, sizes |-> {4, 8}, span |-> 8, psl |-> 5,
   deletes |-> TRUE, replaces |-> FALSE,
   lo |-> (a :> 0) @@ (b :> 0) @@ (c :> 1) @@ (d :> 1) @@ (e :> 2) @@ (f :> 0),
   hi |-> (a :> 0) @@ (b :> 0) @@ (c :> 0) @@ (d :> 6) @@ (e :> 0) @@ (f :> 6)]
Identities ==
  [obj |-> MCKeys, ident |-> TRUE, min |-> 8, sizes |-> {8, 16}, span |-> 16, psl |-> 31,
   deletes |-> FALSE, replaces |-> TRUE,
   lo |-> (a :> 0) @@ (x :> 0) @@ (b :> 0) @@ (c :> 0) @@ (d :> 0) @@ (e :> 0) @@ (f :> 4) @@ (g :> 5),
   hi |-> (a :> 0) @@ (x :> 0) @@ (b :> 0) @@ (c :> 0) @@ (d :> 0) @@ (e :> 0) @@ (f :> 0) @@ (g :> 1)]
MCSetups == {Pointers, Identities}
MCLost == {[Pointers EXCEPT !.obj = {a, b, c, d}, !.ident = TRUE, !.min = 8, !.sizes = {8, 16}, !.span = 16, !.psl = 31, !.replaces = TRUE]}
=============================================================================
