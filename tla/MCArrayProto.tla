---------------------------- MODULE MCArrayProto ----------------------------
(* Operands: an empty array, a shifted one and a wrapped one.                *)
EXTENDS ArrayProto

CONSTANT e1

MCOperands ==
    LET Buf(x, y) == (0 :> x @@ 1 :> y)
        Arr(n, off, x, y) == [size |-> 2, length |-> n, offset |-> off,
                              data |-> Buf(x, y), small |-> FALSE]
    IN  {Arr(0, 0, Junk, Junk), Arr(1, 1, Junk, e1), Arr(2, 1, e1, NULL)}
=============================================================================
