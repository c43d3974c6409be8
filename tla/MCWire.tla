------------------------------- MODULE MCWire -------------------------------
(***************************************************************************)
(* Wire for TLC: one value of each field besides the default, two bytes    *)
(* long if it is an id or a code (tag and value) and three otherwise (tag, *)
(* length, one byte); a head of two bytes.                                 *)
(***************************************************************************)
EXTENDS Wire

MCSizeOf(f, v) == IF f \in {"id", "returnCode"} THEN 2 ELSE 3
=============================================================================
