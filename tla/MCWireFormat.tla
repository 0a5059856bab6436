---------------------------- MODULE MCWireFormat ----------------------------
(* WireFormat with the sizes of the code, and all sizes around the limit.   *)
EXTENDS WireFormat

AroundLimit == 0..20 \union 980..1060
=============================================================================
