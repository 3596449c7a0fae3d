------------------------------- MODULE MCSendfile -------------------------------
(* Sendfile with small constants: limits below, at and above what there is *)
(* to send, an offset inside the file and one behind it.                   *)
EXTENDS Sendfile

C(o, n, h, t) == [offset |-> o, nbytes |-> n, headers |-> h, trailers |-> t]

MCCalls == { C(1, 0, 0, 0), C(1, 0, 2, 2), C(0, 4, 1, 1), C(1, 2, 2, 1),
             C(0, 3, 0, 2), C(-1, 0, 0, 0), C(9, 0, 1, 1), C(0, -1, 1, 1) }
MCFileSizes == {1, 3, 6}
================================================================================
