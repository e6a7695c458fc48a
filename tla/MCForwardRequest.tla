------------------------- MODULE MCForwardRequest -------------------------
(* Two requests; one body is the redaction of the other.  The two have     *)
(* different previews: two of one preview would ask less of SentAsShown.   *)
EXTENDS ForwardRequest

CONSTANTS r1, r2, c1, c2, v1, v2

MCRedact == [c \in Contents |-> c2]
MCPreview == [c \in Contents |-> IF c = c1 THEN v1 ELSE v2]
===========================================================================
