-------------------------- MODULE MCChannelIngress --------------------------
(* Model-checking instances of ChannelIngress: two events of one message and *)
(* one of another; the first and the last carry the same attachment.         *)
EXTENDS ChannelIngress, TLC

CONSTANTS e1, e2, e3, m1, m2, b1

MCMessageOf == (e1 :> m1) @@ (e2 :> m1) @@ (e3 :> m2)
MCBlobsOf   == (e1 :> {b1}) @@ (e2 :> {}) @@ (e3 :> {b1})

ConnSymmetry == Permutations(Conn)
=============================================================================
