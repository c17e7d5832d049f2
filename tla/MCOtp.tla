-------------------------------- MODULE MCOtp --------------------------------
(* A small instance of Otp for TLC.                                        *)
EXTENDS Otp, TLC

MCLimit == [b \in {"request", "verify"} |-> 2]

Symmetry == Permutations(Requests)
=============================================================================
