---------------------------- MODULE MCProofReview ----------------------------
(* Orders of a "Rating" deal, which asks for a rating and the return window *)
(* besides the purchase proof, or of a "Discount" deal, which asks for the  *)
(* return window only.                                                      *)
EXTENDS ProofReview, TLC
CONSTANTS o1, o2
Rating == {"rating", "returnWindow"}
Discount == {"returnWindow"}
AllHandlers == {"createOrder", "submitClaim", "verify", "reset", "forceApproveOrder",
                "cancelOrder"}
Symmetry == Permutations(Caller) \cup Permutations(Order)
=============================================================================
