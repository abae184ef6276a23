------------------------------ MODULE MCSignup -----------------------------
(* Model checking of Signup: its calls are interchangeable.                *)
EXTENDS Signup, TLC

CallSymmetry == Permutations(Calls)

============================================================================
