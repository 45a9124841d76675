------------------------------ MODULE MCShims ------------------------------
(* An instance of Shims for TLC: size_t of 16 values, int of 8.            *)
EXTENDS Shims

\* Small, at the threshold, a product that wraps to 0 and one to a large size.
FewRequests == {<<1, 1>>, <<1, 2>>, <<2, 1>>, <<4, 4>>, <<6, 3>>}
=============================================================================
