------------------------------ MODULE MCLogin ------------------------------
(* Login with two regions, two values of the cookie and one user.          *)
EXTENDS Login
=============================================================================
