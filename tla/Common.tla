------------------------------- MODULE Common -------------------------------
(***************************************************************************)
(* Arithmetic that the kernel's components share (common.h).               *)
(***************************************************************************)
EXTENDS Integers

ROUNDDOWN(a, n) == a - (a % n)
ROUNDUP(a, n) == ROUNDDOWN(a + n - 1, n)
DIV_ROUNDUP(x, r) == (x + r - 1) \div r

\* 1 << n
Pow2[n \in Nat] == IF n = 0 THEN 1 ELSE 2 * Pow2[n - 1]
=============================================================================
