---------------------------- MODULE PowersOfTwo ----------------------------
(***************************************************************************)
(* Powers of two as a function, and the bits of a number: for the backoff  *)
(* of the coordinator, which doubles an interval, and for the networks of  *)
(* scan targets, which are given by a prefix of so many bits.              *)
(***************************************************************************)
EXTENDS Naturals

PowerOfTwo[n \in Nat] == IF n = 0 THEN 1 ELSE 2 * PowerOfTwo[n - 1]

\* The i-th bit of a number, counted from the lowest.
Bit(a, i) == (a \div PowerOfTwo[i]) % 2
=============================================================================
