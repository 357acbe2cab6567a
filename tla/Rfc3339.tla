------------------------------- MODULE Rfc3339 -------------------------------
(***************************************************************************)
(* Times stored as RFC 3339 texts with nanoseconds, which SQLite compares  *)
(* as texts: time.RFC3339Nano drops the trailing zeros of the fraction, so *)
(* that within one second "00.5Z" sorts before "00Z".  Times are counted   *)
(* in half seconds.                                                        *)
(***************************************************************************)
EXTENDS Integers

Second(t) == t \div 2

\* a sorts before b as text: by seconds, and a fraction before none.
TextBefore(a, b) ==
  \/ Second(a) < Second(b)
  \/ Second(a) = Second(b) /\ a % 2 = 1 /\ b % 2 = 0

===============================================================================
