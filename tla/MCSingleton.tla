---------------------------- MODULE MCSingleton ----------------------------
(* Instances of Singleton for TLC: two types, one of which may fail to     *)
(* construct, and a table with room for both.                              *)
EXTENDS Singleton, TLC

CONSTANTS t1, t2, t3, a, b

TwoThreads   == {t1, t2}
ThreeThreads == {t1, t2, t3}
OneCloser    == {t1}
TwoClasses   == {a, b}
OneFails     == {b}
NoneFails    == {}
=============================================================================
