------------------------------- MODULE MCLedger -------------------------------
(* Instances of PaperLedger: a few commands in each world, fewer where shells *)
(* run side by side.                                                          *)
EXTENDS PaperLedger, TLC

MCCommands == [alone |-> 5, child |-> 4, any |-> 2]

\* Shells and tickers are interchangeable (every ticker is allowed).
Symmetry == Permutations(Shells) \cup Permutations(Tickers)

===============================================================================
