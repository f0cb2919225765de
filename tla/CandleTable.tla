---------------------------- MODULE CandleTable -----------------------------
(***************************************************************************)
(* What the candle table promises to those who read it: a candle is final  *)
(* when it is stored, and stays.  It does not promise an order: back-fills *)
(* close gaps behind candles that came live.                               *)
(***************************************************************************)
EXTENDS Integers

VARIABLES closed, stored   \* the candles closed so far: 0..closed-1; those stored

TableInit == closed = 0 /\ stored = {}

CandleCloses == closed' = closed + 1 /\ UNCHANGED stored

Stores(candles) ==
  /\ candles \subseteq 0..closed - 1
  /\ stored' = stored \cup candles
  /\ UNCHANGED closed

TableNext == CandleCloses \/ \E candles \in SUBSET (0..closed - 1) : Stores(candles)

TableSpec == TableInit /\ [][TableNext]_<<closed, stored>>

=============================================================================
