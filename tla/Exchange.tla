------------------------------ MODULE Exchange ------------------------------
(***************************************************************************)
(* Binance's side of one order book, as backend/app/ingestion uses it:     *)
(* every change of a price level carries the next update id, a REST depth  *)
(* snapshot shows the book after some id, and a depth event reports the    *)
(* absolute quantities of the levels the ids first..final touched.         *)
(*                                                                         *)
(* The two sides of a book are handled alike everywhere in the code, so    *)
(* one side is enough: level 1 is the best price, Depth the deepest.       *)
(* Quantity 0 is a price that is not in the book.                          *)
(***************************************************************************)
EXTENDS Naturals, Sequences

CONSTANTS
  Depth,       \* price levels of the modelled side
  Qty,         \* the quantities a level can have
  MaxUpdates   \* bounds the number of updates the exchange makes

ASSUME DepthAssumption == Depth \in Nat \ {0}
ASSUME QtyAssumption == Qty \subseteq Nat /\ 0 \in Qty
ASSUME MaxUpdatesAssumption == MaxUpdates \in Nat

VARIABLES
  log,         \* log[i]: the level that update i touched
  books        \* books[i + 1]: the book after update i

exchangeVars == <<log, books>>

Levels == 1..Depth
Book == [Levels -> Qty]
EmptyBook == [l \in Levels |-> 0]

UpdateId == 0..Len(log)
BookAt(id) == books[id + 1]

(***************************************************************************)
(* The levels an event for the ids first..final carries, and the event.    *)
(***************************************************************************)
Touched(first, final) == {log[i] : i \in first..final}
DepthEvent == [first : Nat, final : Nat]
IsEvent(d) == d \in DepthEvent /\ 1 <= d.first /\ d.first <= d.final /\ d.final <= Len(log)

ExchangeInit ==
  /\ log = <<>>
  /\ \E b \in Book : books = <<b>>

(* The matching engine changes the quantity of one level.                  *)
Update(l, q) ==
  /\ Len(log) < MaxUpdates
  /\ q # BookAt(Len(log))[l]
  /\ log' = Append(log, l)
  /\ books' = Append(books, [BookAt(Len(log)) EXCEPT ![l] = q])

(***************************************************************************)
(* The history is coherent: there is one book per id, and a level that no  *)
(* update of from+1..to touched is the same in the books at both ends.     *)
(***************************************************************************)
ExchangeOK ==
  /\ log \in Seq(Levels)
  /\ books \in Seq(Book)
  /\ Len(books) = Len(log) + 1

Untouched ==
  \A from, to \in UpdateId : \A l \in Levels :
    (from <= to /\ l \notin Touched(from + 1, to)) => BookAt(to)[l] = BookAt(from)[l]
=============================================================================
