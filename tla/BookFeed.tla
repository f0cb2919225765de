------------------------------ MODULE BookFeed ------------------------------
(***************************************************************************)
(* What the order book service promises its readers: the book found under  *)
(* book:<SYMBOL> in Redis is always the exchange's own book at the update  *)
(* id it names, never a mixture of two moments or a book with an update    *)
(* missing.  It says nothing of how old that id is, and a reader may find  *)
(* no book at all.                                                         *)
(***************************************************************************)
EXTENDS Exchange

CONSTANT NoBook

VARIABLE view   \* what a reader of the key finds

feedVars == <<log, books, view>>

FeedInit == ExchangeInit /\ view = NoBook

(* known are the levels the service has learnt of; others are left out.    *)
Serve ==
  /\ \E id \in UpdateId : \E known \in SUBSET Levels :
       view' = [id |-> id,
                levels |-> [l \in Levels |-> IF l \in known THEN BookAt(id)[l] ELSE 0]]
  /\ UNCHANGED exchangeVars

Withdraw == view' = NoBook /\ UNCHANGED exchangeVars

FeedUpdate == \E l \in Levels, q \in Qty : Update(l, q) /\ UNCHANGED view

FeedNext == FeedUpdate \/ Serve \/ Withdraw

FeedSpec == FeedInit /\ [][FeedNext]_feedVars
=============================================================================
