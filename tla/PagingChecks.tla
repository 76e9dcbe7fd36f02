---------------------------- MODULE PagingChecks ----------------------------
(***************************************************************************)
(* The arithmetic of Paging against what a list should be, over bounded    *)
(* inputs and with narrow integers.  PagingProofs has the general facts;   *)
(* what happens when an offset no longer fits into an integer is only      *)
(* checked here.                                                           *)
(***************************************************************************)
EXTENDS Paging

Half == 64  \* integers of seven bits: from -64 to 63

Totals == 0..9
Sizes == 1..4

(* Each row of a list is on exactly one of the pages the footer offers, and *)
(* unless the list is empty no page is.                                     *)
ASSUME PagesPartitionTheList ==
  \A total \in Totals, size \in Sizes :
    LET Shown(page) == OnPage(page, size, Offset(page, size, Half)) \cap (1..total) IN
    /\ UNION {Shown(page) : page \in 1..Pages(total, size)} = 1..total
    /\ \A p, q \in 1..Pages(total, size) : p # q => Shown(p) \cap Shown(q) = {}
    /\ total > 0 => \A page \in 1..Pages(total, size) : Shown(page) # {}

(* A page behind the last one is empty as long as its offset fits. *)
ASSUME PagesBehindTheLastAreEmpty ==
  \A total \in Totals, size \in Sizes, page \in 1..(Half - 1) :
    page > Pages(total, size) /\ (page - 1) * size < Half =>
      OnPage(page, size, Offset(page, size, Half)) \cap (1..total) = {}

(* An offset that does not fit shows rows on a page that should be empty:  *)
(* either it wraps around to the first page or into the list.              *)
ASSUME HugePagesWrapAround ==
  \E total \in Totals, size \in Sizes, page \in 1..(Half - 1) :
    /\ page > Pages(total, size)
    /\ OnPage(page, size, Offset(page, size, Half)) \cap (1..total) # {}

(* What the handler binds passes the clamping of the repository unchanged, *)
(* so the page and size an answer names are the ones it was listed by.     *)
ASSUME ClampingsAgree ==
  \A page \in -2..3, size \in -2..130 :
    LET bound == bindPage(page, size) IN normalizePage(bound.page, bound.size) = bound
=============================================================================
