---------------------------- MODULE PagingProofs ----------------------------
(***************************************************************************)
(* The arithmetic of Paging for every total, page and size.  Offsets are   *)
(* those of integers that are wide enough; PagingChecks shows what happens *)
(* when they are not.                                                      *)
(***************************************************************************)
EXTENDS Paging, TLAPS

(* The two layers that clamp what a client asks for agree: the repository   *)
(* changes nothing of what the handler has bound, the service nothing of    *)
(* the hours the handler passes.                                            *)
THEOREM ClampingsAgreeAlways ==
  ASSUME NEW page \in Int, NEW size \in Int, NEW hours \in Int
  PROVE  LET bound == bindPage(page, size) IN
         /\ normalizePage(bound.page, bound.size) = bound
         /\ bound.page >= 1 /\ bound.size \in 1..MaxPageSize
         /\ ClampedWindow(WindowHours(hours)) = WindowHours(hours)
  BY DEF bindPage, normalizePage, MaxPageSize, DefaultPageSize, ClampedWindow, WindowHours

-----------------------------------------------------------------------------
(* What \div says of a quotient. *)
LEMMA Quotient ==
  ASSUME NEW n \in Nat, NEW d \in Nat \ {0}
  PROVE  /\ n \div d \in Nat
         /\ (n \div d) * d <= n
         /\ n < (n \div d) * d + d
  OBVIOUS

LEMMA ProductsGrow ==
  ASSUME NEW m \in Nat, NEW n \in Nat, NEW d \in Nat \ {0}, m < n
  PROVE  m * d + d <= n * d
<1>1. (m + 1) * d <= n * d
  OBVIOUS
<1>2. (m + 1) * d = m * d + d
  OBVIOUS
<1> QED BY <1>1, <1>2

(* An offset that fits is the rows of the pages before. *)
LEMMA OffsetFits ==
  ASSUME NEW page \in Nat \ {0}, NEW size \in Nat \ {0}, NEW half \in Nat,
         (page - 1) * size < half
  PROVE  Offset(page, size, half) = (page - 1) * size
<1> DEFINE n == (page - 1) * size
<1>1. n \in Nat /\ n < half
  OBVIOUS
<1>2. Wrapped(n, half) = n
  <2> HIDE DEF n
  <2> QED BY <1>1 DEF Wrapped
<1>3. ASSUME NEW w \in Nat PROVE (IF w < 1 THEN 0 ELSE w) = w
  OBVIOUS
<1>4. Offset(page, size, half) = IF n < 1 THEN 0 ELSE n
  BY <1>2, Zenon DEF Offset
<1> HIDE DEF n
<1>5. Offset(page, size, half) = n
  BY <1>1, <1>3, <1>4
<1> QED BY <1>5 DEF n

(* The pages of the footer are enough for the list, and none is too many. *)
LEMMA PagesFit ==
  ASSUME NEW total \in Nat \ {0}, NEW size \in Nat \ {0}
  PROVE  /\ Pages(total, size) \in Nat \ {0}
         /\ total <= Pages(total, size) * size
         /\ Pages(total, size) * size < total + size
<1> DEFINE last == (total + size - 1) \div size
<1>1. total + size - 1 \in Nat /\ Pages(total, size) = last
  BY DEF Pages
<1>2. last \in Nat /\ last * size <= total + size - 1 /\ total + size - 1 < last * size + size
  BY <1>1, Quotient
<1> HIDE DEF last
<1>3. last # 0
  BY <1>2
<1> QED BY <1>1, <1>2, <1>3

Exactly(total, page, size) == OnPage(page, size, (page - 1) * size) \cap (1..total)

LEMMA InsideAPage ==
  ASSUME NEW total, NEW page, NEW size, NEW before \in Nat, NEW i \in 1..total,
         before = (page - 1) * size, size \in Nat, before < i, i <= before + size
  PROVE  i \in Exactly(total, page, size)
<1>1. i \in (before + 1)..(before + size)
  OBVIOUS
<1>2. Exactly(total, page, size) = ((before + 1)..(before + size)) \cap (1..total)
  BY Zenon DEF Exactly, OnPage
<1> QED BY <1>1, <1>2

LEMMA ExactPagesCoverTheList ==
  ASSUME NEW total \in Nat \ {0}, NEW size \in Nat \ {0}
  PROVE  /\ \A i \in 1..total : \E page \in 1..Pages(total, size) : i \in Exactly(total, page, size)
         /\ \A p, q \in Nat \ {0} : p # q => Exactly(total, p, size) \cap Exactly(total, q, size) = {}
         /\ \A page \in 1..Pages(total, size) : Exactly(total, page, size) # {}
         /\ \A page \in Nat : page > Pages(total, size) => Exactly(total, page, size) = {}
<1> DEFINE last == Pages(total, size)
<1>1. last \in Nat \ {0} /\ total <= last * size /\ last * size < total + size
  BY PagesFit
<1> HIDE DEF last
<1>2. ASSUME NEW i \in 1..total PROVE \E page \in 1..last : i \in Exactly(total, page, size)
  <2> DEFINE before == (i - 1) \div size
  <2>1. before \in Nat /\ before * size <= i - 1 /\ i - 1 < before * size + size
    BY Quotient
  <2> HIDE DEF before
  <2>2. before < last
    <3> SUFFICES ASSUME last <= before PROVE FALSE
      BY <1>1, <2>1
    <3>1. last * size <= before * size
      BY <1>1, <2>1
    <3> QED BY <1>1, <2>1, <3>1
  <2>3. i \in Exactly(total, before + 1, size)
    <3>1. (before + 1 - 1) * size = before * size /\ before * size \in Nat
      BY <2>1
    <3>2. before * size < i /\ i <= before * size + size
      BY <2>1, <3>1
    <3> DEFINE rows == before * size
               page == before + 1
    <3>3. rows = (page - 1) * size /\ rows \in Nat /\ rows < i /\ i <= rows + size
      BY <2>1, <3>1, <3>2
    <3> HIDE DEF rows, page
    <3>4. i \in Exactly(total, page, size)
      BY <3>3, InsideAPage
    <3> QED BY <3>4, Zenon DEF page
  <2> QED BY <1>1, <2>1, <2>2, <2>3
<1>3. ASSUME NEW p \in Nat \ {0}, NEW q \in Nat \ {0}, p < q
      PROVE  Exactly(total, p, size) \cap Exactly(total, q, size) = {}
  <2> DEFINE m == (p - 1) * size
             n == (q - 1) * size
  <2>1. m \in Nat /\ n \in Nat
    OBVIOUS
  <2>2. m + size <= n
    <3>1. p - 1 \in Nat /\ q - 1 \in Nat /\ p - 1 < q - 1
      BY <1>3
    <3>2. (p - 1) * size + size <= (q - 1) * size
      BY <3>1, ProductsGrow
    <3> QED BY <3>2
  <2> HIDE DEF m, n
  <2>3. (m + 1)..(m + size) \cap (n + 1)..(n + size) = {}
    BY <2>1, <2>2
  <2> USE DEF m, n
  <2> QED BY <2>3 DEF Exactly, OnPage
<1>4. ASSUME NEW p \in Nat \ {0}, NEW q \in Nat \ {0}, p # q
      PROVE  Exactly(total, p, size) \cap Exactly(total, q, size) = {}
  BY <1>3, <1>4
<1>5. ASSUME NEW page \in 1..last PROVE Exactly(total, page, size) # {}
  <2> DEFINE n == (page - 1) * size
  <2>1. n \in Nat /\ n + size <= last * size
    <3>1. page - 1 \in Nat /\ page - 1 < last
      BY <1>1
    <3> QED BY <1>1, <3>1, ProductsGrow
  <2> HIDE DEF n
  <2>2. n + 1 \in (n + 1)..(n + size) /\ n + 1 \in 1..total
    BY <1>1, <2>1
  <2> USE DEF n
  <2> QED BY <2>2 DEF Exactly, OnPage
<1>6. ASSUME NEW page \in Nat, page > last PROVE Exactly(total, page, size) = {}
  <2> DEFINE n == (page - 1) * size
  <2>1. n \in Nat /\ total <= n
    <3>1. page - 1 \in Nat /\ last <= page - 1
      BY <1>1, <1>6
    <3>2. last * size <= (page - 1) * size
      BY <1>1, <3>1
    <3> QED BY <1>1, <3>1, <3>2
  <2> HIDE DEF n
  <2>2. (n + 1)..(n + size) \cap (1..total) = {}
    BY <2>1
  <2> USE DEF n
  <2> QED BY <2>2 DEF Exactly, OnPage
<1> QED BY <1>2, <1>4, <1>5, <1>6 DEF last

(* The rows the database returns for a page of a list of this total. *)
Shown(total, page, size, half) ==
  OnPage(page, size, Offset(page, size, half)) \cap (1..total)

(* The pages the footer offers show each row of a list exactly once, and none  *)
(* of them is empty; a page behind them is, as long as its offset fits.  So it *)
(* is for any total an integer can hold, and any size.                         *)
THEOREM PagesCoverTheList ==
  ASSUME NEW total \in Nat \ {0}, NEW size \in Nat \ {0}, NEW half \in Nat, total <= half
  PROVE  LET OnScreen(page) == Shown(total, page, size, half)
             offered == 1..Pages(total, size) IN
         /\ \A i \in 1..total : \E page \in offered : i \in OnScreen(page)
         /\ \A p, q \in offered : p # q => OnScreen(p) \cap OnScreen(q) = {}
         /\ \A page \in offered : OnScreen(page) # {}
         /\ \A page \in Nat \ offered :
              page > 0 /\ (page - 1) * size < half => OnScreen(page) = {}
<1> DEFINE last == Pages(total, size)
<1>1. last \in Nat \ {0} /\ last * size < total + size
  BY PagesFit
<1> HIDE DEF last
<1>2. ASSUME NEW page \in Nat \ {0}, (page - 1) * size < half
      PROVE  Shown(total, page, size, half) = Exactly(total, page, size)
  BY <1>2, OffsetFits DEF Shown, Exactly
<1>3. ASSUME NEW page \in 1..last PROVE (page - 1) * size < half
  <2>1. page - 1 \in Nat /\ page - 1 < last
    BY <1>1
  <2>2. (page - 1) * size + size <= last * size
    BY <1>1, <2>1, ProductsGrow
  <2>3. (page - 1) * size \in Nat /\ last * size \in Nat
    BY <1>1, <2>1
  <2> QED BY <1>1, <2>2, <2>3
<1>4. \A page \in 1..last : Shown(total, page, size, half) = Exactly(total, page, size)
  BY <1>1, <1>2, <1>3
<1>5. /\ \A i \in 1..total : \E page \in 1..last : i \in Exactly(total, page, size)
      /\ \A p, q \in Nat \ {0} :
           p # q => Exactly(total, p, size) \cap Exactly(total, q, size) = {}
      /\ \A page \in 1..last : Exactly(total, page, size) # {}
      /\ \A page \in Nat : page > last => Exactly(total, page, size) = {}
  BY ExactPagesCoverTheList, Zenon DEF last
<1>6. ASSUME NEW i \in 1..total
      PROVE  \E page \in 1..last : i \in Shown(total, page, size, half)
  <2>1. PICK page \in 1..last : i \in Exactly(total, page, size)
    BY <1>5, Zenon
  <2> QED BY <1>4, <2>1, Zenon
<1>7. \A p, q \in 1..last :
        p # q => Shown(total, p, size, half) \cap Shown(total, q, size, half) = {}
  <2>1. 1..last \subseteq Nat \ {0}
    BY <1>1
  <2> QED BY <1>4, <1>5, <2>1, Zenon
<1>8. \A page \in 1..last : Shown(total, page, size, half) # {}
  BY <1>4, <1>5, Zenon
<1>9. ASSUME NEW page \in Nat \ (1..last), page > 0, (page - 1) * size < half
      PROVE  Shown(total, page, size, half) = {}
  <2>1. page \in Nat \ {0} /\ page > last
    BY <1>1, <1>9
  <2> QED BY <1>2, <1>5, <1>9, <2>1
<1> QED BY <1>6, <1>7, <1>8, <1>9, Zenon DEF last
=============================================================================
