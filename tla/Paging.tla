------------------------------- MODULE Paging -------------------------------
(***************************************************************************)
(* The arithmetic of paged lists: what the handlers make of the page and   *)
(* size a client asks for, which rows the database skips, and how many     *)
(* pages the footer of a list offers.                                      *)
(***************************************************************************)
EXTENDS Integers

DefaultPageSize == 20
MaxPageSize == 100

(* The handler: a size out of range becomes the default. *)
bindPage(page, size) ==
  [page |-> IF page < 1 THEN 1 ELSE page,
   size |-> IF size < 1 \/ size > MaxPageSize THEN DefaultPageSize ELSE size]

(* The repository, once more: a size too large becomes the largest. *)
normalizePage(page, size) ==
  [page |-> IF page < 1 THEN 1 ELSE page,
   size |-> IF size < 1 THEN DefaultPageSize
            ELSE IF size > MaxPageSize THEN MaxPageSize ELSE size]

(* The limit of an entity's history. *)
NormalizedLimit(limit) ==
  IF limit < 1 THEN 20 ELSE IF limit > 100 THEN 100 ELSE limit

(* The hours an audit summary looks back; the service clamps once more. *)
WindowHours(hours) ==
  IF hours < 1 THEN 24 ELSE IF hours > 24 * 90 THEN 24 * 90 ELSE hours

ClampedWindow(hours) ==
  IF hours < 1 THEN 24 ELSE IF hours > 90 * 24 THEN 90 * 24 ELSE hours

(* Signed integers of a width given by half, 2^63 in the build. *)
Wrapped(n, half) == ((n + half) % (2 * half)) - half

(* OFFSET of a page.  gorm leaves an offset below one out of the query. *)
Offset(page, size, half) ==
  LET n == Wrapped((page - 1) * size, half) IN IF n < 1 THEN 0 ELSE n

(* Positions, counted from 1, of the rows on a page. *)
OnPage(page, size, offset) == (offset + 1)..(offset + size)

(* Pages the footer offers. *)
Pages(total, size) ==
  IF total = 0 THEN 1 ELSE (total + size - 1) \div size
=============================================================================
