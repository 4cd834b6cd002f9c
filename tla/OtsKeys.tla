------------------------------ MODULE OtsKeys ------------------------------
(* The one-time keys of an address (PaginatedBitfield and                   *)
(* ChainManager.get_unused_ots_index).  A key is a number below the key     *)
(* count of the address; its bit is in a page, and in a byte of that page.  *)
(* The bits of all pages together are a set of numbers here, and where the  *)
(* code computes a page or a byte from a number, so do the definitions.     *)
EXTENDS Integers, FiniteSetsExt

CONSTANTS
  KeysPerPage,  \* ots_tracking_per_page, 8192
  KeysPerByte   \* 8

ASSUME PageAssumption ==
  /\ KeysPerByte \in Nat \ {0}
  /\ \E bytes \in 1 .. KeysPerPage : KeysPerPage = bytes * KeysPerByte

(* bits: the keys used; count: used_ots_key_count; full:                    *)
(* ots_bitfield_used_page, the last of the pages without a free key.        *)
NoKeys == [bits |-> {}, count |-> 0, full |-> 0]

Page(k) == (k \div KeysPerPage) + 1

(* Of an address with n keys.                                              *)
Pages(n) == (n + KeysPerPage - 1) \div KeysPerPage

KeysOf_WholePage(p, n) == (p - 1) * KeysPerPage .. p * KeysPerPage - 1

KeysOf(p, n) == {k \in (p - 1) * KeysPerPage .. p * KeysPerPage - 1 : k < n}

(* update_used_page_in_address_state, after a key of page p was set.       *)
UsedPage(b, p, n) ==
  IF b.full # p - 1 THEN b.full
  ELSE Max({p - 1} \cup {m \in p .. Pages(n) : \A q \in p .. m : KeysOf(q, n) \subseteq b.bits})

SetKey(b, k, n) ==
  LET set == [b EXCEPT !.bits = @ \cup {k}, !.count = @ + 1]
  IN  [set EXCEPT !.full = UsedPage(set, Page(k), n)]

UnsetKey_KeepsPage(b, k) == [b EXCEPT !.bits = @ \ {k}, !.count = @ - 1]

UnsetKey(b, k) ==
  [b EXCEPT !.bits = @ \ {k},
            !.count = @ - 1,
            !.full = IF @ >= Page(k) THEN Page(k) - 1 ELSE @]

(* ots_key_reuse looks for the byte of k, counted from the first page, in   *)
(* the page of k: on a later page there is no such byte and it raises.      *)
Readable(k) == k < KeysPerPage
KeyFree(b, k)  == Readable(k) /\ k \notin b.bits
KeyTaken(b, k) == Readable(k) /\ k \in b.bits

-----------------------------------------------------------------------------
(* get_unused_ots_index, of an address with n keys.                        *)

NoKey  == -1
Raises == -2

(* Byte i of the search is the byte i % KeysPerPage of a page, although a   *)
(* page has KeysPerPage \div KeysPerByte bytes.                             *)
BeyondPage(i) == i % KeysPerPage >= KeysPerPage \div KeysPerByte

FreeInByte(b, i, start) ==
  LET first == KeysPerByte * (i % KeysPerPage) + (i \div KeysPerPage) * KeysPerPage
  IN  {k \in first .. first + KeysPerByte - 1 : k \notin b.bits /\ k >= start}

FirstByte(b, start) ==
  (Max({b.full, start \div KeysPerPage}) * KeysPerPage) \div KeysPerByte

FindUnused(b, n, start) ==
  LET bytes == FirstByte(b, start) .. (n \div KeysPerByte) - 1
      stops == {i \in bytes : BeyondPage(i) \/ FreeInByte(b, i, start) # {}}
  IN  IF b.full = Pages(n) \/ stops = {} THEN NoKey
      ELSE IF BeyondPage(Min(stops)) THEN Raises
      ELSE Min(FreeInByte(b, Min(stops), start))

=============================================================================
