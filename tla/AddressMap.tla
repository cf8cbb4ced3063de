----------------------------- MODULE AddressMap -----------------------------
(***************************************************************************)
(* What the simulator expects of its virtual memory: a mapping of pages to *)
(* distinct frames that grows until memory is full and then gives the      *)
(* frame of some mapped page to the page that faults.  Which page has to   *)
(* leave is not part of what is expected.                                  *)
(***************************************************************************)
EXTENDS Translation

VARIABLE page_table

Init == page_table = << >>

Translate(page) == page_table' \in Grants(page_table, page)

Next == \E page \in Pages : Translate(page)

Spec == Init /\ [][Next]_page_table

=============================================================================
