---------------------------- MODULE Translation ----------------------------
(***************************************************************************)
(* The translation of virtual pages as an operator on page tables: what    *)
(* va_to_pa (main.cc) does to page_table, whichever frame it allocates.    *)
(* A table is a function whose domain is the set of mapped pages.          *)
(***************************************************************************)
EXTENDS Integers, FiniteSets

CONSTANTS
  Pages,      \* virtual page numbers, with the cpu in their high bits
  Frames,     \* the numbers a frame of memory may get
  DRAM_PAGES  \* how many frames memory has

ASSUME PagesAssumption == Pages \subseteq Nat
ASSUME DramAssumption == DRAM_PAGES \in Nat \ {0}

InUse(table) == {table[page] : page \in DOMAIN table}

Full(table) == Cardinality(DOMAIN table) >= DRAM_PAGES

\* The page that is swapped out: the first key of the map, because nothing ever
\* enters the map of recently used pages.
NRU_vpage(table) ==
  CHOOSE page \in DOMAIN table : \A other \in DOMAIN table : page <= other

\* The table with one more page, and the table with the frame of one page moved.
Mapped(table, page, frame) ==
  [q \in DOMAIN table \cup {page} |-> IF q = page THEN frame ELSE table[q]]

Moved(table, victim, page) ==
  [q \in (DOMAIN table \ {victim}) \cup {page} |->
     IF q = page THEN table[victim] ELSE table[q]]

Swapped(table, page) == Moved(table, NRU_vpage(table), page)

\* The tables va_to_pa may leave behind.
Walks(table, page) ==
  IF page \in DOMAIN table
  THEN {table}
  ELSE IF Full(table)
       THEN {Swapped(table, page)}
       ELSE {Mapped(table, page, frame) : frame \in Frames \ InUse(table)}

\* The tables a translation is expected to leave behind: any page may be the one
\* that is swapped out.
Grants(table, page) ==
  IF page \in DOMAIN table
  THEN {table}
  ELSE IF Full(table)
       THEN {Moved(table, victim, page) : victim \in DOMAIN table}
       ELSE {Mapped(table, page, frame) : frame \in Frames \ InUse(table)}

=============================================================================
