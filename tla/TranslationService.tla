------------------------- MODULE TranslationService -------------------------
(***************************************************************************)
(* What the core is promised by the TLBs: a client that asks for a page is *)
(* answered with the frame virtual memory gives that page.  Which TLB the  *)
(* answer comes from, how long it takes, who else shares the answer and    *)
(* what is prefetched meanwhile does not show.                             *)
(***************************************************************************)
EXTENDS Translation

CONSTANT Clients  \* the reorder-buffer, load-queue and store-queue entries

VARIABLES
  page_table,
  client      \* what each client is doing

Init ==
  /\ page_table = << >>
  /\ client = [c \in Clients |-> [state |-> "idle"]]

\* A client whose entry holds a new instruction asks for a page.
Request(c, page) ==
  /\ client[c].state # "waiting"
  /\ client' = [client EXCEPT ![c] = [state |-> "waiting", page |-> page]]
  /\ UNCHANGED page_table

\* Virtual memory maps a page, for a request or for a prefetch.
Map(page) ==
  /\ page_table' \in Grants(page_table, page)
  /\ UNCHANGED client

\* Some waiting clients are answered at once.
Answer(answered) ==
  /\ \A c \in answered :
       client[c].state = "waiting" /\ client[c].page \in DOMAIN page_table
  /\ client' = [c \in Clients |->
                  IF c \in answered
                  THEN [state |-> "translated", page |-> client[c].page,
                        pa |-> page_table[client[c].page]]
                  ELSE client[c]]
  /\ UNCHANGED page_table

Next ==
  \/ \E c \in Clients, page \in Pages : Request(c, page)
  \/ \E page \in Pages : Map(page)
  \/ \E answered \in SUBSET Clients : Answer(answered)

Spec == Init /\ [][Next]_<<page_table, client>>

=============================================================================
