----------------------------- MODULE StockPool -----------------------------
(***************************************************************************)
(* What the inventory promises to the rest of the merchant: every unit of  *)
(* a product is on offer, held by one booking, or sold to one booking.  A  *)
(* booking is made for all of its items at once or not at all, and ends    *)
(* sold or returned, never both.                                           *)
(***************************************************************************)
EXTENDS Naturals

CONSTANTS Products,      \* product ids
          Bookings,      \* booking ids
          Baskets,       \* the item quantities a booking may ask for
          InitialStock   \* units of each product to begin with

VARIABLES free,          \* units of each product nobody holds or owns
          booked,        \* the items of each booking made so far
          phase          \* "held", "sold" or "returned", per booking

poolVars == <<free, booked, phase>>

Init ==
  /\ free = InitialStock
  /\ booked = <<>>
  /\ phase = <<>>

\* All items of the booking leave the offer together.
Hold(b, items) ==
  /\ b \notin DOMAIN booked
  /\ \A p \in Products : items[p] <= free[p]
  /\ free' = [p \in Products |-> free[p] - items[p]]
  /\ booked' = [x \in DOMAIN booked \cup {b} |-> IF x = b THEN items ELSE booked[x]]
  /\ phase' = [x \in DOMAIN booked \cup {b} |-> IF x = b THEN "held" ELSE phase[x]]

\* The units of a held booking are sold; the offer does not change.
Sell(b) ==
  /\ b \in DOMAIN booked
  /\ phase[b] = "held"
  /\ phase' = [phase EXCEPT ![b] = "sold"]
  /\ UNCHANGED <<free, booked>>

\* The units of a held booking go back on offer.
Return(b) ==
  /\ b \in DOMAIN booked
  /\ phase[b] = "held"
  /\ free' = [p \in Products |-> free[p] + booked[b][p]]
  /\ phase' = [phase EXCEPT ![b] = "returned"]
  /\ UNCHANGED booked

\* The process is started again with the catalogue it is seeded from.
Reseed ==
  /\ free' = InitialStock
  /\ booked' = <<>>
  /\ phase' = <<>>

Next ==
  \/ \E b \in Bookings, items \in Baskets : Hold(b, items)
  \/ \E b \in Bookings : Sell(b) \/ Return(b)
  \/ Reseed

Spec == Init /\ [][Next]_poolVars
=============================================================================
