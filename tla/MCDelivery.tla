----------------------------- MODULE MCDelivery -----------------------------
(***************************************************************************)
(* Delivery where the user interrupts twice, or once beside an injection   *)
(* that fails or a socket that drops.                                      *)
(***************************************************************************)
EXTENDS Delivery

MCNext     == Next /\ drops' + failures' <= 1 /\ turns' + drops' + failures' <= 2
MCFairSpec == Init /\ [][MCNext]_vars /\ Fairness
=============================================================================
