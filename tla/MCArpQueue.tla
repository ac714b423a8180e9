----------------------------- MODULE MCArpQueue -----------------------------
(***************************************************************************)
(* Instances of ArpQueue for TLC.                                          *)
(***************************************************************************)
EXTENDS ArpQueue

CONSTANTS h1, h2,      \* next hops
          d1, d2,      \* data packets
          l1           \* an LSU

oneHop == {h1}
twoHops == {h1, h2}
twoData == {d1, d2}
oneLsu == {l1}
=============================================================================
