------------------------------ MODULE MCItemPacks ------------------------------
(* Messages for ItemPacks: packs that begin at the start and in the middle *)
(* of a page of four bytes and end before, at and behind the end of one,   *)
(* too long ones and ones without an address or bytes.                     *)
EXTENDS ItemPacks

Pk(phys, len) == [phys |-> phys, len |-> len]
Firsts == {Pk(0, 4), Pk(4, 0), Pk(4, 4), Pk(5, 3), Pk(7, 6), Pk(7, 7)}
Seconds == {Pk(10, 6), Pk(9, 0)}

MCMessages ==
  [genuine : {TRUE}, snapshot : BOOLEAN, pack_cnt : 0..3,
   packs : {<<f, s>> : f \in Firsts, s \in Seconds}, total_len : {0, 10}]
    \cup [genuine : {FALSE}, snapshot : {FALSE}, pack_cnt : {1},
          packs : {<<Pk(4, 4), Pk(8, 4)>>}, total_len : {0}]
===============================================================================
