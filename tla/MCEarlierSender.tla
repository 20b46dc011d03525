---------------------------- MODULE MCEarlierSender ----------------------------
(* A file of a fragmented NALU and a short one; frames of a fragmented and *)
(* a small pack, of a pack too short to send and one that ends empty, and  *)
(* of one that goes wrong at its second NALU.                              *)
EXTENDS EarlierSender
MCFile == <<2, 1>>
MCPack(n, e) == [packets |-> n, ends |-> e]
MCFrames == {<<MCPack(2, "nalu"), MCPack(1, "nalu")>>,
             <<MCPack(0, "short"), MCPack(1, "empty")>>,
             <<MCPack(1, "short")>>}
===============================================================================
