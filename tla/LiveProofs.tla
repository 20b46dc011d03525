------------------------------ MODULE LiveProofs ------------------------------
(***************************************************************************)
(* Safety of the live gate (module LiveSender) for any configurations,     *)
(* clients, ports and number of failures: its variables have their types,  *)
(* a session that plays is past the gate only with all the parameter sets  *)
(* cached, and a receiver is blind only for one of the causes named.       *)
(***************************************************************************)
EXTENDS LiveSender, SequenceTheorems, TLAPS

(* No pack of the item in hand is empty: NextNalu leaves a pack with its   *)
(* last NALU.                                                              *)
NoEmptyPack == \A i \in DOMAIN rest : rest[i] /= <<>>

(* The sets were there when they were sent, and no step loses one before   *)
(* the need is cleared.                                                    *)
MarkInv == pc = "mark" => HaveAllParameterSets

IInv == LiveTypeOK /\ NoEmptyPack /\ MarkInv /\ PlayingImpliesSets

USE LiveAssumption, ClientAssumption

-----------------------------------------------------------------------------
(* Packs *)

PackSeq == Seq(Seq(Nalu))

(* What rest may be: packs of NALUs, none of them empty, and no pack left  *)
(* exactly when the next item is due.                                      *)
RestOK == rest \in PackSeq /\ NoEmptyPack /\ (pc = "read" <=> rest = <<>>)

LEMMA NoCfgIsNone == NoCfg \notin Cfgs
BY DEF NoCfg

(* While an item is in hand there is a NALU in hand. *)
LEMMA InHand ==
  ASSUME RestOK, pc /= "read"
  PROVE  /\ rest /= <<>> /\ Len(rest) \in Nat /\ Len(rest) >= 1
         /\ Head(rest) = rest[1] /\ rest[1] \in Seq(Nalu) /\ rest[1] /= <<>>
         /\ nalu \in Nalu
<1>1. rest \in Seq(Seq(Nalu)) /\ rest /= <<>>
  BY DEF RestOK, PackSeq
<1>2. Len(rest) \in Nat /\ Len(rest) >= 1 /\ 1 \in DOMAIN rest /\ Head(rest) = rest[1]
  <2> HIDE DEF Nalu
  <2> QED BY <1>1
<1>3. rest[1] \in Seq(Nalu) /\ rest[1] /= <<>>
  <2> HIDE DEF Nalu
  <2>1. rest[1] \in Seq(Nalu)
    BY <1>1, <1>2
  <2>2. rest[1] /= <<>>
    BY <1>2 DEF RestOK, NoEmptyPack
  <2> QED BY <2>1, <2>2
<1>4. Head(rest[1]) \in Nalu
  BY <1>3, HeadTailProperties
<1> QED BY <1>1, <1>2, <1>3, <1>4 DEF nalu

(* Going on to the next pack keeps rest as it may be. *)
LEMMA NextPackRest ==
  ASSUME RestOK, pc /= "read", NextPack
  PROVE  RestOK' /\ pc' \in {"read", "map"}
<1>1. rest \in PackSeq /\ rest /= <<>>
  BY DEF RestOK
<1>2. Tail(rest) \in PackSeq /\ Len(Tail(rest)) = Len(rest) - 1 /\ Len(rest) \in Nat
  BY <1>1, HeadTailProperties, LenProperties DEF PackSeq
<1>3. \A i \in DOMAIN Tail(rest) : Tail(rest)[i] = rest[i + 1] /\ i + 1 \in DOMAIN rest
  <2> DEFINE S == Seq(Nalu)
  <2>1. rest \in Seq(S) /\ rest /= <<>>
    BY <1>1 DEF PackSeq
  <2> HIDE DEF S
  <2> QED BY <2>1
<1>4. NoEmptyPack'
  BY <1>3 DEF NoEmptyPack, RestOK, NextPack
<1> QED BY <1>2, <1>4 DEF RestOK, NextPack

(* And so does going on to the next NALU. *)
LEMMA NextNaluRest ==
  ASSUME RestOK, pc /= "read", NextNalu
  PROVE  RestOK' /\ pc' \in {"read", "map", "nalu"}
<1>1. CASE Len(Head(rest)) = 1 /\ NextPack
  BY <1>1, NextPackRest
<1>2. CASE /\ Len(Head(rest)) > 1
           /\ rest' = [rest EXCEPT ![1] = Tail(@)]
           /\ pc' = "nalu"
  <2>1. /\ rest /= <<>> /\ Len(rest) \in Nat /\ Len(rest) >= 1
        /\ Head(rest) = rest[1] /\ rest[1] \in Seq(Nalu) /\ rest[1] /= <<>>
    BY InHand
  <2>2. /\ Tail(rest[1]) \in Seq(Nalu) /\ Len(Tail(rest[1])) = Len(rest[1]) - 1
        /\ Len(rest[1]) \in Nat
    BY <2>1, HeadTailProperties, LenProperties
  <2>3. Tail(rest[1]) /= <<>>
    BY <1>2, <2>1, <2>2, LenProperties, EmptySeq
  <2>4. rest' \in PackSeq /\ rest' /= <<>>
    <3> DEFINE S == Seq(Nalu)
    <3>1. rest \in Seq(S) /\ Tail(rest[1]) \in S
      BY <2>2 DEF RestOK, PackSeq
    <3>2. rest' = [rest EXCEPT ![1] = Tail(rest[1])]
      BY <1>2
    <3> HIDE DEF S
    <3>3. rest' \in Seq(S) /\ Len(rest') = Len(rest)
      BY <3>1, <3>2, <2>1, ExceptSeq
    <3>4. rest' /= <<>>
      BY <3>3, <2>1
    <3> QED BY <3>3, <3>4 DEF S, PackSeq
  <2>5. NoEmptyPack'
    BY <1>2, <2>1, <2>3 DEF NoEmptyPack, RestOK
  <2> QED BY <1>2, <2>4, <2>5 DEF RestOK
<1> QED BY <1>1, <1>2 DEF NextNalu

(* An item of one pack, and one of two. *)
LEMMA OnePack ==
  ASSUME NEW p \in Seq(Nalu), p /= <<>>
  PROVE  <<p>> \in PackSeq /\ <<p>> /= <<>> /\ \A i \in DOMAIN <<p>> : <<p>>[i] /= <<>>
<1> DEFINE S == Seq(Nalu)
<1>1. p \in S
  OBVIOUS
<1> HIDE DEF S
<1>2. <<p>> \in Seq(S) /\ DOMAIN <<p>> = {1} /\ <<p>>[1] = p
  BY <1>1
<1> QED BY <1>2 DEF PackSeq, S

LEMMA TwoPacks ==
  ASSUME NEW p \in Seq(Nalu), p /= <<>>, NEW q \in Seq(Nalu), q /= <<>>
  PROVE  /\ <<p, q>> \in PackSeq /\ <<p, q>> /= <<>>
         /\ \A i \in DOMAIN <<p, q>> : <<p, q>>[i] /= <<>>
<1> DEFINE S == Seq(Nalu)
<1>1. p \in S /\ q \in S
  OBVIOUS
<1> HIDE DEF S
<1>2. /\ <<p, q>> \in Seq(S) /\ DOMAIN <<p, q>> = {1, 2}
      /\ <<p, q>>[1] = p /\ <<p, q>>[2] = q
  BY <1>1
<1> QED BY <1>2 DEF PackSeq, S

(* The items the encoder makes are packs of NALUs, and none is empty. *)
LEMMA ItemsOK ==
  ASSUME NEW c \in Cfgs,
         NEW it \in KeyItems(c) \cup {DeltaItem(c)}
  PROVE  it \in PackSeq /\ it /= <<>> /\ \A i \in DOMAIN it : it[i] /= <<>>
<1> DEFINE n(k) == [kind |-> k, cfg |-> c]
<1>1. \A k \in ParamKinds \cup KeyKinds \cup {"delta"} : n(k) \in Nalu
  BY DEF Nalu
<1>2. /\ n("vps") \in Nalu /\ n("sps") \in Nalu /\ n("pps") \in Nalu /\ n("delta") \in Nalu
      /\ \A k \in KeyKinds : n(k) \in Nalu
  BY <1>1 DEF ParamKinds
<1> HIDE DEF n
<1>3. ParamGroup(c) = <<n("vps"), n("sps"), n("pps")>>
  BY DEF ParamGroup, n
<1>4. ParamGroup(c) \in Seq(Nalu) /\ ParamGroup(c) /= <<>>
  <2> HIDE DEF Nalu
  <2> QED BY <1>2, <1>3
<1>5. CASE it = DeltaItem(c)
  <2>1. it = << <<n("delta")>> >>
    BY <1>5 DEF DeltaItem, n
  <2>2. <<n("delta")>> \in Seq(Nalu) /\ <<n("delta")>> /= <<>>
    BY <1>2
  <2> QED BY <2>1, <2>2, OnePack
<1>6. CASE \E k \in KeyKinds : it = <<Append(ParamGroup(c), n(k))>>
  <2>1. PICK k \in KeyKinds : it = <<Append(ParamGroup(c), n(k))>>
    BY <1>6
  <2>2. Append(ParamGroup(c), n(k)) \in Seq(Nalu) /\ Append(ParamGroup(c), n(k)) /= <<>>
    BY <1>2, <1>4, AppendProperties, LenProperties, EmptySeq
  <2> QED BY <2>1, <2>2, OnePack
<1>7. CASE \E k \in KeyKinds : it = <<ParamGroup(c), <<n(k)>>>>
  <2>1. PICK k \in KeyKinds : it = <<ParamGroup(c), <<n(k)>>>>
    BY <1>7
  <2>2. <<n(k)>> \in Seq(Nalu) /\ <<n(k)>> /= <<>>
    BY <1>2
  <2> QED BY <2>1, <2>2, <1>4, TwoPacks
<1> QED BY <1>5, <1>6, <1>7 DEF KeyItems, n

-----------------------------------------------------------------------------
(* The invariant, one lemma for each action *)

(* What a step of the sender that leaves the session alone has to show. *)
ItemTypeOK ==
  /\ pc \in {"read", "target", "map", "nalu", "sets", "mark", "send"}
  /\ enc \in Cfgs
  /\ RestOK
GateTypeOK ==
  /\ can_send \in BOOLEAN
  /\ dest \in IF can_send THEN Targets ELSE Targets \cup NoTargets
  /\ cached \in [ParamKinds -> Cfgs \cup {NoCfg}]
  /\ wait_for_idr \in BOOLEAN
WatchTypeOK ==
  /\ rx \in [sets : [ParamKinds -> Cfgs \cup {NoCfg}], synced : BOOLEAN]
  /\ blind \in BOOLEAN
  /\ excuse \subseteq Excuses
FaultTypeOK == faults \in 0..MaxFaults

LEMMA Parts ==
  LiveTypeOK /\ NoEmptyPack
    <=> ServerTypeOK /\ ItemTypeOK /\ GateTypeOK /\ WatchTypeOK /\ FaultTypeOK
BY DEF LiveTypeOK, ItemTypeOK, GateTypeOK, WatchTypeOK, FaultTypeOK, RestOK, PackSeq

LEMMA PartsNext ==
  (LiveTypeOK /\ NoEmptyPack)'
    <=> ServerTypeOK' /\ ItemTypeOK' /\ GateTypeOK' /\ WatchTypeOK' /\ FaultTypeOK'
BY DEF LiveTypeOK, ItemTypeOK, GateTypeOK, WatchTypeOK, FaultTypeOK, RestOK, PackSeq

LEMMA InitIInv == LiveInit => IInv
<1> SUFFICES ASSUME LiveInit PROVE IInv
  OBVIOUS
<1>1. ServerTypeOK /\ g_client_addr \in NoTargets
  BY DEF LiveInit, ServerInit, ServerTypeOK
<1>2. ItemTypeOK
  BY DEF LiveInit, ItemTypeOK, RestOK, PackSeq, NoEmptyPack
<1>3. GateTypeOK
  BY <1>1 DEF LiveInit, GateTypeOK
<1>4. WatchTypeOK
  BY DEF LiveInit, WatchTypeOK, Fresh
<1>5. FaultTypeOK
  BY DEF LiveInit, FaultTypeOK
<1> QED BY <1>1, <1>2, <1>3, <1>4, <1>5, Parts
        DEF IInv, MarkInv, PlayingImpliesSets, LiveInit, ServerInit

LEMMA FaultOK == FaultTypeOK /\ Fault => FaultTypeOK'
BY DEF FaultTypeOK, Fault

LEMMA BlameOK ==
  ASSUME WatchTypeOK, NEW why \in Excuses, Blame(why)
  PROVE  excuse' \subseteq Excuses
BY DEF WatchTypeOK, Blame

LEMMA SameServer == ServerTypeOK /\ UNCHANGED serverVars => ServerTypeOK'
BY DEF ServerTypeOK, serverVars, session

LEMMA SamePlaying ==
  PlayingImpliesSets /\ UNCHANGED serverVars /\ UNCHANGED cached => PlayingImpliesSets'
BY DEF PlayingImpliesSets, HaveAllParameterSets, serverVars, session

LEMMA ReadIInv == IInv /\ Read => IInv'
<1> SUFFICES ASSUME IInv, Read PROVE IInv'
  OBVIOUS
<1>1. ServerTypeOK /\ ItemTypeOK /\ GateTypeOK /\ WatchTypeOK /\ FaultTypeOK
  BY Parts DEF IInv
<1>2. \E c \in Cfgs : rest' \in KeyItems(c) \cup {DeltaItem(c)} /\ enc' \in Cfgs
  BY <1>1 DEF Read, ItemTypeOK
<1>3. RestOK' /\ enc' \in Cfgs
  BY <1>2, ItemsOK DEF RestOK, NoEmptyPack, Read
<1>4. ItemTypeOK'
  BY <1>3 DEF ItemTypeOK, Read
<1>5. GateTypeOK' /\ WatchTypeOK' /\ FaultTypeOK'
  BY <1>1 DEF GateTypeOK, WatchTypeOK, FaultTypeOK, Read, watchVars
<1>6. ServerTypeOK' /\ PlayingImpliesSets'
  BY <1>1, SameServer, SamePlaying DEF IInv, Read
<1>7. MarkInv'
  BY DEF MarkInv, Read
<1> QED BY <1>4, <1>5, <1>6, <1>7, PartsNext DEF IInv

LEMMA GetTargetIInv == IInv /\ GetTarget => IInv'
<1> SUFFICES ASSUME IInv, GetTarget PROVE IInv'
  OBVIOUS
<1>1. ServerTypeOK /\ ItemTypeOK /\ GateTypeOK /\ WatchTypeOK /\ FaultTypeOK
  BY Parts DEF IInv
<1>2. ItemTypeOK'
  BY <1>1 DEF ItemTypeOK, RestOK, NoEmptyPack, GetTarget, itemVars
<1>3. GateTypeOK'
  BY <1>1 DEF GateTypeOK, GetTarget, ServerTypeOK, Playing
<1>4. WatchTypeOK' /\ FaultTypeOK'
  BY <1>1 DEF WatchTypeOK, FaultTypeOK, GetTarget, watchVars
<1>5. ServerTypeOK' /\ PlayingImpliesSets'
  BY <1>1, SameServer, SamePlaying DEF IInv, GetTarget
<1>6. MarkInv'
  BY DEF MarkInv, GetTarget
<1> QED BY <1>2, <1>3, <1>4, <1>5, <1>6, PartsNext DEF IInv

LEMMA MapPackIInv == IInv /\ MapPack => IInv'
<1> SUFFICES ASSUME IInv, MapPack PROVE IInv'
  OBVIOUS
<1>1. ServerTypeOK /\ ItemTypeOK /\ GateTypeOK /\ WatchTypeOK /\ FaultTypeOK
  BY Parts DEF IInv
<1>2. RestOK' /\ pc' \in {"read", "map", "nalu"}
  <2>1. CASE pc' = "nalu" /\ UNCHANGED rest
    BY <1>1, <2>1 DEF ItemTypeOK, RestOK, NoEmptyPack, MapPack
  <2>2. CASE NextPack
    BY <1>1, <2>2, NextPackRest DEF ItemTypeOK, MapPack
  <2> QED BY <2>1, <2>2 DEF MapPack
<1>3. ItemTypeOK'
  BY <1>1, <1>2 DEF ItemTypeOK, MapPack
<1>4. GateTypeOK'
  BY <1>1 DEF GateTypeOK, MapPack
<1>5. WatchTypeOK'
  BY <1>1, BlameOK DEF WatchTypeOK, MapPack, Excuses
<1>6. FaultTypeOK'
  BY <1>1, FaultOK DEF FaultTypeOK, MapPack
<1>7. ServerTypeOK' /\ PlayingImpliesSets'
  BY <1>1, SameServer, SamePlaying DEF IInv, MapPack
<1>8. MarkInv'
  BY <1>2 DEF MarkInv
<1> QED BY <1>3, <1>4, <1>5, <1>6, <1>7, <1>8, PartsNext DEF IInv

(* Caching never loses a set: the new one is of a configuration. *)
LEMMA CacheKeeps ==
  ASSUME ItemTypeOK, GateTypeOK, FaultTypeOK, pc /= "read", CacheParameterSet
  PROVE  /\ cached' \in [ParamKinds -> Cfgs \cup {NoCfg}]
         /\ HaveAllParameterSets => HaveAllParameterSets'
         /\ FaultTypeOK'
<1>1. nalu \in Nalu
  BY InHand DEF ItemTypeOK
<1>2. nalu.cfg \in Cfgs
  BY <1>1 DEF Nalu
<1>3. cached' = cached \/ (nalu.kind \in ParamKinds /\ cached' = [cached EXCEPT ![nalu.kind] = nalu.cfg])
  BY DEF CacheParameterSet
<1>4. cached' \in [ParamKinds -> Cfgs \cup {NoCfg}]
  BY <1>2, <1>3 DEF GateTypeOK
<1>5. HaveAllParameterSets => HaveAllParameterSets'
  BY <1>2, <1>3, NoCfgIsNone DEF GateTypeOK, HaveAllParameterSets
<1>6. FaultTypeOK'
  BY FaultOK DEF CacheParameterSet, FaultTypeOK
<1> QED BY <1>4, <1>5, <1>6

LEMMA BeginNaluIInv == IInv /\ BeginNalu => IInv'
<1> SUFFICES ASSUME IInv, BeginNalu PROVE IInv'
  OBVIOUS
<1>1. ServerTypeOK /\ ItemTypeOK /\ GateTypeOK /\ WatchTypeOK /\ FaultTypeOK
  BY Parts DEF IInv
<1>2. RestOK' /\ pc' \in {"read", "map", "nalu", "sets", "send"}
  <2>1. CASE NextNalu
    BY <1>1, <2>1, NextNaluRest DEF ItemTypeOK, BeginNalu
  <2>2. CASE pc' \in {"sets", "send"} /\ UNCHANGED rest
    BY <1>1, <2>2 DEF ItemTypeOK, RestOK, NoEmptyPack, BeginNalu
  <2> QED BY <2>1, <2>2 DEF BeginNalu
<1>3. ItemTypeOK'
  BY <1>1, <1>2 DEF ItemTypeOK, BeginNalu
<1>4. /\ cached' \in [ParamKinds -> Cfgs \cup {NoCfg}]
      /\ HaveAllParameterSets => HaveAllParameterSets'
      /\ FaultTypeOK'
  BY <1>1, CacheKeeps DEF BeginNalu
<1>5. GateTypeOK'
  BY <1>1, <1>4 DEF GateTypeOK, BeginNalu
<1>6. WatchTypeOK'
  BY <1>1 DEF WatchTypeOK, BeginNalu, watchVars
<1>7. ServerTypeOK'
  BY <1>1, SameServer DEF BeginNalu
<1>8. PlayingImpliesSets'
  BY <1>4 DEF IInv, PlayingImpliesSets, BeginNalu, serverVars, session
<1>9. MarkInv'
  BY <1>2 DEF MarkInv
<1> QED BY <1>3, <1>4, <1>5, <1>6, <1>7, <1>8, <1>9, PartsNext DEF IInv

LEMMA DeliverOK ==
  ASSUME GateTypeOK, WatchTypeOK, NEW kinds, DeliverSets(kinds)
  PROVE  rx' \in [sets : [ParamKinds -> Cfgs \cup {NoCfg}], synced : BOOLEAN]
<1> DEFINE new == [k \in ParamKinds |-> IF k \in kinds THEN cached[k] ELSE rx.sets[k]]
<1>1. new \in [ParamKinds -> Cfgs \cup {NoCfg}]
  BY DEF GateTypeOK, WatchTypeOK
<1>2. rx' = rx \/ rx' = [rx EXCEPT !.sets = new]
  BY DEF DeliverSets
<1> HIDE DEF new
<1> QED BY <1>1, <1>2 DEF WatchTypeOK

LEMMA SendCachedIInv == IInv /\ SendCached => IInv'
<1> SUFFICES ASSUME IInv, SendCached PROVE IInv'
  OBVIOUS
<1>1. ServerTypeOK /\ ItemTypeOK /\ GateTypeOK /\ WatchTypeOK /\ FaultTypeOK
  BY Parts DEF IInv
<1>2. RestOK' /\ pc' \in {"read", "map", "nalu", "mark"}
  <2>1. CASE NextNalu
    BY <1>1, <2>1, NextNaluRest DEF ItemTypeOK, SendCached
  <2>2. CASE pc' = "mark" /\ UNCHANGED rest
    BY <1>1, <2>2 DEF ItemTypeOK, RestOK, NoEmptyPack, SendCached
  <2> QED BY <2>1, <2>2 DEF SendCached
<1>3. ItemTypeOK'
  BY <1>1, <1>2 DEF ItemTypeOK, SendCached
<1>4. GateTypeOK'
  BY <1>1 DEF GateTypeOK, SendCached
<1>5. rx' \in [sets : [ParamKinds -> Cfgs \cup {NoCfg}], synced : BOOLEAN]
  BY <1>1, DeliverOK DEF SendCached, WatchTypeOK
<1>6. excuse' \subseteq Excuses
  BY <1>1, BlameOK DEF SendCached, WatchTypeOK, Excuses
<1>7. WatchTypeOK'
  BY <1>1, <1>5, <1>6 DEF WatchTypeOK, SendCached
<1>8. FaultTypeOK'
  BY <1>1, FaultOK DEF SendCached, FaultTypeOK
<1>9. ServerTypeOK' /\ PlayingImpliesSets'
  BY <1>1, SameServer, SamePlaying DEF IInv, SendCached
<1>10. MarkInv'
  <2>1. CASE HaveAllParameterSets /\ pc' = "mark"
    BY <2>1 DEF MarkInv, HaveAllParameterSets, SendCached
  <2>2. CASE NextNalu
    BY <1>1, <2>2, NextNaluRest DEF ItemTypeOK, SendCached, MarkInv
  <2> QED BY <2>1, <2>2 DEF SendCached
<1> QED BY <1>3, <1>4, <1>7, <1>8, <1>9, <1>10, PartsNext DEF IInv

LEMMA MarkSentIInv == IInv /\ MarkSent => IInv'
<1> SUFFICES ASSUME IInv, MarkSent PROVE IInv'
  OBVIOUS
<1>1. ServerTypeOK /\ ItemTypeOK /\ GateTypeOK /\ WatchTypeOK /\ FaultTypeOK
  BY Parts DEF IInv
<1>2. ServerTypeOK'
  BY <1>1 DEF ServerTypeOK, MarkSent
<1>3. ItemTypeOK'
  BY <1>1 DEF ItemTypeOK, RestOK, NoEmptyPack, MarkSent, itemVars
<1>4. GateTypeOK' /\ FaultTypeOK'
  BY <1>1 DEF GateTypeOK, FaultTypeOK, MarkSent
<1>5. WatchTypeOK'
  BY <1>1 DEF WatchTypeOK, MarkSent, watchVars
<1>6. PlayingImpliesSets' /\ MarkInv'
  BY DEF IInv, MarkInv, PlayingImpliesSets, HaveAllParameterSets, MarkSent
<1> QED BY <1>2, <1>3, <1>4, <1>5, <1>6, PartsNext DEF IInv

LEMMA ReceiveOK ==
  ASSUME WatchTypeOK, NEW n \in Nalu, Receive(n)
  PROVE  /\ rx' \in [sets : [ParamKinds -> Cfgs \cup {NoCfg}], synced : BOOLEAN]
         /\ blind' \in BOOLEAN
<1>1. n.cfg \in Cfgs
  BY DEF Nalu
<1>2. Decodes(n) \in BOOLEAN
  BY DEF Decodes, WatchTypeOK
<1>3. CASE dest /= Watched
  BY <1>3 DEF Receive, WatchTypeOK
<1>4. CASE dest = Watched /\ n.kind \in ParamKinds
  <2>1. [rx.sets EXCEPT ![n.kind] = n.cfg] \in [ParamKinds -> Cfgs \cup {NoCfg}]
    BY <1>1 DEF WatchTypeOK
  <2> QED BY <1>4, <2>1 DEF Receive, WatchTypeOK
<1>5. CASE dest = Watched /\ n.kind \notin ParamKinds
  <2>1. rx' = [rx EXCEPT !.synced = Decodes(n)] /\ blind' = (blind \/ ~Decodes(n))
    BY <1>5 DEF Receive
  <2> QED BY <1>2, <2>1 DEF WatchTypeOK
<1> QED BY <1>3, <1>4, <1>5

LEMMA SendNaluIInv == IInv /\ SendNalu => IInv'
<1> SUFFICES ASSUME IInv, SendNalu PROVE IInv'
  OBVIOUS
<1>1. ServerTypeOK /\ ItemTypeOK /\ GateTypeOK /\ WatchTypeOK /\ FaultTypeOK
  BY Parts DEF IInv
<1>2. RestOK' /\ pc' \in {"read", "map", "nalu"}
  <2>1. CASE NextNalu
    BY <1>1, <2>1, NextNaluRest DEF ItemTypeOK, SendNalu
  <2>2. CASE NextPack
    BY <1>1, <2>2, NextPackRest DEF ItemTypeOK, SendNalu
  <2> QED BY <2>1, <2>2 DEF SendNalu
<1>3. ItemTypeOK'
  BY <1>1, <1>2 DEF ItemTypeOK, SendNalu
<1>4. GateTypeOK'
  BY <1>1 DEF GateTypeOK, SendNalu
<1>5. nalu \in Nalu
  BY <1>1, InHand DEF ItemTypeOK, SendNalu
<1>6. excuse' \subseteq Excuses
  BY <1>1, BlameOK DEF SendNalu, WatchTypeOK, Excuses
<1>7. /\ rx' \in [sets : [ParamKinds -> Cfgs \cup {NoCfg}], synced : BOOLEAN]
      /\ blind' \in BOOLEAN
  <2>1. CASE UNCHANGED <<rx, blind>>
    BY <1>1, <2>1 DEF WatchTypeOK
  <2>2. CASE Receive(nalu)
    BY <1>1, <1>5, <2>2, ReceiveOK
  <2>3. CASE /\ rx' = IF dest = Watched THEN [rx EXCEPT !.synced = FALSE] ELSE rx
             /\ UNCHANGED blind
    BY <1>1, <2>3 DEF WatchTypeOK
  <2> QED BY <2>1, <2>2, <2>3 DEF SendNalu
<1>8. WatchTypeOK'
  BY <1>6, <1>7 DEF WatchTypeOK
<1>9. FaultTypeOK'
  BY <1>1, FaultOK DEF SendNalu, FaultTypeOK
<1>10. ServerTypeOK' /\ PlayingImpliesSets'
  BY <1>1, SameServer, SamePlaying DEF IInv, SendNalu
<1>11. MarkInv'
  BY <1>2 DEF MarkInv
<1> QED BY <1>3, <1>4, <1>8, <1>9, <1>10, <1>11, PartsNext DEF IInv

(* The sender's variables stay, and no session gets past the gate. *)
LEMMA ControlKeeps ==
  ASSUME IInv, UNCHANGED senderVars, ServerTypeOK', WatchTypeOK',
         g_play' => g_need_parameter_sets' \/ (g_play /\ ~g_need_parameter_sets)
  PROVE  IInv'
<1>1. ItemTypeOK /\ GateTypeOK /\ FaultTypeOK
  BY Parts DEF IInv
<1>2. ItemTypeOK' /\ GateTypeOK' /\ FaultTypeOK'
  BY <1>1 DEF ItemTypeOK, RestOK, NoEmptyPack, GateTypeOK, FaultTypeOK, senderVars, itemVars
<1>3. MarkInv' /\ PlayingImpliesSets'
  BY DEF IInv, MarkInv, PlayingImpliesSets, HaveAllParameterSets, senderVars
<1> QED BY <1>2, <1>3, PartsNext DEF IInv

LEMMA SetupSessionIInv == IInv /\ SetupSession => IInv'
<1> SUFFICES ASSUME IInv, SetupSession PROVE IInv'
  OBVIOUS
<1>1. ServerTypeOK /\ WatchTypeOK
  BY Parts DEF IInv
<1>2. PICK p \in Ports : Setup(p)
  BY DEF SetupSession
<1>3. ServerTypeOK' /\ ~g_play'
  BY <1>1, <1>2 DEF ServerTypeOK, Setup, Targets
<1>4. Fresh \in [sets : [ParamKinds -> Cfgs \cup {NoCfg}], synced : BOOLEAN]
  BY DEF Fresh
<1>5. WatchTypeOK'
  BY <1>1, <1>4 DEF WatchTypeOK, SetupSession, Excuses, watchVars
<1> QED BY <1>3, <1>5, ControlKeeps DEF SetupSession

LEMMA PlaySessionIInv == IInv /\ PlaySession => IInv'
<1> SUFFICES ASSUME IInv, PlaySession PROVE IInv'
  OBVIOUS
<1>1. ServerTypeOK /\ WatchTypeOK
  BY Parts DEF IInv
<1>2. ServerTypeOK' /\ g_need_parameter_sets'
  BY <1>1 DEF ServerTypeOK, PlaySession, Play
<1>3. WatchTypeOK'
  BY <1>1 DEF WatchTypeOK, PlaySession, Excuses
<1> QED BY <1>2, <1>3, ControlKeeps DEF PlaySession

LEMMA OtherControlIInv == IInv /\ OtherControl => IInv'
<1> SUFFICES ASSUME IInv, OtherControl PROVE IInv'
  OBVIOUS
<1>1. ServerTypeOK /\ WatchTypeOK
  BY Parts DEF IInv
<1>2. WatchTypeOK'
  BY <1>1 DEF WatchTypeOK, OtherControl, watchVars
<1>3. ServerTypeOK' /\ (g_play' => g_play) /\ UNCHANGED g_need_parameter_sets
  <2>1. CASE \E c \in Clients : Accept(c)
    BY <1>1, <2>1 DEF ServerTypeOK, Accept, session
  <2>2. CASE Teardown
    BY <1>1, <2>2 DEF ServerTypeOK, Teardown
  <2>3. CASE HangUp
    BY <1>1, <2>3 DEF ServerTypeOK, HangUp, session
  <2>4. CASE Close
    BY <1>1, <2>4 DEF ServerTypeOK, Close
  <2> QED BY <2>1, <2>2, <2>3, <2>4 DEF OtherControl
<1>4. g_need_parameter_sets \in BOOLEAN
  BY <1>1 DEF ServerTypeOK
<1>5. UNCHANGED senderVars
  BY DEF OtherControl
<1> QED BY <1>2, <1>3, <1>4, <1>5, ControlKeeps

LEMMA StutterIInv == IInv /\ UNCHANGED vars => IInv'
<1> SUFFICES ASSUME IInv, UNCHANGED vars PROVE IInv'
  OBVIOUS
<1>1. ServerTypeOK /\ WatchTypeOK
  BY Parts DEF IInv
<1>2. ServerTypeOK'
  BY <1>1, SameServer DEF vars
<1>3. WatchTypeOK'
  BY <1>1 DEF WatchTypeOK, vars, watchVars
<1>4. UNCHANGED <<senderVars, g_play, g_need_parameter_sets>>
  BY DEF vars, serverVars, session
<1>5. g_need_parameter_sets \in BOOLEAN
  BY <1>1 DEF ServerTypeOK
<1> QED BY <1>2, <1>3, <1>4, <1>5, ControlKeeps

LEMMA NextIInv == IInv /\ [LiveNext]_vars => IInv'
BY ReadIInv, GetTargetIInv, MapPackIInv, BeginNaluIInv, SendCachedIInv, MarkSentIInv,
   SendNaluIInv, SetupSessionIInv, PlaySessionIInv, OtherControlIInv, StutterIInv
   DEF LiveNext, Sender

-----------------------------------------------------------------------------
(* Every step of the sender and of the control thread keeps the invariant: *)
(* only rtsp_mark_parameter_sets_sent clears the need, and it is reached   *)
(* only by way of h265_have_all_parameter_sets.                            *)
THEOREM Invariance == LiveSpec => []IInv
<1>1. LiveInit => IInv
  BY InitIInv
<1>2. IInv /\ [LiveNext]_vars => IInv'
  BY NextIInv
<1> QED BY <1>1, <1>2, PTL DEF LiveSpec

(* datafifo_rtp_sender_loop beside the control thread: every variable      *)
(* stays in its range; an item that is being sent has a NALU in hand.      *)
THEOREM TypeCorrect == LiveSpec => []LiveTypeOK
<1>1. IInv => LiveTypeOK
  BY DEF IInv
<1> QED BY <1>1, Invariance, PTL

(* datafifo_process_nalu_for_playback: a session that plays is past the    *)
(* gate only with VPS, SPS and PPS cached, whatever requests came between  *)
(* the steps and whatever failed.                                          *)
THEOREM GateHasSets == LiveSpec => []PlayingImpliesSets
<1>1. IInv => PlayingImpliesSets
  BY DEF IInv
<1> QED BY <1>1, Invariance, PTL
-----------------------------------------------------------------------------
(* Why a receiver stays blind.  What is left of an item is all of the      *)
(* encoder's configuration, and its picture comes last.                    *)

Left(n) == \E i \in DOMAIN rest : \E j \in DOMAIN rest[i] : rest[i][j] = n

ItemInv ==
  \A i \in DOMAIN rest : \A j \in DOMAIN rest[i] :
    /\ rest[i][j].cfg = enc
    /\ rest[i][j].kind \notin ParamKinds => i = Len(rest) /\ j = Len(rest[i])

(* How far the sender has come tells who it sends to and what is needed;   *)
(* a session that began to play after the target was copied still needs    *)
(* the sets.                                                               *)
StageInv ==
  /\ pc \in {"sets", "mark", "send"} => can_send
  /\ pc \in {"sets", "mark"} => g_need_parameter_sets
  /\ ~can_send /\ pc \notin {"read", "target"} /\ Playing => g_need_parameter_sets

(* The sender is past the gate for Watched, with this NALU or the next.    *)
Granted ==
  \/ can_send /\ dest = Watched /\ pc \in {"mark", "send"}
  \/ can_send /\ dest = Watched /\ pc \in {"map", "nalu"} /\ ~g_need_parameter_sets
  \/ ~Busy /\ Playing /\ g_client_addr = Watched /\ ~g_need_parameter_sets

(* Watched holds the parameter sets of the item or is about to get them,   *)
(* and it decodes already unless an IDR is still awaited.                  *)
SetsDue == \A k \in ParamKinds : rx.sets[k] = enc \/ Left([kind |-> k, cfg |-> enc])
Prepared == SetsDue /\ (pc = "mark" \/ wait_for_idr \/ rx.synced)

GateInv == excuse = {} =>
  /\ ~blind
  /\ Granted => Prepared
  /\ Busy /\ dest /= Watched => ~(Playing /\ g_client_addr = Watched)

BlindInv == ItemInv /\ StageInv /\ GateInv

LEMMA RestFacts ==
  ASSUME RestOK
  PROVE  /\ Len(rest) \in Nat /\ DOMAIN rest = 1..Len(rest)
         /\ \A i \in DOMAIN rest : /\ rest[i] \in Seq(Nalu) /\ Len(rest[i]) \in Nat \ {0}
                                   /\ DOMAIN rest[i] = 1..Len(rest[i])
<1> HIDE DEF Nalu
<1>1. Len(rest) \in Nat /\ DOMAIN rest = 1..Len(rest) /\ \A i \in DOMAIN rest : rest[i] \in Seq(Nalu)
  <2> DEFINE S == Seq(Nalu)
  <2>1. rest \in Seq(S)
    BY DEF RestOK, PackSeq
  <2> HIDE DEF S
  <2>2. Len(rest) \in Nat /\ DOMAIN rest = 1..Len(rest) /\ \A i \in DOMAIN rest : rest[i] \in S
    BY <2>1, LenProperties, ElementOfSeq
  <2> QED BY <2>2 DEF S
<1>2. ASSUME NEW i \in DOMAIN rest
      PROVE  Len(rest[i]) \in Nat \ {0} /\ DOMAIN rest[i] = 1..Len(rest[i])
  <2>1. rest[i] \in Seq(Nalu) /\ rest[i] /= <<>>
    BY <1>1 DEF RestOK, NoEmptyPack
  <2> QED BY <2>1, LenProperties, EmptySeq
<1> QED BY <1>1, <1>2

(* After the next pack, what is left was left before, in the same order.   *)
LEMMA PackGone ==
  ASSUME RestOK, ItemInv, pc /= "read", NextPack, UNCHANGED enc
  PROVE  ItemInv'
<1>1. /\ Len(rest) \in Nat /\ DOMAIN rest = 1..Len(rest) /\ rest /= <<>>
  BY RestFacts DEF RestOK
<1>2. /\ Len(rest') = Len(rest) - 1 /\ DOMAIN rest' = 1..Len(rest) - 1
      /\ \A i \in DOMAIN rest' : rest'[i] = rest[i + 1]
  <2> DEFINE S == Seq(Nalu)
  <2>1. rest \in Seq(S)
    BY DEF RestOK, PackSeq
  <2> HIDE DEF S
  <2>2. rest' = Tail(rest)
    BY DEF NextPack
  <2>3. Tail(rest) \in Seq(S) /\ Len(Tail(rest)) = Len(rest) - 1
        /\ \A i \in 1..Len(Tail(rest)) : Tail(rest)[i] = rest[i + 1]
    BY <1>1, <2>1, HeadTailProperties
  <2> QED BY <2>2, <2>3, LenProperties
<1> QED BY <1>1, <1>2 DEF ItemInv

(* After the next NALU, everything is left but the one that was in hand.   *)
LEMMA NaluGone ==
  ASSUME RestOK, ItemInv, pc /= "read", NextNalu, UNCHANGED enc
  PROVE  /\ ItemInv'
         /\ \A n : Left(n) => n = nalu \/ Left(n)'
<1>1. /\ Len(rest) \in Nat /\ Len(rest) >= 1 /\ DOMAIN rest = 1..Len(rest) /\ rest /= <<>>
      /\ nalu = Head(rest[1]) /\ Head(rest) = rest[1] /\ rest[1] /= <<>>
      /\ rest[1] \in Seq(Nalu) /\ Len(rest[1]) \in Nat /\ DOMAIN rest[1] = 1..Len(rest[1])
  <2> HIDE DEF Nalu
  <2> QED BY RestFacts, InHand DEF nalu
<1>2. nalu = rest[1][1]
  <2> HIDE DEF Nalu
  <2> QED BY <1>1
<1>3. CASE Len(Head(rest)) = 1 /\ NextPack
  <2>1. /\ DOMAIN rest' = 1..Len(rest) - 1
        /\ \A i \in DOMAIN rest' : rest'[i] = rest[i + 1]
    <3> DEFINE S == Seq(Nalu)
    <3>1. rest \in Seq(S)
      BY DEF RestOK, PackSeq
    <3> HIDE DEF S
    <3>2. rest' = Tail(rest)
      BY <1>3 DEF NextPack
    <3>3. Tail(rest) \in Seq(S) /\ Len(Tail(rest)) = Len(rest) - 1
          /\ \A i \in 1..Len(Tail(rest)) : Tail(rest)[i] = rest[i + 1]
      BY <1>1, <3>1, HeadTailProperties
    <3> QED BY <3>2, <3>3, LenProperties
  <2>2. ASSUME NEW n, NEW i \in DOMAIN rest, NEW j \in DOMAIN rest[i], n = rest[i][j]
        PROVE  n = nalu \/ Left(n)'
    <3>1. CASE i = 1
      <4>1. DOMAIN rest[1] = {1}
        <5>1. Len(rest[1]) = 1
          BY <1>1, <1>3
        <5> QED BY <1>1, <5>1
      <4> QED BY <1>2, <2>2, <3>1, <4>1
    <3>2. CASE i /= 1
      <4>1. i - 1 \in DOMAIN rest' /\ rest'[i - 1] = rest[i]
        BY <1>1, <2>1, <3>2
      <4> QED BY <2>2, <4>1 DEF Left
    <3> QED BY <3>1, <3>2
  <2> QED BY <1>3, <2>2, PackGone DEF Left
<1>4. CASE Len(Head(rest)) > 1 /\ rest' = [rest EXCEPT ![1] = Tail(@)]
  <2>1. /\ DOMAIN rest' = DOMAIN rest /\ rest'[1] = Tail(rest[1])
        /\ \A i \in DOMAIN rest : i /= 1 => rest'[i] = rest[i]
    BY <1>1, <1>4
  <2>2. /\ DOMAIN rest'[1] = 1..Len(rest[1]) - 1 /\ Len(rest'[1]) = Len(rest[1]) - 1
        /\ \A j \in DOMAIN rest'[1] : rest'[1][j] = rest[1][j + 1]
    <3> HIDE DEF Nalu
    <3>1. Tail(rest[1]) \in Seq(Nalu) /\ Len(Tail(rest[1])) = Len(rest[1]) - 1
          /\ \A j \in 1..Len(Tail(rest[1])) : Tail(rest[1])[j] = rest[1][j + 1]
      BY <1>1, HeadTailProperties
    <3> QED BY <2>1, <3>1, LenProperties
  <2>3. Len(rest') = Len(rest)
    <3> DEFINE S == Seq(Nalu)
    <3>1. rest \in Seq(S) /\ Tail(rest[1]) \in S
      <4> HIDE DEF Nalu
      <4> QED BY <1>1, HeadTailProperties DEF RestOK, PackSeq
    <3> HIDE DEF S
    <3> QED BY <1>1, <1>4, <3>1, ExceptSeq
  <2>4. ASSUME NEW i \in DOMAIN rest', NEW j \in DOMAIN rest'[i]
        PROVE  /\ rest'[i][j].cfg = enc'
               /\ rest'[i][j].kind \notin ParamKinds => i = Len(rest') /\ j = Len(rest'[i])
    <3>1. CASE i = 1
      <4>1. j + 1 \in DOMAIN rest[1] /\ rest'[1][j] = rest[1][j + 1] /\ j \in Nat
        BY <1>1, <2>2, <3>1
      <4>2. /\ rest[1][j + 1].cfg = enc
            /\ rest[1][j + 1].kind \notin ParamKinds => 1 = Len(rest) /\ j + 1 = Len(rest[1])
        BY <1>1, <4>1 DEF ItemInv
      <4> QED BY <1>1, <2>2, <2>3, <3>1, <4>1, <4>2
    <3>2. CASE i /= 1
      BY <2>1, <2>3, <3>2 DEF ItemInv
    <3> QED BY <3>1, <3>2
  <2>5. ASSUME NEW n, NEW i \in DOMAIN rest, NEW j \in DOMAIN rest[i], n = rest[i][j]
        PROVE  n = nalu \/ Left(n)'
    <3>1. CASE i = 1 /\ j = 1
      BY <1>2, <2>5, <3>1
    <3>2. CASE i = 1 /\ j /= 1
      <4>1. j - 1 \in DOMAIN rest'[1] /\ rest'[1][j - 1] = rest[1][j] /\ 1 \in DOMAIN rest'
        BY <1>1, <2>1, <2>2, <3>2
      <4> QED BY <2>5, <3>2, <4>1 DEF Left
    <3>3. CASE i /= 1
      BY <2>1, <2>5, <3>3 DEF Left
    <3> QED BY <3>1, <3>2, <3>3
  <2>6. ItemInv'
    BY <2>4 DEF ItemInv
  <2> QED BY <2>5, <2>6 DEF Left
<1> QED BY <1>3, <1>4 DEF NextNalu

(* A picture in hand is all that is left of its item. *)
LEMMA PictureLast ==
  ASSUME RestOK, ItemInv, pc /= "read"
  PROVE  /\ nalu.cfg = enc /\ nalu \in Nalu
         /\ nalu.kind \notin ParamKinds => \A n : Left(n) => n = nalu
<1>1. /\ Len(rest) \in Nat /\ Len(rest) >= 1 /\ DOMAIN rest = 1..Len(rest)
      /\ nalu = Head(rest[1]) /\ nalu \in Nalu
      /\ rest[1] \in Seq(Nalu) /\ Len(rest[1]) \in Nat \ {0} /\ DOMAIN rest[1] = 1..Len(rest[1])
  <2> HIDE DEF Nalu
  <2> QED BY RestFacts, InHand DEF nalu
<1>2. nalu = rest[1][1] /\ 1 \in DOMAIN rest /\ 1 \in DOMAIN rest[1]
  <2> HIDE DEF Nalu
  <2> QED BY <1>1
<1>3. ASSUME nalu.kind \notin ParamKinds
      PROVE  \A n : Left(n) => n = nalu
  <2>1. Len(rest) = 1 /\ Len(rest[1]) = 1
    BY <1>1, <1>2, <1>3 DEF ItemInv
  <2>2. DOMAIN rest = {1} /\ DOMAIN rest[1] = {1}
    BY <1>1, <2>1
  <2> QED BY <1>2, <2>2 DEF Left
<1> QED BY <1>1, <1>2, <1>3 DEF ItemInv

LEMMA FourInAll ==
  ASSUME NEW a, NEW b, NEW c, NEW d
  PROVE  /\ Len(Append(<<a, b, c>>, d)) = 4 /\ DOMAIN Append(<<a, b, c>>, d) = 1..4
         /\ Append(<<a, b, c>>, d)[1] = a /\ Append(<<a, b, c>>, d)[2] = b
         /\ Append(<<a, b, c>>, d)[3] = c /\ Append(<<a, b, c>>, d)[4] = d
OBVIOUS

(* A new item: of one configuration, picture last, and a key picture with  *)
(* all the sets before it.                                                 *)
LEMMA NewItem ==
  ASSUME NEW c \in Cfgs, enc' = c,
         rest' \in KeyItems(c) \cup {DeltaItem(c)}
  PROVE  /\ ItemInv'
         /\ rest' \in KeyItems(c) =>
              \A k \in ParamKinds : Left([kind |-> k, cfg |-> c])'
<1> DEFINE n(k) == [kind |-> k, cfg |-> c]
<1>1. \A k : n(k).kind = k /\ n(k).cfg = c
  OBVIOUS
<1>2. ParamKinds = {"vps", "sps", "pps"}
  BY DEF ParamKinds
<1> HIDE DEF n
<1>3. ParamGroup(c) = <<n("vps"), n("sps"), n("pps")>>
  BY DEF ParamGroup, n
<1>4. CASE rest' = DeltaItem(c)
  <2>1. rest' = << <<n("delta")>> >>
    BY <1>4 DEF DeltaItem, n
  <2>2. /\ DOMAIN rest' = {1} /\ Len(rest') = 1 /\ DOMAIN rest'[1] = {1} /\ Len(rest'[1]) = 1
        /\ rest'[1][1] = n("delta")
    BY <2>1
  <2>3. ItemInv'
    BY <1>1, <2>2 DEF ItemInv
  <2>4. rest' \notin KeyItems(c)
    <3>1. ASSUME NEW k \in KeyKinds, rest' = <<Append(ParamGroup(c), n(k))>> PROVE FALSE
      <4>1. rest'[1] = Append(<<n("vps"), n("sps"), n("pps")>>, n(k))
        BY <1>3, <3>1
      <4>2. rest'[1][1] = n("vps")
        BY <4>1
      <4> QED BY <1>1, <2>2, <4>2
    <3>2. ASSUME NEW k \in KeyKinds, rest' = <<ParamGroup(c), <<n(k)>>>> PROVE FALSE
      <4>1. Len(rest') = 2
        BY <3>2
      <4> QED BY <2>2, <4>1
    <3> QED BY <3>1, <3>2 DEF KeyItems, n
  <2> QED BY <2>3, <2>4
<1>5. CASE \E k \in KeyKinds : rest' = <<Append(ParamGroup(c), n(k))>>
  <2>1. PICK k \in KeyKinds : rest' = <<Append(ParamGroup(c), n(k))>>
    BY <1>5
  <2>2. rest'[1] = Append(<<n("vps"), n("sps"), n("pps")>>, n(k))
    BY <1>3, <2>1
  <2>3. /\ DOMAIN rest' = {1} /\ Len(rest') = 1
        /\ DOMAIN rest'[1] = 1..4 /\ Len(rest'[1]) = 4
        /\ rest'[1][1] = n("vps") /\ rest'[1][2] = n("sps")
        /\ rest'[1][3] = n("pps") /\ rest'[1][4] = n(k)
    <3>1. DOMAIN rest' = {1} /\ Len(rest') = 1
      BY <2>1
    <3> QED BY <2>2, <3>1, FourInAll
  <2>4. ItemInv'
    <3>1. ASSUME NEW i \in DOMAIN rest', NEW j \in DOMAIN rest'[i]
          PROVE  \/ rest'[i][j] \in {n("vps"), n("sps"), n("pps")}
                 \/ rest'[i][j] = n(k) /\ i = Len(rest') /\ j = Len(rest'[i])
      <4>1. i = 1 /\ (j = 1 \/ j = 2 \/ j = 3 \/ j = 4)
        BY <2>3
      <4> QED BY <2>3, <4>1
    <3> QED BY <1>1, <1>2, <3>1 DEF ItemInv
  <2>5. \A m \in ParamKinds : Left(n(m))'
    <3>1. 1 \in 1..4 /\ 2 \in 1..4 /\ 3 \in 1..4
      OBVIOUS
    <3> QED BY <1>2, <2>3, <3>1 DEF Left
  <2> QED BY <2>4, <2>5 DEF n
<1>6. CASE \E k \in KeyKinds : rest' = <<ParamGroup(c), <<n(k)>>>>
  <2>1. PICK k \in KeyKinds : rest' = <<ParamGroup(c), <<n(k)>>>>
    BY <1>6
  <2>2. /\ DOMAIN rest' = {1, 2} /\ Len(rest') = 2
        /\ DOMAIN rest'[1] = {1, 2, 3} /\ Len(rest'[1]) = 3
        /\ DOMAIN rest'[2] = {1} /\ Len(rest'[2]) = 1
        /\ rest'[1][1] = n("vps") /\ rest'[1][2] = n("sps")
        /\ rest'[1][3] = n("pps") /\ rest'[2][1] = n(k)
    BY <1>3, <2>1
  <2>3. ItemInv'
    <3>1. ASSUME NEW i \in DOMAIN rest', NEW j \in DOMAIN rest'[i]
          PROVE  \/ rest'[i][j] \in {n("vps"), n("sps"), n("pps")}
                 \/ rest'[i][j] = n(k) /\ i = Len(rest') /\ j = Len(rest'[i])
      BY <2>2
    <3> QED BY <1>1, <1>2, <3>1 DEF ItemInv
  <2>4. \A m \in ParamKinds : Left(n(m))'
    BY <1>2, <2>2 DEF Left
  <2> QED BY <2>3, <2>4 DEF n
<1> QED BY <1>4, <1>5, <1>6 DEF KeyItems, n

LEMMA BlindInit == LiveInit => BlindInv
BY DEF LiveInit, ServerInit, BlindInv, ItemInv, StageInv, GateInv, Granted, Busy, Playing

LEMMA ReadBlind == IInv /\ BlindInv /\ Read => BlindInv'
<1> SUFFICES ASSUME IInv, BlindInv, Read PROVE BlindInv'
  OBVIOUS
<1>1. RestOK /\ enc \in Cfgs
  BY Parts DEF IInv, ItemTypeOK
<1>2. PICK c \in Cfgs : /\ enc' = c /\ rest' \in KeyItems(c) \cup {DeltaItem(c)}
                        /\ rest' \in KeyItems(c) \/ enc' = enc
  BY <1>1 DEF Read
<1>3. ItemInv' /\ (rest' \in KeyItems(c) => \A k \in ParamKinds : Left([kind |-> k, cfg |-> c])')
  BY <1>2, NewItem
<1>4. StageInv'
  BY DEF StageInv, Read
<1>5. GateInv'
  <2> SUFFICES ASSUME excuse' = {}
               PROVE  /\ ~blind' /\ (Granted' => Prepared')
                      /\ ~Busy'
    BY DEF GateInv
  <2>1. excuse = {} /\ ~blind' /\ ~Busy'
    BY DEF Read, watchVars, BlindInv, GateInv, Busy
  <2>2. Granted' => Granted
    BY DEF Granted, Read, Busy, Playing, serverVars, session
  <2>3. Granted => Prepared'
    <3> SUFFICES ASSUME Prepared PROVE Prepared'
      BY <2>1 DEF BlindInv, GateInv
    <3>1. \A k \in ParamKinds : rx.sets[k] = enc
      BY <1>1 DEF Prepared, SetsDue, Left, RestOK, Read
    <3>2. UNCHANGED <<rx, wait_for_idr>> /\ pc /= "mark"
      BY DEF Read, watchVars
    <3>3. SetsDue'
      BY <1>2, <1>3, <3>1, <3>2 DEF SetsDue
    <3> QED BY <3>2, <3>3 DEF Prepared
  <2> QED BY <2>1, <2>2, <2>3
<1> QED BY <1>3, <1>4, <1>5 DEF BlindInv

LEMMA SameItem == ItemInv /\ UNCHANGED itemVars => ItemInv'
BY DEF ItemInv, itemVars

LEMMA SameSets == SetsDue /\ UNCHANGED itemVars /\ UNCHANGED rx => SetsDue'
BY DEF SetsDue, Left, itemVars

LEMMA GetTargetBlind == IInv /\ BlindInv /\ GetTarget => BlindInv'
<1> SUFFICES ASSUME IInv, BlindInv, GetTarget PROVE BlindInv'
  OBVIOUS
<1>1. ItemInv'
  BY SameItem DEF BlindInv, GetTarget
<1>2. UNCHANGED <<rx, blind, excuse, wait_for_idr, g_play, g_client_addr_set, g_client_addr,
                  g_need_parameter_sets>>
  BY DEF GetTarget, watchVars, serverVars, session
<1>3. StageInv'
  BY <1>2 DEF StageInv, GetTarget, Playing
<1>4. Granted' => Granted
  BY <1>2 DEF Granted, GetTarget, Busy, Playing
<1>5. Prepared => Prepared'
  BY <1>2, SameSets DEF Prepared, GetTarget
<1>6. Busy' /\ dest' /= Watched => ~(Playing /\ g_client_addr = Watched)'
  BY <1>2 DEF GetTarget
<1> QED BY <1>1, <1>2, <1>3, <1>4, <1>5, <1>6 DEF BlindInv, GateInv

LEMMA MapPackBlind == IInv /\ BlindInv /\ MapPack => BlindInv'
<1> SUFFICES ASSUME IInv, BlindInv, MapPack PROVE BlindInv'
  OBVIOUS
<1>1. RestOK
  BY Parts DEF IInv, ItemTypeOK
<1>2. UNCHANGED <<rx, blind, wait_for_idr, can_send, dest, enc, g_play, g_client_addr_set,
                  g_client_addr, g_need_parameter_sets>>
  BY DEF MapPack, serverVars, session
<1>3. CASE pc' = "nalu" /\ UNCHANGED <<rest, excuse>>
  <2>1. ItemInv' /\ StageInv'
    BY <1>2, <1>3, SameItem DEF BlindInv, StageInv, MapPack, Playing, itemVars
  <2>2. Granted' => Granted
    BY <1>2, <1>3 DEF Granted, MapPack, Busy, Playing
  <2>3. Prepared => Prepared'
    BY <1>2, <1>3, SameSets DEF Prepared, MapPack, itemVars
  <2>4. Busy' => Busy
    BY <1>2, <1>3 DEF Busy, MapPack
  <2> QED BY <1>2, <1>3, <2>1, <2>2, <2>3, <2>4 DEF BlindInv, GateInv, Playing
<1>4. CASE NextPack /\ IF can_send THEN Blame("loss") ELSE UNCHANGED excuse
  <2>1. ItemInv'
    BY <1>1, <1>2, <1>4, PackGone DEF BlindInv, MapPack
  <2>2. StageInv' /\ pc' \in {"read", "map"}
    BY <1>2, <1>4 DEF BlindInv, StageInv, NextPack, Playing, MapPack
  <2>3. CASE can_send /\ dest = Watched
    BY <1>4, <2>1, <2>2, <2>3 DEF BlindInv, GateInv, Blame
  <2>4. CASE ~(can_send /\ dest = Watched)
    <3>1. excuse' = excuse
      BY <1>4, <2>4 DEF Blame
    <3>2. excuse = {} => ~Granted'
      BY <1>2, <2>2, <2>4 DEF BlindInv, StageInv, GateInv, Granted, Busy, Playing, MapPack
    <3>3. Busy' => Busy
      BY <1>2, <2>2 DEF Busy, MapPack
    <3> QED BY <1>2, <2>1, <2>2, <3>1, <3>2, <3>3 DEF BlindInv, GateInv, Playing
  <2> QED BY <2>3, <2>4
<1> QED BY <1>3, <1>4 DEF MapPack

LEMMA BeginNaluBlind == IInv /\ BlindInv /\ BeginNalu => BlindInv'
<1> SUFFICES ASSUME IInv, BlindInv, BeginNalu PROVE BlindInv'
  OBVIOUS
<1>1. RestOK
  BY Parts DEF IInv, ItemTypeOK
<1>2. UNCHANGED <<rx, blind, excuse, wait_for_idr, can_send, dest, enc, g_play,
                  g_client_addr_set, g_client_addr, g_need_parameter_sets>>
  BY DEF BeginNalu, serverVars, session, watchVars
<1>3. CASE ~can_send /\ NextNalu
  <2>1. ItemInv' /\ pc' \in {"read", "map", "nalu"}
    BY <1>1, <1>2, <1>3, NaluGone, NextNaluRest DEF BlindInv, BeginNalu
  <2>2. StageInv' /\ ~Granted' /\ ~Busy'
    BY <1>2, <1>3, <2>1 DEF BlindInv, StageInv, Granted, Busy, Playing, BeginNalu
  <2> QED BY <1>2, <2>1, <2>2 DEF BlindInv, GateInv
<1>4. CASE can_send /\ pc' = (IF g_need_parameter_sets THEN "sets" ELSE "send") /\ UNCHANGED rest
  <2>1. ItemInv' /\ StageInv'
    BY <1>2, <1>4, SameItem DEF BlindInv, StageInv, itemVars
  <2>2. Granted' => Granted
    BY <1>2, <1>4 DEF Granted, Busy, BeginNalu
  <2>3. Prepared => Prepared'
    BY <1>2, <1>4, SameSets DEF Prepared, BeginNalu, itemVars
  <2>4. Busy
    BY <1>4 DEF Busy, BeginNalu
  <2> QED BY <1>2, <2>1, <2>2, <2>3, <2>4 DEF BlindInv, GateInv, Playing
<1> QED BY <1>3, <1>4 DEF BeginNalu

LEMMA SendCachedBlind == IInv /\ BlindInv /\ SendCached => BlindInv'
<1> SUFFICES ASSUME IInv, BlindInv, SendCached PROVE BlindInv'
  OBVIOUS
<1>1. RestOK /\ WatchTypeOK
  BY Parts DEF IInv, ItemTypeOK
<1>2. /\ UNCHANGED <<blind, wait_for_idr, can_send, dest, cached, enc, g_play,
                     g_client_addr_set, g_client_addr, g_need_parameter_sets>>
      /\ can_send /\ g_need_parameter_sets /\ Busy
  BY DEF SendCached, serverVars, session, BlindInv, StageInv, Busy
<1>3. CASE NextNalu /\ UNCHANGED excuse
  <2>1. ItemInv' /\ pc' \in {"read", "map", "nalu"}
    BY <1>1, <1>2, <1>3, NaluGone, NextNaluRest DEF BlindInv, SendCached
  <2>2. StageInv' /\ ~Granted'
    BY <1>2, <2>1 DEF StageInv, Granted
  <2> QED BY <1>2, <1>3, <2>1, <2>2 DEF BlindInv, GateInv, Playing
<1>4. CASE /\ pc' = "mark" /\ DeliverSets(ParamKinds) /\ UNCHANGED rest
           /\ IF \E k \in ParamKinds : cached[k] /= nalu.cfg
              THEN Blame("stale") ELSE UNCHANGED excuse
  <2>1. ItemInv' /\ StageInv'
    BY <1>2, <1>4, SameItem DEF BlindInv, StageInv, itemVars
  <2>2. CASE dest /= Watched
    <3>1. excuse' = excuse /\ ~Granted'
      BY <1>2, <1>4, <2>2 DEF Blame, Granted, Busy
    <3> QED BY <1>2, <2>1, <3>1 DEF BlindInv, GateInv, Playing
  <2>3. CASE dest = Watched
    <3> SUFFICES ASSUME excuse' = {} PROVE excuse = {} /\ Prepared'
      BY <1>2, <2>1, <2>3 DEF BlindInv, GateInv
    <3>1. excuse = {} /\ \A k \in ParamKinds : cached[k] = nalu.cfg
      BY <1>4, <2>3 DEF Blame
    <3>2. nalu.cfg = enc
      BY <1>1, PictureLast DEF BlindInv, SendCached
    <3>3. \A k \in ParamKinds : rx'.sets[k] = cached[k]
      BY <1>1, <1>4, <2>3 DEF DeliverSets, WatchTypeOK
    <3>4. SetsDue'
      BY <1>2, <3>1, <3>2, <3>3 DEF SetsDue
    <3> QED BY <1>4, <3>1, <3>4 DEF Prepared
  <2> QED BY <2>2, <2>3
<1> QED BY <1>3, <1>4 DEF SendCached

LEMMA MarkSentBlind == IInv /\ BlindInv /\ MarkSent => BlindInv'
<1> SUFFICES ASSUME IInv, BlindInv, MarkSent PROVE BlindInv'
  OBVIOUS
<1>1. UNCHANGED <<rx, blind, excuse, can_send, dest, enc, rest, g_play, g_client_addr_set,
                  g_client_addr>>
      /\ can_send /\ Busy /\ wait_for_idr'
  BY DEF MarkSent, watchVars, itemVars, BlindInv, StageInv, Busy
<1>2. ItemInv' /\ StageInv'
  BY <1>1, SameItem DEF BlindInv, StageInv, itemVars, MarkSent
<1>3. Granted' => Granted
  BY <1>1 DEF Granted, Busy, MarkSent
<1>4. Prepared => Prepared'
  BY <1>1, SameSets DEF Prepared, itemVars
<1> QED BY <1>1, <1>2, <1>3, <1>4 DEF BlindInv, GateInv, Playing

(* Everything withheld or sent is something the receiver can do without or *)
(* can decode, unless a cause has been noted.                              *)
LEMMA SendNaluBlind == IInv /\ BlindInv /\ SendNalu => BlindInv'
<1> SUFFICES ASSUME IInv, BlindInv, SendNalu PROVE BlindInv'
  OBVIOUS
<1>1. RestOK /\ WatchTypeOK
  BY Parts DEF IInv, ItemTypeOK
<1>2. /\ UNCHANGED <<can_send, dest, enc, g_play, g_client_addr_set, g_client_addr,
                     g_need_parameter_sets>>
      /\ can_send /\ Busy /\ pc = "send"
  BY DEF SendNalu, serverVars, session, BlindInv, StageInv, Busy
<1>3. ItemInv' /\ pc' \in {"read", "map", "nalu"}
  <2>1. CASE NextNalu
    BY <1>1, <1>2, <2>1, NaluGone, NextNaluRest DEF BlindInv
  <2>2. CASE NextPack
    BY <1>1, <1>2, <2>2, PackGone DEF BlindInv, NextPack
  <2> QED BY <2>1, <2>2 DEF SendNalu
<1>4. StageInv'
  BY <1>2, <1>3 DEF StageInv
<1>5. CASE dest /= Watched
  <2>1. UNCHANGED <<blind, excuse>> \/ (blind' = blind /\ excuse' /= {})
    BY <1>5 DEF SendNalu, Receive, Blame
  <2>2. excuse = {} => ~Granted'
    BY <1>2, <1>3, <1>5 DEF BlindInv, GateInv, Granted, Busy, Playing
  <2> QED BY <1>2, <1>3, <1>4, <2>1, <2>2 DEF BlindInv, GateInv, Playing
<1>6. CASE dest = Watched
  <2> SUFFICES ASSUME excuse' = {} PROVE ~blind' /\ Prepared'
    BY <1>2, <1>3, <1>4, <1>6 DEF BlindInv, GateInv
  <2>1. excuse = {} /\ UNCHANGED faults /\ NextNalu
    BY <1>6 DEF SendNalu, Blame, Fault
  <2>2. SetsDue /\ (wait_for_idr \/ rx.synced) /\ ~blind
    BY <1>2, <1>6, <2>1 DEF BlindInv, GateInv, Granted, Prepared
  <2>3. /\ nalu.cfg = enc /\ nalu \in Nalu
        /\ nalu.kind \notin ParamKinds => \A n : Left(n) => n = nalu
        /\ \A n : Left(n) => n = nalu \/ Left(n)'
    BY <1>1, <1>2, <2>1, NaluGone, PictureLast DEF BlindInv
  <2>4. CASE wait_for_idr /\ nalu.kind /= "idr"
    <3>1. /\ UNCHANGED <<wait_for_idr, rx, blind>>
          /\ nalu.kind \in ParamKinds => rx.sets[nalu.kind] = nalu.cfg
      BY <1>6, <2>1, <2>4 DEF SendNalu, Blame
    <3>2. ASSUME NEW k \in ParamKinds
          PROVE  rx.sets[k] = enc \/ Left([kind |-> k, cfg |-> enc])'
      <4>1. rx.sets[k] = enc \/ Left([kind |-> k, cfg |-> enc])
        BY <2>2 DEF SetsDue
      <4>2. nalu = [kind |-> k, cfg |-> enc] => rx.sets[k] = enc
        BY <2>3, <3>1
      <4>3. Left([kind |-> k, cfg |-> enc]) =>
              nalu = [kind |-> k, cfg |-> enc] \/ Left([kind |-> k, cfg |-> enc])'
        BY <1>2, <2>3
      <4> QED BY <4>1, <4>2, <4>3
    <3>3. SetsDue'
      BY <1>2, <3>1, <3>2 DEF SetsDue
    <3> QED BY <2>2, <2>4, <3>1, <3>3 DEF Prepared
  <2>5. CASE ~(wait_for_idr /\ nalu.kind /= "idr")
    <3>1. Receive(nalu)
      BY <1>6, <2>1, <2>5 DEF SendNalu, Blame
    <3>2. CASE nalu.kind \in ParamKinds
      <4>1. rx' = [rx EXCEPT !.sets[nalu.kind] = nalu.cfg] /\ blind' = blind
        BY <1>6, <3>1, <3>2 DEF Receive
      <4>2. rx.synced
        BY <2>2, <2>5, <3>2 DEF ParamKinds
      <4>3. /\ rx'.synced = rx.synced
            /\ \A k \in ParamKinds : rx'.sets[k] = IF k = nalu.kind THEN enc ELSE rx.sets[k]
        BY <1>1, <2>3, <4>1 DEF WatchTypeOK
      <4>4. ASSUME NEW k \in ParamKinds
            PROVE  rx'.sets[k] = enc \/ Left([kind |-> k, cfg |-> enc])'
        <5>1. CASE k = nalu.kind
          BY <4>3, <5>1
        <5>2. CASE k /= nalu.kind
          <6>1. rx.sets[k] = enc \/ Left([kind |-> k, cfg |-> enc])
            BY <2>2 DEF SetsDue
          <6>2. Left([kind |-> k, cfg |-> enc]) =>
                  nalu = [kind |-> k, cfg |-> enc] \/ Left([kind |-> k, cfg |-> enc])'
            BY <1>2, <2>3
          <6>3. nalu /= [kind |-> k, cfg |-> enc]
            BY <5>2
          <6> QED BY <4>3, <5>2, <6>1, <6>2, <6>3
        <5> QED BY <5>1, <5>2
      <4>5. SetsDue'
        BY <1>2, <4>4 DEF SetsDue
      <4> QED BY <2>2, <4>1, <4>2, <4>3, <4>5 DEF Prepared
    <3>3. CASE nalu.kind \notin ParamKinds
      <4>1. \A k \in ParamKinds : rx.sets[k] = enc
        <5> SUFFICES ASSUME NEW k \in ParamKinds, Left([kind |-> k, cfg |-> enc]) PROVE FALSE
          BY <2>2 DEF SetsDue
        <5>1. nalu = [kind |-> k, cfg |-> enc]
          BY <2>3, <3>3
        <5> QED BY <3>3, <5>1
      <4>2. Decodes(nalu)
        <5>1. CASE nalu.kind = "delta"
          BY <2>2, <2>5, <5>1 DEF Decodes
        <5>2. CASE nalu.kind /= "delta"
          BY <2>3, <4>1, <5>2 DEF Decodes
        <5> QED BY <5>1, <5>2
      <4>3. rx' = [rx EXCEPT !.synced = TRUE] /\ ~blind'
        BY <1>6, <2>2, <3>1, <3>3, <4>2 DEF Receive
      <4>4. rx'.synced /\ rx'.sets = rx.sets
        BY <1>1, <4>3 DEF WatchTypeOK
      <4>5. SetsDue'
        BY <1>2, <4>1, <4>4 DEF SetsDue
      <4> QED BY <4>3, <4>4, <4>5 DEF Prepared
    <3> QED BY <3>2, <3>3
  <2> QED BY <2>4, <2>5
<1> QED BY <1>5, <1>6

LEMMA SetupBlind == IInv /\ BlindInv /\ SetupSession => BlindInv'
<1> SUFFICES ASSUME IInv, BlindInv, SetupSession PROVE BlindInv'
  OBVIOUS
<1>1. /\ UNCHANGED <<pc, enc, rest, can_send, dest, wait_for_idr>>
      /\ ~g_play' /\ g_need_parameter_sets'
  BY DEF SetupSession, Setup, senderVars, itemVars
<1>2. ItemInv' /\ StageInv'
  BY <1>1, SameItem DEF BlindInv, StageInv, Playing, itemVars
<1>3. Granted' => Granted /\ Busy /\ dest = Watched
  BY <1>1 DEF Granted, Busy, Playing
<1>4. CASE g_client_addr' = Watched
  BY <1>1, <1>2, <1>3, <1>4 DEF SetupSession, GateInv, BlindInv, Playing
<1>5. CASE g_client_addr' /= Watched
  <2>1. UNCHANGED watchVars
    BY <1>5 DEF SetupSession
  <2>2. Prepared => Prepared'
    BY <1>1, <2>1, SameSets DEF Prepared, itemVars, watchVars
  <2> QED BY <1>1, <1>2, <1>3, <2>1, <2>2 DEF GateInv, BlindInv, Playing, watchVars
<1> QED BY <1>4, <1>5

LEMMA PlayBlind == IInv /\ BlindInv /\ PlaySession => BlindInv'
<1> SUFFICES ASSUME IInv, BlindInv, PlaySession PROVE BlindInv'
  OBVIOUS
<1>1. /\ UNCHANGED <<pc, enc, rest, can_send, dest, wait_for_idr, rx, blind, g_client_addr>>
      /\ g_need_parameter_sets'
  BY DEF PlaySession, Play, senderVars, itemVars
<1>2. ItemInv' /\ StageInv'
  BY <1>1, SameItem DEF BlindInv, StageInv, itemVars
<1>3. Granted' => Granted
  BY <1>1 DEF Granted
<1>4. Prepared => Prepared'
  BY <1>1, SameSets DEF Prepared, itemVars
<1>5. excuse' = {} => excuse = {} /\ ~(Busy /\ g_client_addr = Watched /\ dest /= Watched)
  BY DEF PlaySession
<1>6. Busy' = Busy
  BY <1>1 DEF Busy
<1> QED BY <1>1, <1>2, <1>3, <1>4, <1>5, <1>6 DEF BlindInv, GateInv, Playing

(* The other requests start nothing. *)
LEMMA OtherBlind == IInv /\ BlindInv /\ (OtherControl \/ UNCHANGED vars) => BlindInv'
<1> SUFFICES ASSUME IInv, BlindInv, OtherControl \/ UNCHANGED vars PROVE BlindInv'
  OBVIOUS
<1>1. /\ UNCHANGED <<pc, enc, rest, can_send, dest, wait_for_idr, rx, blind, excuse,
                     g_client_addr, g_need_parameter_sets>>
      /\ Playing' => Playing
  BY DEF OtherControl, Accept, Teardown, HangUp, Close, senderVars, itemVars, watchVars,
     vars, serverVars, session, Playing
<1>2. ItemInv' /\ StageInv'
  BY <1>1, SameItem DEF BlindInv, StageInv, itemVars
<1>3. (Granted' => Granted) /\ (Busy' => Busy)
  BY <1>1 DEF Granted, Busy
<1>4. Prepared => Prepared'
  BY <1>1, SameSets DEF Prepared, itemVars
<1> QED BY <1>1, <1>2, <1>3, <1>4 DEF BlindInv, GateInv

LEMMA NextBlind == IInv /\ BlindInv /\ [LiveNext]_vars => BlindInv'
BY ReadBlind, GetTargetBlind, MapPackBlind, BeginNaluBlind, SendCachedBlind, MarkSentBlind,
   SendNaluBlind, SetupBlind, PlayBlind, OtherBlind DEF LiveNext, Sender

(* "parameter sets sent, waiting for IDR": whatever the encoder makes and  *)
(* whoever connects, a receiver gets a picture it cannot decode only in a  *)
(* session that was set up or started beside an item sent elsewhere, that  *)
(* lost something, or that was given sets of another configuration.        *)
THEOREM BlindnessHasCause == LiveSpec => []BlindHasCause
<1>1. BlindInv => BlindHasCause
  BY DEF BlindInv, GateInv, BlindHasCause
<1> QED BY Invariance, BlindInit, NextBlind, <1>1, PTL DEF LiveSpec
===============================================================================
