--------------------------- MODULE RtspStreamProofs ---------------------------
(***************************************************************************)
(* Safety of one connection as a stream of bytes (module RtspStream), for  *)
(* any requests, ports and numbers and however recv() cuts and joins the   *)
(* stream: an answer 200 OK is for the request that was carried out,       *)
(* requests are carried out in order and once, and the session is what the *)
(* answers said.                                                           *)
(***************************************************************************)
EXTENDS RtspStream, SequenceTheorems, WellFoundedInduction, TLAPS

USE StreamAssumption, ClientAssumption

(* Within a request the line is followed by its second half and the CSeq.  *)
Follows(t, u) ==
  /\ t.part = "line" => u.part = "line2" /\ u.req = t.req
  /\ t.part = "line2" => u.part = "cseq" /\ u.req = t.req

(* What is on the way: pieces of requests that were made, in their order,  *)
(* and the last of them whole.                                             *)
Stream ==
  /\ \A j \in DOMAIN net : net[j].req \in DOMAIN asked /\ net[j].kind = asked[net[j].req]
  /\ \A j \in 1..Len(net)-1 : Follows(net[j], net[j+1])
  /\ \A j, k \in DOMAIN net : j < k /\ net[k].part = "line" => net[j].req < net[k].req
  /\ net /= <<>> => net[Len(net)].part \notin {"line", "line2"}

(* What was carried out had been asked for, and is older than every        *)
(* request whose line is still to come.                                    *)
Obeyed ==
  /\ \A d \in DOMAIN done : done[d] \in DOMAIN asked
  /\ \A j \in DOMAIN net, d \in DOMAIN done : net[j].part = "line" => done[d] < net[j].req

(* Nothing plays between two connections. *)
Stopped == ctl = "accept" => ~g_play

IInv ==
  /\ StreamTypeOK /\ Stream /\ Obeyed /\ Stopped
  /\ OkMeansDone /\ DoneOnceInOrder /\ SessionIsAsTold

-----------------------------------------------------------------------------
(* The least element of a set of numbers. *)
LEMMA Least ==
  ASSUME NEW T, T \subseteq Nat, T /= {}
  PROVE  \E x \in T : \A y \in T : x <= y
<1> DEFINE R == {p \in Nat \X Nat : p[1] < p[2]}
<1>1. OpToRel(<, Nat) = R
  BY DEF OpToRel
<1>2. IsWellFoundedOn(R, Nat)
  BY <1>1, NatLessThanWellFounded
<1>3. PICK x \in T : \A y \in T : <<y, x>> \notin R
  BY <1>2, WFMin
<1>4. ASSUME NEW y \in T PROVE x <= y
  <2>1. x \in Nat /\ y \in Nat /\ <<y, x>> \notin R
    BY <1>3
  <2> QED
    BY <2>1
<1> QED
  BY <1>4

(* strstr() finds the first place of a part, or none. *)
LEMMA FirstFacts ==
  ASSUME NEW S, NEW c \in Seq(S), NEW part
  PROVE  /\ First(c, part) \in 0..Len(c)
         /\ First(c, part) = 0 => \A j \in 1..Len(c) : c[j].part /= part
         /\ First(c, part) > 0 =>
              /\ c[First(c, part)].part = part
              /\ \A j \in 1..First(c, part)-1 : c[j].part /= part
<1> DEFINE I == {j \in 1..Len(c) : c[j].part = part}
<1>1. First(c, part) = IF I /= {} THEN Min(I) ELSE 0
  BY DEF First, SelectInSeq
<1>2. Len(c) \in Nat /\ I \subseteq 1..Len(c) /\ I \subseteq Nat
  BY LenProperties
<1>3. CASE I = {}
  BY <1>1, <1>2, <1>3
<1>4. CASE I /= {}
  <2>1. Min(I) \in I /\ \A j \in I : Min(I) <= j
    <3> HIDE DEF I
    <3>1. \E x \in I : \A y \in I : x <= y
      BY <1>2, <1>4, Least
    <3> QED
      BY <3>1 DEF Min
  <2>2. First(c, part) = Min(I)
    BY <1>1, <1>4
  <2>3. First(c, part) \in I /\ \A j \in I : First(c, part) <= j
    BY <2>1, <2>2
  <2>4. First(c, part) \in 1..Len(c) /\ c[First(c, part)].part = part
    BY <2>3
  <2>5. ASSUME NEW j \in 1..First(c, part)-1 PROVE c[j].part /= part
    <3>1. j \in 1..Len(c) /\ ~(First(c, part) <= j)
      BY <1>2, <2>4
    <3> QED
      BY <2>3, <3>1
  <2> QED
    BY <1>2, <2>4, <2>5
<1> QED
  BY <1>3, <1>4

(* The bytes of one recv() and those that it leaves. *)
LEMMA CutAt ==
  ASSUME net \in Seq(Token), NEW m \in 1..Len(net)
  PROVE  LET c == SubSeq(net, 1, m)
             rest == SubSeq(net, m + 1, Len(net))
         IN /\ m \in Nat \ {0} /\ m <= Len(net) /\ Len(net) \in Nat
            /\ c \in Seq(Token) /\ Len(c) = m /\ DOMAIN c = 1..m
            /\ \A j \in 1..m : c[j] = net[j] /\ net[j] \in Token
            /\ rest \in Seq(Token) /\ Len(rest) = Len(net) - m
            /\ DOMAIN rest = 1..Len(net)-m
            /\ \A j \in 1..Len(net)-m : rest[j] = net[m + j]
<1>1. Len(net) \in Nat /\ \A j \in 1..Len(net) : net[j] \in Token
  BY ElementOfSeq, LenProperties
<1> DEFINE c == SubSeq(net, 1, m)
           rest == SubSeq(net, m + 1, Len(net))
<1>2. c \in Seq(Token) /\ Len(c) = m /\ \A j \in 1..m : c[j] = net[j]
  <2>1. /\ c \in Seq(Token) /\ Len(c) = IF 1 <= m THEN m - 1 + 1 ELSE 0
        /\ \A j \in 1..m-1+1 : c[j] = net[1+j-1]
    BY <1>1, SubSeqProperties
  <2> HIDE DEF c
  <2> QED
    BY <1>1, <2>1
<1>3. rest \in Seq(Token) /\ Len(rest) = Len(net) - m /\ \A j \in 1..Len(net)-m : rest[j] = net[m + j]
  <2>1. /\ rest \in Seq(Token)
        /\ Len(rest) = IF m + 1 <= Len(net) THEN Len(net) - (m + 1) + 1 ELSE 0
        /\ \A j \in 1..Len(net)-(m+1)+1 : rest[j] = net[m+1+j-1]
    <3>1. m + 1 \in Int /\ Len(net) \in Int /\ \A j \in m+1..Len(net) : net[j] \in Token
      BY <1>1
    <3> QED
      BY <3>1, SubSeqProperties
  <2> HIDE DEF rest
  <2> QED
    BY <1>1, <2>1
<1> HIDE DEF c, rest
<1>4. DOMAIN c = 1..m /\ DOMAIN rest = 1..Len(net)-m
  BY <1>2, <1>3, LenProperties
<1> QED
  BY <1>1, <1>2, <1>3, <1>4 DEF c, rest

(* What the parser takes for the request line, and the CSeq that it finds: *)
(* they are of one request, which was not obeyed before.  If recv() did    *)
(* not end within the line and the number, the number is whole.            *)
LEMMA LineFacts ==
  ASSUME IInv, NEW m \in 1..Len(net), NEW t \in Lines(SubSeq(net, 1, m))
  PROVE  LET c == SubSeq(net, 1, m)
         IN /\ t \in Token /\ t.req \in DOMAIN asked /\ t.kind = asked[t.req]
            /\ \A d \in DOMAIN done : done[d] < t.req
            /\ \A j \in m+1..Len(net) : net[j].part = "line" => t.req < net[j].req
            /\ CSeqAt(c) > 0 => c[CSeqAt(c)].req = t.req
            /\ c[m].part \notin {"line", "line2", "cseq"} => CSeqAt(c) \in 1..m-1
<1> DEFINE c == SubSeq(net, 1, m)
<1>1. /\ m \in Nat \ {0} /\ m <= Len(net) /\ Len(net) \in Nat
      /\ c \in Seq(Token) /\ Len(c) = m /\ DOMAIN c = 1..m /\ DOMAIN net = 1..Len(net)
      /\ \A j \in 1..m : c[j] = net[j] /\ net[j] \in Token
  <2>1. net \in Seq(Token)
    BY DEF IInv, StreamTypeOK
  <2> QED
    BY <2>1, CutAt, LenProperties
<1>2. PICK p \in {k \in 1..2 \cap DOMAIN c : c[k].part = "line" /\ (k = 2 => EndsRequest(c[1]))} :
        t = c[p]
  BY DEF Lines
<1> DEFINE at == CSeqAt(c)
<1>3. /\ at \in 0..m
      /\ at = 0 => \A j \in 1..m : c[j].part /= "cseq"
      /\ at > 0 => c[at].part = "cseq" /\ \A j \in 1..at-1 : c[j].part /= "cseq"
  <2> HIDE DEF c
  <2>1. /\ First(c, "cseq") \in 0..Len(c)
        /\ First(c, "cseq") = 0 => \A j \in 1..Len(c) : c[j].part /= "cseq"
        /\ First(c, "cseq") > 0 =>
             c[First(c, "cseq")].part = "cseq" /\ \A j \in 1..First(c, "cseq")-1 : c[j].part /= "cseq"
    BY <1>1, FirstFacts
  <2>2. at = First(c, "cseq")
    BY DEF CSeqAt
  <2> HIDE DEF at
  <2> QED
    BY <1>1, <2>1, <2>2
<1> HIDE DEF c, at
<1>4. p \in 1..2 /\ p \in 1..m /\ c[p] = net[p] /\ t = net[p] /\ t.part = "line" /\ p \in 1..Len(net)
  BY <1>1, <1>2
<1>5. t \in Token /\ t.req \in DOMAIN asked /\ t.kind = asked[t.req]
  BY <1>1, <1>4 DEF IInv, Stream
<1>6. \A d \in DOMAIN done : done[d] < t.req
  BY <1>1, <1>4 DEF IInv, Obeyed
<1>7. ASSUME NEW j \in m+1..Len(net), net[j].part = "line" PROVE t.req < net[j].req
  <2>1. j \in DOMAIN net /\ p \in DOMAIN net /\ p < j
    BY <1>1, <1>4
  <2> QED
    BY <1>4, <1>7, <2>1 DEF IInv, Stream
<1>8. \A j \in 1..p : c[j].part /= "cseq"
  <2>1. p = 2 => c[1].part /= "cseq"
    BY <1>2 DEF EndsRequest
  <2> QED
    BY <1>4, <2>1
<1>9. p + 1 \in 1..m => c[p+1].part = "line2" /\ c[p+1].req = t.req
  <2> SUFFICES ASSUME p + 1 \in 1..m PROVE c[p+1].part = "line2" /\ c[p+1].req = t.req
    OBVIOUS
  <2>1. p \in 1..Len(net)-1 /\ c[p+1] = net[p+1]
    BY <1>1, <1>4
  <2> QED
    BY <1>4, <2>1 DEF IInv, Stream, Follows
<1>10. p + 2 \in 1..m => c[p+2].part = "cseq" /\ c[p+2].req = t.req
  <2> SUFFICES ASSUME p + 2 \in 1..m PROVE c[p+2].part = "cseq" /\ c[p+2].req = t.req
    OBVIOUS
  <2>1. p + 1 \in 1..m /\ p + 1 \in 1..Len(net)-1 /\ c[p+1] = net[p+1] /\ c[p+2] = net[(p+1)+1]
    BY <1>1, <1>4
  <2> QED
    BY <1>9, <2>1 DEF IInv, Stream, Follows
<1>11. at > 0 => at = p + 2
  <2> SUFFICES ASSUME at > 0 PROVE at = p + 2
    OBVIOUS
  <2>1. at \in 1..m /\ c[at].part = "cseq"
    BY <1>1, <1>3
  <2>2. at \notin 1..p /\ at /= p + 1
    BY <1>8, <1>9, <2>1
  <2>3. p + 2 <= at /\ p + 2 \in 1..m
    BY <1>1, <1>4, <2>1, <2>2
  <2>4. p + 2 \notin 1..at-1
    BY <1>3, <1>10, <2>3
  <2> QED
    BY <1>1, <1>4, <2>1, <2>3, <2>4
<1>12. p + 2 \in 1..m => at = p + 2
  BY <1>1, <1>3, <1>10, <1>11
<1>13. at > 0 => c[at].req = t.req
  BY <1>1, <1>3, <1>10, <1>11
<1>14. c[m].part \notin {"line", "line2", "cseq"} => at \in 1..m-1
  <2> SUFFICES ASSUME c[m].part \notin {"line", "line2", "cseq"} PROVE at \in 1..m-1
    OBVIOUS
  <2>1. m /= p /\ m /= p + 1 /\ m /= p + 2
    BY <1>1, <1>4, <1>9, <1>10
  <2>2. p + 2 \in 1..m
    BY <1>1, <1>4, <2>1
  <2> QED
    BY <1>1, <1>4, <1>12, <2>1, <2>2
<1> QED
  BY <1>5, <1>6, <1>7, <1>13, <1>14 DEF c, at

(* The pieces of a new request. *)
LEMMA TokensFacts ==
  ASSUME NEW r \in Nat, NEW k \in Kinds
  PROVE  LET s == Tokens(r, k)
         IN /\ s \in Seq(Token) /\ Len(s) \in {4, 6} /\ s[Len(s)].part \notin {"line", "line2"}
            /\ \A j \in 1..Len(s) : s[j] \in Token /\ s[j].req = r /\ s[j].kind = k
            /\ \A j \in 1..Len(s) : s[j].part = "line" <=> j = 1
            /\ \A j \in 1..Len(s)-1 : Follows(s[j], s[j+1])
<1> DEFINE T(part) == [req |-> r, kind |-> k, part |-> part]
<1>1. ASSUME NEW part \in Parts
      PROVE  T(part) \in Token /\ T(part).req = r /\ T(part).kind = k /\ T(part).part = part
  BY DEF Token
<1>2. CASE k = "SETUP"
  <2>1. Tokens(r, k) = <<T("line"), T("line2"), T("cseq"), T("cseq2"), T("port"), T("port2")>>
    BY <1>2 DEF Tokens
  <2> QED
    BY <1>1, <2>1 DEF Parts, Follows
<1>3. CASE k /= "SETUP"
  <2>1. Tokens(r, k) = <<T("line"), T("line2"), T("cseq"), T("cseq2")>>
    BY <1>3 DEF Tokens
  <2> QED
    BY <1>1, <2>1 DEF Parts, Follows
<1> QED
  BY <1>2, <1>3

(* atoi() gives a number; if it is not cut off, and above 0, it is the one *)
(* of the request whose line was found.                                    *)
LEMMA CSeqFacts ==
  ASSUME IInv, NEW m \in 1..Len(net), NEW n \in CSeqs(SubSeq(net, 1, m))
  PROVE  LET c == SubSeq(net, 1, m)
         IN /\ n \in Nat
            /\ \A t \in Lines(c) :
                 /\ n >= FirstCSeq /\ ~CutCSeq(c) => n = Number(t.req)
                 /\ c[m].part \notin {"line", "line2", "cseq"} => n = Number(t.req)
<1> DEFINE c == SubSeq(net, 1, m)
           at == CSeqAt(c)
<1>1. c \in Seq(Token) /\ Len(c) = m /\ m \in Nat /\ \A j \in 1..m : c[j] \in Token
  <2>1. net \in Seq(Token)
    BY DEF IInv, StreamTypeOK
  <2> QED
    BY <2>1, CutAt
<1>2. at \in 0..m
  <2>1. First(c, "cseq") \in 0..Len(c)
    <3> HIDE DEF c
    <3> QED
      BY <1>1, FirstFacts
  <2> QED
    BY <1>1, <2>1 DEF CSeqAt
<1>3. n \in IF at = 0 THEN {0}
           ELSE IF at = m THEN {0, Number(c[at].req) \div 10, Number(c[at].req)}
           ELSE {Number(c[at].req)}
  BY <1>1 DEF CSeqs, CutCSeq
<1>4. CutCSeq(c) <=> at = m
  BY <1>1 DEF CutCSeq
<1>5. ASSUME NEW t \in Lines(c)
      PROVE  /\ at > 0 => c[at].req = t.req
             /\ c[m].part \notin {"line", "line2", "cseq"} => at \in 1..m-1
  BY <1>5, LineFacts
<1> HIDE DEF c, at
<1>6. at > 0 => Number(c[at].req) \in Nat
  <2> SUFFICES ASSUME at > 0 PROVE Number(c[at].req) \in Nat
    OBVIOUS
  <2>1. c[at].req \in Nat
    BY <1>1, <1>2 DEF Token
  <2> QED
    BY <2>1 DEF Number
<1>7. n \in Nat
  <2> DEFINE k == Number(c[at].req)
  <2>1. CASE at = 0
    BY <1>3, <2>1
  <2>2. CASE at > 0
    <3>1. k \in Nat /\ n \in {0, k \div 10, k}
      BY <1>3, <1>6, <2>2
    <3> HIDE DEF k
    <3> QED
      BY <3>1
  <2> QED
    BY <1>2, <2>1, <2>2
<1>8. ASSUME NEW t \in Lines(c)
      PROVE  /\ n >= FirstCSeq /\ ~CutCSeq(c) => n = Number(t.req)
             /\ c[m].part \notin {"line", "line2", "cseq"} => n = Number(t.req)
  <2>1. at \in 1..m-1 => n = Number(t.req)
    BY <1>1, <1>3, <1>5
  <2>2. n >= FirstCSeq /\ ~CutCSeq(c) => at \in 1..m-1
    BY <1>1, <1>2, <1>3, <1>4
  <2> QED
    BY <1>5, <2>1, <2>2
<1> QED
  BY <1>7, <1>8 DEF c

-----------------------------------------------------------------------------
(* What is done for a request that is carried out. *)
Obeys(t) ==
  \/ t.kind = "OPTIONS" /\ UNCHANGED serverVars
  \/ t.kind \in {"SETUP", "SETUP_TCP"} /\ \E p \in Ports : Setup(p)
  \/ t.kind = "PLAY" /\ Play
  \/ t.kind = "TEARDOWN" /\ Teardown

(* The bytes of one recv() are refused with nothing changed, or the        *)
(* request whose line they hold is carried out.                            *)
LEMMA Outcomes ==
  ASSUME IInv, NEW m \in 1..Len(net), NEW c, c = SubSeq(net, 1, m),
         \/ BadRequest(c) \/ MethodNotAllowed(c)
         \/ Describe(c) \/ SetupRequest(c) \/ PlayRequest(c) \/ TeardownRequest(c)
  PROVE  \/ \E n \in Nat : Refuse(c, n)
         \/ \E t \in Lines(c), n \in CSeqs(c) : CarryOut(c, n, t.req) /\ Obeys(t)
<1>1. \A n \in CSeqs(c) : n \in Nat
  BY CSeqFacts
<1>2. CASE BadRequest(c)
  BY <1>2 DEF BadRequest
<1>3. CASE MethodNotAllowed(c)
  BY <1>1, <1>3 DEF MethodNotAllowed
<1>4. CASE Describe(c)
  BY <1>4 DEF Describe, Obeys
<1>5. CASE SetupRequest(c)
  BY <1>1, <1>5 DEF SetupRequest, Obeys
<1>6. CASE PlayRequest(c)
  BY <1>6 DEF PlayRequest, Obeys
<1>7. CASE TeardownRequest(c)
  BY <1>7 DEF TeardownRequest, Obeys
<1> QED
  BY <1>2, <1>3, <1>4, <1>5, <1>6, <1>7

(* The server's own variables keep their types. *)
LEMMA ServerStep ==
  ASSUME ServerTypeOK, ctl = "recv",
         UNCHANGED serverVars \/ \E t \in Token : Obeys(t)
  PROVE  ServerTypeOK' /\ ctl' \in {"recv", "close"}
<1>1. CASE UNCHANGED serverVars
  BY <1>1 DEF ServerTypeOK, serverVars, session
<1>2. CASE \E p \in Ports : Setup(p)
  <2>1. conn \in Clients
    BY DEF ServerTypeOK
  <2>2. PICK p \in Ports : Setup(p)
    BY <1>2
  <2>3. g_client_addr' \in Targets /\ g_client_addr_set' = TRUE /\ ctl' = ctl /\ conn' = conn
        /\ g_play' = FALSE /\ g_need_parameter_sets' = TRUE
    BY <2>1, <2>2 DEF Setup, Targets
  <2> QED
    BY <2>1, <2>3 DEF ServerTypeOK
<1>3. CASE Play
  BY <1>3 DEF ServerTypeOK, Play
<1>4. CASE Teardown
  BY <1>4 DEF ServerTypeOK, Teardown
<1> QED
  BY <1>1, <1>2, <1>3, <1>4 DEF Obeys

(* An answer is about a request that was made, if about any. *)
LEMMA AnswerTypes ==
  ASSUME StreamTypeOK, ServerTypeOK', NEW c, NEW n \in Nat, NEW ok \in BOOLEAN, Answer(c, n, ok)
  PROVE  /\ reply' \in [cseq : Nat, cut : BOOLEAN, ok : BOOLEAN]
         /\ answered' \in 0..MaxRequests
         /\ told' \in [play : BOOLEAN, target : Targets \cup NoTargets \cup {NothingTold.target}]
<1> DEFINE r == IF \E q \in DOMAIN asked : Number(q) = n THEN n - FirstCSeq + 1 ELSE 0
           Where == Targets \cup NoTargets \cup {NothingTold.target}
<1>1. /\ reply' = [cseq |-> n, cut |-> CutCSeq(c), ok |-> ok]
      /\ answered' = IF r > 0 THEN r ELSE answered
      /\ told' = IF r > 0 /\ ok THEN Tell(asked[r], g_client_addr') ELSE told
  BY DEF Answer
<1>2. r \in 0..MaxRequests
  <2>1. DOMAIN asked = 1..Len(asked) /\ Len(asked) \in Nat /\ Len(asked) <= MaxRequests
    BY LenProperties DEF StreamTypeOK
  <2>2. ASSUME NEW q \in DOMAIN asked, Number(q) = n PROVE n - FirstCSeq + 1 = q
    BY <2>1, <2>2 DEF Number
  <2> QED
    BY <2>1, <2>2
<1>3. CutCSeq(c) \in BOOLEAN
  BY DEF CutCSeq
<1>4. g_client_addr' \in Where
  BY DEF ServerTypeOK
<1>5. told \in [play : BOOLEAN, target : Where]
  BY DEF StreamTypeOK
<1> HIDE DEF r, Where
<1>6. Tell(asked[r], g_client_addr') \in [play : BOOLEAN, target : Where]
  BY <1>4, <1>5 DEF Tell
<1> QED
  BY <1>1, <1>2, <1>3, <1>5, <1>6 DEF StreamTypeOK, Where

(* What is left of the stream is a stream. *)
LEMMA RestFacts ==
  ASSUME net \in Seq(Token), Stream, NEW m \in 1..Len(net), NEW rest \in Seq(Token),
         Len(rest) = Len(net) - m, \A j \in 1..Len(net)-m : rest[j] = net[m + j]
  PROVE  /\ \A j \in DOMAIN rest : rest[j].req \in DOMAIN asked /\ rest[j].kind = asked[rest[j].req]
         /\ \A j \in 1..Len(rest)-1 : Follows(rest[j], rest[j+1])
         /\ \A j, k \in DOMAIN rest : j < k /\ rest[k].part = "line" => rest[j].req < rest[k].req
         /\ rest /= <<>> => rest[Len(rest)].part \notin {"line", "line2"}
<1>1. /\ m \in Nat \ {0} /\ m <= Len(net) /\ Len(net) \in Nat /\ DOMAIN net = 1..Len(net)
      /\ DOMAIN rest = 1..Len(net)-m
  BY LenProperties
<1>2. ASSUME NEW j \in DOMAIN rest
      PROVE  rest[j].req \in DOMAIN asked /\ rest[j].kind = asked[rest[j].req]
  <2>1. m + j \in DOMAIN net /\ rest[j] = net[m+j]
    BY <1>1
  <2> QED
    BY <2>1 DEF Stream
<1>3. ASSUME NEW j \in 1..Len(rest)-1 PROVE Follows(rest[j], rest[j+1])
  <2>1. m + j \in 1..Len(net)-1 /\ j \in 1..Len(net)-m /\ j + 1 \in 1..Len(net)-m
        /\ m + (j + 1) = (m + j) + 1
    BY <1>1
  <2>2. rest[j] = net[m+j] /\ rest[j+1] = net[(m+j)+1]
    BY <2>1
  <2>3. Follows(net[m+j], net[(m+j)+1])
    BY <2>1 DEF Stream
  <2> QED
    BY ONLY <2>2, <2>3
<1>4. ASSUME NEW j \in DOMAIN rest, NEW k \in DOMAIN rest, j < k, rest[k].part = "line"
      PROVE  rest[j].req < rest[k].req
  <2>1. m + j \in DOMAIN net /\ m + k \in DOMAIN net /\ m + j < m + k
    BY <1>1, <1>4
  <2>2. rest[j] = net[m+j] /\ rest[k] = net[m+k]
    BY <1>1
  <2>3. net[m+k].part = "line" => net[m+j].req < net[m+k].req
    BY <2>1 DEF Stream
  <2> QED
    BY ONLY <1>4, <2>2, <2>3
<1>5. rest /= <<>> => rest[Len(rest)].part \notin {"line", "line2"}
  <2> SUFFICES ASSUME rest /= <<>> PROVE rest[Len(rest)].part \notin {"line", "line2"}
    OBVIOUS
  <2>1. Len(rest) \in 1..Len(net)-m /\ net /= <<>>
    BY <1>1, EmptySeq
  <2>2. rest[Len(rest)] = net[Len(net)]
    BY <1>1, <2>1
  <2> QED
    BY <2>1, <2>2 DEF Stream
<1> QED
  BY <1>2, <1>3, <1>4, <1>5

(* And it stays as old as the requests that may be obeyed next. *)
LEMMA RestStreams ==
  ASSUME IInv, NEW m \in 1..Len(net),
         net' = SubSeq(net, m + 1, Len(net)), asked' = asked
  PROVE  /\ net' \in Seq(Token) /\ Stream'
         /\ DOMAIN net' = 1..Len(net)-m /\ \A j \in 1..Len(net)-m : net'[j] = net[m + j]
<1>1. net \in Seq(Token) /\ Stream
  BY DEF IInv, StreamTypeOK
<1> DEFINE rest == SubSeq(net, m + 1, Len(net))
<1>2. rest \in Seq(Token) /\ Len(rest) = Len(net) - m /\ DOMAIN rest = 1..Len(net)-m
      /\ \A j \in 1..Len(net)-m : rest[j] = net[m + j]
  BY <1>1, CutAt
<1>3. net' = rest
  OBVIOUS
<1> HIDE DEF rest
<1>4. /\ \A j \in DOMAIN rest : rest[j].req \in DOMAIN asked /\ rest[j].kind = asked[rest[j].req]
      /\ \A j \in 1..Len(rest)-1 : Follows(rest[j], rest[j+1])
      /\ \A j, k \in DOMAIN rest : j < k /\ rest[k].part = "line" => rest[j].req < rest[k].req
      /\ rest /= <<>> => rest[Len(rest)].part \notin {"line", "line2"}
  BY <1>1, <1>2, RestFacts
<1>5. Stream'
  BY ONLY <1>3, <1>4, asked' = asked DEF Stream, Follows
<1> QED
  BY ONLY <1>2, <1>3, <1>5

-----------------------------------------------------------------------------
(* Before the first connection nothing is asked, answered or on its way. *)
LEMMA InitIInv == StreamInit => IInv
<1> SUFFICES ASSUME StreamInit PROVE IInv
  OBVIOUS
<1> USE DEF StreamInit, ServerInit
<1>1. ServerTypeOK
  BY DEF ServerTypeOK
<1>2. net \in Seq(Token) /\ asked \in Seq(Kinds) /\ done \in Seq(1..MaxRequests) /\ Len(asked) = 0
  BY EmptySeq
<1>3. /\ reply \in [cseq : Nat, cut : BOOLEAN, ok : BOOLEAN]
      /\ told \in [play : BOOLEAN, target : Targets \cup NoTargets \cup {NothingTold.target}]
  BY DEF NoReply, NothingTold
<1>4. StreamTypeOK
  <2>1. patient \in BOOLEAN /\ gone \in BOOLEAN /\ torn \in BOOLEAN /\ alive \in BOOLEAN
    BY <1>2
  <2>2. answered \in 0..MaxRequests
    BY <1>2
  <2>3. Len(asked) <= MaxRequests
    <3>1. MaxRequests \in Nat
      OBVIOUS
    <3> QED
      BY ONLY <1>2, <3>1
  <2> QED
    BY ONLY <1>1, <1>2, <1>3, <2>1, <2>2, <2>3 DEF StreamTypeOK
<1>5. Stream /\ Obeyed /\ Stopped
  BY <1>2 DEF Stream, Obeyed, Stopped
<1>6. OkMeansDone /\ DoneOnceInOrder /\ SessionIsAsTold
  BY DEF OkMeansDone, DoneOnceInOrder, SessionIsAsTold, NoReply
<1> QED
  BY <1>4, <1>5, <1>6 DEF IInv

(* A new connection starts with nothing asked or told, and nothing plays.  *)
LEMMA ConnectKeeps ==
  ASSUME IInv, NEW c \in Clients, Connect(c)
  PROVE  IInv'
<1> USE DEF Connect, Accept
<1>1. ServerTypeOK'
  BY DEF IInv, StreamTypeOK, ServerTypeOK, session
<1>2. /\ net' = <<>> /\ asked' = <<>> /\ done' = <<>> /\ patient' \in BOOLEAN /\ gone' = FALSE
      /\ reply' = NoReply /\ answered' = 0 /\ told' = NothingTold /\ torn' = FALSE
      /\ g_play' = FALSE /\ ctl' = "recv"
  BY DEF IInv, Stopped, session
<1>3. net' \in Seq(Token) /\ asked' \in Seq(Kinds) /\ done' \in Seq(1..MaxRequests) /\ Len(asked') = 0
  BY <1>2, EmptySeq
<1>4. /\ reply' \in [cseq : Nat, cut : BOOLEAN, ok : BOOLEAN]
      /\ told' \in [play : BOOLEAN, target : Targets \cup NoTargets \cup {NothingTold.target}]
  BY <1>2 DEF NoReply, NothingTold
<1>5. StreamTypeOK'
  <2>1. patient' \in BOOLEAN /\ gone' \in BOOLEAN /\ torn' \in BOOLEAN /\ alive' \in BOOLEAN
    BY <1>2 DEF Up
  <2>2. answered' \in 0..MaxRequests
    BY <1>2
  <2>3. Len(asked') <= MaxRequests
    <3>1. MaxRequests \in Nat
      OBVIOUS
    <3> QED
      BY ONLY <1>2, <1>3, <3>1
  <2> QED
    BY ONLY <1>1, <1>3, <1>4, <2>1, <2>2, <2>3 DEF StreamTypeOK
<1>6. Stream' /\ Obeyed' /\ Stopped'
  BY <1>2 DEF Stream, Obeyed, Stopped
<1>7. OkMeansDone' /\ DoneOnceInOrder'
  BY <1>2 DEF OkMeansDone, DoneOnceInOrder, NoReply
<1>8. SessionIsAsTold'
  <2>1. told'.play = FALSE /\ told'.target = NothingTold.target
    BY <1>2 DEF NothingTold
  <2> QED
    BY <1>2, <2>1 DEF SessionIsAsTold
<1> QED
  BY <1>5, <1>6, <1>7, <1>8 DEF IInv

(* A new request goes behind all others. *)
LEMMA AskKeeps ==
  ASSUME IInv, NEW k \in Kinds, Ask(k)
  PROVE  IInv'
<1> DEFINE r == Len(asked) + 1
           new == Tokens(r, k)
           L == Len(net)
<1>1. /\ ctl = "recv" /\ Len(asked) < MaxRequests
      /\ asked' = Append(asked, k) /\ net' = net \o new
      /\ UNCHANGED <<patient, gone, serverVars, answerVars, alive>>
  BY DEF Ask, Up
<1>2. /\ net \in Seq(Token) /\ asked \in Seq(Kinds) /\ Len(asked) \in Nat /\ L \in Nat
      /\ DOMAIN net = 1..L /\ DOMAIN asked = 1..Len(asked) /\ r \in Nat
      /\ done \in Seq(1..MaxRequests) /\ DOMAIN done = 1..Len(done)
      /\ \A j \in 1..L : net[j] \in Token /\ net[j].req \in Nat
  <2>1. net \in Seq(Token) /\ asked \in Seq(Kinds) /\ done \in Seq(1..MaxRequests)
    BY DEF IInv, StreamTypeOK
  <2>2. Len(asked) \in Nat /\ L \in Nat /\ DOMAIN net = 1..L /\ DOMAIN asked = 1..Len(asked)
        /\ DOMAIN done = 1..Len(done)
    BY <2>1, LenProperties
  <2>3. ASSUME NEW j \in 1..L PROVE net[j] \in Token
    BY <2>1, ElementOfSeq
  <2>4. \A t \in Token : t.req \in Nat
    BY DEF Token
  <2> QED
    BY <2>1, <2>2, <2>3, <2>4
<1>3. /\ new \in Seq(Token) /\ Len(new) \in {4, 6} /\ new[Len(new)].part \notin {"line", "line2"}
      /\ \A j \in 1..Len(new) : new[j] \in Token /\ new[j].req = r /\ new[j].kind = k
      /\ \A j \in 1..Len(new) : new[j].part = "line" <=> j = 1
      /\ \A j \in 1..Len(new)-1 : Follows(new[j], new[j+1])
  BY <1>2, TokensFacts
<1> HIDE DEF new
<1>4. /\ asked' \in Seq(Kinds) /\ Len(asked') = r /\ DOMAIN asked' = 1..r /\ asked'[r] = k
      /\ \A q \in 1..Len(asked) : asked'[q] = asked[q]
  BY <1>1, <1>2, AppendProperties, LenProperties
<1> DEFINE all == net \o new
<1>5. /\ all \in Seq(Token) /\ Len(all) = L + Len(new) /\ DOMAIN all = 1..L+Len(new)
      /\ \A j \in 1..L : all[j] = net[j]
      /\ \A j \in 1..Len(new) : all[L + j] = new[j]
  <2>1. /\ all \in Seq(Token) /\ Len(all) = L + Len(new)
        /\ \A j \in 1..L+Len(new) : all[j] = IF j <= L THEN net[j] ELSE new[j - L]
    BY <1>2, <1>3, ConcatProperties
  <2> HIDE DEF all
  <2>2. DOMAIN all = 1..L+Len(new)
    BY <2>1, LenProperties
  <2>3. ASSUME NEW j \in 1..L PROVE all[j] = net[j]
    BY <1>2, <1>3, <2>1
  <2>4. ASSUME NEW j \in 1..Len(new) PROVE all[L + j] = new[j]
    <3>1. L + j \in 1..L+Len(new) /\ ~(L + j <= L) /\ (L + j) - L = j
      BY <1>2, <1>3
    <3> QED
      BY <2>1, <3>1
  <2> QED
    BY <2>1, <2>2, <2>3, <2>4
<1>6. net' = all
  BY <1>1
<1> HIDE DEF all, r, L
<1>a. r = Len(asked) + 1
  BY DEF r
<1>7. ASSUME NEW j \in 1..L+Len(new)
      PROVE  \/ j \in 1..L /\ all[j] = net[j]
             \/ \E i \in 1..Len(new) : j = L + i /\ all[j] = new[i]
  <2>1. CASE j \in 1..L
    BY <1>5, <2>1
  <2>2. CASE j \notin 1..L
    <3>1. j - L \in 1..Len(new) /\ j = L + (j - L)
      BY <1>2, <1>3, <2>2
    <3>2. all[L + (j - L)] = new[j - L]
      BY <1>5, <3>1
    <3> QED
      BY <3>1, <3>2
  <2> QED
    BY <2>1, <2>2
<1>8. ASSUME NEW j \in 1..L+Len(new)
      PROVE  all[j].req \in 1..r /\ all[j].kind = asked'[all[j].req]
  <2>1. CASE j \in 1..L /\ all[j] = net[j]
    <3>1. net[j].req \in 1..Len(asked) /\ net[j].kind = asked[net[j].req]
      BY <1>2, <2>1 DEF IInv, Stream
    <3> QED
      BY <1>2, <1>4, <1>a, <2>1, <3>1
  <2>2. CASE \E i \in 1..Len(new) : j = L + i /\ all[j] = new[i]
    BY <1>2, <1>3, <1>4, <1>a, <2>2
  <2> QED
    BY <1>7, <2>1, <2>2
<1>9. ASSUME NEW j \in 1..Len(all)-1 PROVE Follows(all[j], all[j+1])
  <2>1. CASE j \in 1..L-1
    <3>1. j \in 1..L /\ j + 1 \in 1..L
      BY <1>2, <2>1
    <3> QED
      BY <1>5, <2>1, <3>1 DEF IInv, Stream, L
  <2>2. CASE j = L
    <3>1. net /= <<>> /\ L \in 1..L
      BY <1>2, <1>5, <2>2 DEF L
    <3>2. all[j].part \notin {"line", "line2"}
      BY <1>5, <2>2, <3>1 DEF IInv, Stream, L
    <3> QED
      BY <3>2 DEF Follows
  <2>3. CASE j > L
    <3> DEFINE i == j - L
    <3>1. i \in 1..Len(new)-1 /\ i \in 1..Len(new) /\ i + 1 \in 1..Len(new) /\ j = L + i /\ j + 1 = L + (i + 1)
      BY <1>2, <1>3, <1>5, <2>3
    <3> HIDE DEF i
    <3>2. all[j] = new[i] /\ all[j+1] = new[i+1]
      BY <1>5, <3>1
    <3> QED
      BY <1>3, <3>1, <3>2
  <2> QED
    BY <1>2, <1>3, <1>5, <2>1, <2>2, <2>3
<1>10. ASSUME NEW i \in 1..L+Len(new), NEW j \in 1..L+Len(new), i < j, all[j].part = "line"
       PROVE  all[i].req < all[j].req
  <2>1. CASE j \in 1..L
    <3>1. i \in 1..L /\ all[i] = net[i] /\ all[j] = net[j]
      BY <1>2, <1>5, <1>10, <2>1
    <3> QED
      BY <1>2, <1>10, <2>1, <3>1 DEF IInv, Stream
  <2>2. CASE j \notin 1..L
    <3>1. PICK b \in 1..Len(new) : j = L + b /\ all[j] = new[b]
      BY <1>7, <2>2
    <3>2. b = 1
      BY <1>3, <1>10, <3>1
    <3>3. i \in 1..L /\ all[i] = net[i] /\ all[j].req = r
      BY <1>2, <1>3, <1>5, <1>10, <3>1, <3>2
    <3>4. net[i].req \in 1..Len(asked)
      BY <1>2, <3>3 DEF IInv, Stream
    <3> QED
      BY <1>2, <1>a, <3>3, <3>4
  <2> QED
    BY <2>1, <2>2
<1>11. all[Len(all)].part \notin {"line", "line2"}
  <2>1. Len(new) \in 1..Len(new) /\ Len(all) = L + Len(new)
    BY <1>3, <1>5
  <2> QED
    BY <1>3, <1>5, <2>1
<1>12. Stream'
  BY ONLY <1>4, <1>5, <1>6, <1>8, <1>9, <1>10, <1>11 DEF Stream, Follows
<1>13. ServerTypeOK'
  BY <1>1 DEF IInv, StreamTypeOK, ServerTypeOK, serverVars, session
<1>14. StreamTypeOK'
  <2>1. Len(asked') <= MaxRequests
    BY <1>1, <1>2, <1>4, <1>a
  <2> QED
    BY <1>1, <1>4, <1>5, <1>6, <1>13, <2>1 DEF IInv, StreamTypeOK, answerVars
<1>15. Obeyed'
  <2>1. done' = done
    BY <1>1 DEF answerVars
  <2>2. \A d \in DOMAIN done : done[d] \in 1..Len(asked) /\ done[d] \in 1..r
    BY <1>2, <1>a DEF IInv, Obeyed
  <2>3. ASSUME NEW j \in 1..L+Len(new), NEW d \in DOMAIN done, all[j].part = "line"
        PROVE  done[d] < all[j].req
    <3>1. CASE j \in 1..L /\ all[j] = net[j]
      BY <1>2, <2>3, <3>1 DEF IInv, Obeyed
    <3>2. CASE \E i \in 1..Len(new) : j = L + i /\ all[j] = new[i]
      <4>1. all[j].req = r
        BY <1>3, <3>2
      <4> QED
        BY <1>2, <1>a, <2>2, <4>1
    <3> QED
      BY <1>7, <3>1, <3>2
  <2> QED
    BY <1>4, <1>5, <1>6, <2>1, <2>2, <2>3 DEF Obeyed
<1>16. Stopped' /\ OkMeansDone' /\ DoneOnceInOrder' /\ SessionIsAsTold'
  BY <1>1 DEF IInv, Stopped, OkMeansDone, DoneOnceInOrder, SessionIsAsTold,
              answerVars, serverVars, session
<1> QED
  BY <1>12, <1>14, <1>15, <1>16 DEF IInv

(* What recv() itself does. *)
Received(m) ==
  /\ Up /\ ctl = "recv" /\ net' = SubSeq(net, m + 1, Len(net)) /\ UNCHANGED clientVars
  /\ torn' = (torn \/ SubSeq(net, 1, m)[m].part \in {"line", "line2", "cseq"})

(* A refusal leaves the session as it is, and as it was told.              *)
LEMMA RefuseKeeps ==
  ASSUME IInv, NEW m \in 1..Len(net), NEW c, Received(m), NEW n \in Nat, Refuse(c, n)
  PROVE  IInv'
<1>1. /\ ctl = "recv" /\ UNCHANGED <<serverVars, done, clientVars>> /\ Answer(c, n, FALSE)
      /\ net' = SubSeq(net, m + 1, Len(net)) /\ torn' \in BOOLEAN /\ (torn => torn')
  BY DEF Received, Refuse, IInv, StreamTypeOK
<1>2. asked' = asked /\ patient' = patient /\ gone' = gone /\ done' = done /\ ctl' = "recv"
      /\ g_play' = g_play /\ g_client_addr' = g_client_addr /\ alive' = alive
  BY <1>1 DEF clientVars, serverVars, session, Received, Up
<1>3. /\ net' \in Seq(Token) /\ Stream' /\ DOMAIN net' = 1..Len(net)-m
      /\ \A j \in 1..Len(net)-m : net'[j] = net[m + j]
  BY <1>1, <1>2, RestStreams
<1>4. ServerTypeOK'
  BY <1>1, ServerStep DEF IInv, StreamTypeOK
<1>5. reply'.ok = FALSE /\ told' = told
  BY <1>1 DEF Answer
<1>6. StreamTypeOK'
  <2>1. /\ reply' \in [cseq : Nat, cut : BOOLEAN, ok : BOOLEAN] /\ answered' \in 0..MaxRequests
        /\ told' \in [play : BOOLEAN, target : Targets \cup NoTargets \cup {NothingTold.target}]
    BY <1>1, <1>4, AnswerTypes DEF IInv
  <2>2. /\ asked \in Seq(Kinds) /\ Len(asked) <= MaxRequests /\ done \in Seq(1..MaxRequests)
        /\ patient \in BOOLEAN /\ gone \in BOOLEAN /\ alive \in BOOLEAN
    BY DEF IInv, StreamTypeOK
  <2> QED
    BY ONLY <1>1, <1>2, <1>3, <1>4, <2>1, <2>2 DEF StreamTypeOK
<1>7. Obeyed'
  <2>1. ASSUME NEW j \in 1..Len(net)-m, NEW d \in DOMAIN done, net'[j].part = "line"
        PROVE  done[d] < net'[j].req
    <3>1. net \in Seq(Token)
      BY DEF IInv, StreamTypeOK
    <3>2. m + j \in DOMAIN net /\ net'[j] = net[m+j]
      BY <1>3, <3>1, LenProperties
    <3> QED
      BY <2>1, <3>2 DEF IInv, Obeyed
  <2>2. \A d \in DOMAIN done : done[d] \in DOMAIN asked
    BY DEF IInv, Obeyed
  <2> QED
    BY ONLY <1>2, <1>3, <2>1, <2>2 DEF Obeyed
<1>8. OkMeansDone' /\ DoneOnceInOrder' /\ Stopped'
  BY <1>2, <1>5 DEF IInv, OkMeansDone, DoneOnceInOrder, Stopped
<1>9. SessionIsAsTold'
  BY <1>1, <1>2, <1>5 DEF IInv, SessionIsAsTold
<1> QED
  BY <1>3, <1>6, <1>7, <1>8, <1>9 DEF IInv

(* The request that is carried out is newer than all before it; its own    *)
(* number is in the answer, or a number that was cut.                      *)
LEMMA CarryOutKeeps ==
  ASSUME IInv, NEW m \in 1..Len(net), NEW c, c = SubSeq(net, 1, m), Received(m),
         NEW t \in Lines(c), NEW n \in CSeqs(c), CarryOut(c, n, t.req), Obeys(t)
  PROVE  IInv'
<1>1. /\ ctl = "recv" /\ UNCHANGED clientVars /\ Answer(c, n, TRUE) /\ done' = Append(done, t.req)
      /\ net' = SubSeq(net, m + 1, Len(net)) /\ torn' \in BOOLEAN /\ torn \in BOOLEAN
      /\ (~torn' <=> ~torn /\ c[m].part \notin {"line", "line2", "cseq"})
  BY DEF Received, CarryOut, IInv, StreamTypeOK
<1>2. asked' = asked /\ patient' = patient /\ gone' = gone /\ alive' = alive
  BY <1>1 DEF clientVars, Received, Up
<1>3. /\ net' \in Seq(Token) /\ Stream' /\ DOMAIN net' = 1..Len(net)-m
      /\ \A j \in 1..Len(net)-m : net'[j] = net[m + j]
  BY <1>1, <1>2, RestStreams
<1>4. /\ t \in Token /\ t.req \in DOMAIN asked /\ t.kind = asked[t.req]
      /\ \A d \in DOMAIN done : done[d] < t.req
      /\ \A j \in m+1..Len(net) : net[j].part = "line" => t.req < net[j].req
  BY LineFacts
<1>5. /\ n \in Nat
      /\ n >= FirstCSeq /\ ~CutCSeq(c) => n = Number(t.req)
      /\ c[m].part \notin {"line", "line2", "cseq"} => n = Number(t.req)
  BY CSeqFacts
<1>6. ServerTypeOK' /\ ctl' \in {"recv", "close"}
  BY <1>1, <1>4, ServerStep DEF IInv, StreamTypeOK
<1>7. /\ asked \in Seq(Kinds) /\ Len(asked) \in Nat /\ Len(asked) <= MaxRequests
      /\ DOMAIN asked = 1..Len(asked) /\ t.req \in 1..MaxRequests /\ t.req \in Nat \ {0}
      /\ done \in Seq(1..MaxRequests) /\ DOMAIN done = 1..Len(done) /\ Len(done) \in Nat
  <2>1. asked \in Seq(Kinds) /\ Len(asked) <= MaxRequests /\ done \in Seq(1..MaxRequests)
    BY DEF IInv, StreamTypeOK
  <2>2. Len(asked) \in Nat /\ DOMAIN asked = 1..Len(asked) /\ DOMAIN done = 1..Len(done) /\ Len(done) \in Nat
    BY <2>1, LenProperties
  <2>3. t.req \in 1..Len(asked)
    BY <1>4, <2>2
  <2> QED
    BY <2>1, <2>2, <2>3
<1> DEFINE L == Len(done)
<1>8. /\ done' \in Seq(1..MaxRequests) /\ Len(done') = L + 1 /\ DOMAIN done' = 1..L+1
      /\ done'[L+1] = t.req /\ \A d \in 1..L : done'[d] = done[d]
  BY <1>1, <1>7, AppendProperties, LenProperties
<1> HIDE DEF L
<1>a. L \in Nat /\ DOMAIN done = 1..L
  BY <1>7 DEF L
<1>9. StreamTypeOK'
  <2>1. /\ reply' \in [cseq : Nat, cut : BOOLEAN, ok : BOOLEAN] /\ answered' \in 0..MaxRequests
        /\ told' \in [play : BOOLEAN, target : Targets \cup NoTargets \cup {NothingTold.target}]
    BY <1>1, <1>5, <1>6, AnswerTypes DEF IInv
  <2>2. patient \in BOOLEAN /\ gone \in BOOLEAN /\ alive \in BOOLEAN
    BY DEF IInv, StreamTypeOK
  <2> QED
    BY ONLY <1>1, <1>2, <1>3, <1>6, <1>7, <1>8, <2>1, <2>2 DEF StreamTypeOK
<1>10. Obeyed'
  <2>1. ASSUME NEW j \in 1..Len(net)-m, NEW d \in 1..L+1, net'[j].part = "line"
        PROVE  done'[d] < net'[j].req
    <3>1. net \in Seq(Token) /\ Len(net) \in Nat /\ DOMAIN net = 1..Len(net)
      BY LenProperties DEF IInv, StreamTypeOK
    <3>2. m + j \in DOMAIN net /\ m + j \in m+1..Len(net) /\ net'[j] = net[m+j]
      BY <1>3, <3>1
    <3>3. CASE d \in 1..L
      BY <1>8, <1>a, <2>1, <3>2, <3>3 DEF IInv, Obeyed
    <3>4. CASE d = L + 1
      BY <1>4, <1>8, <2>1, <3>2, <3>4
    <3> QED
      BY <1>a, <3>3, <3>4
  <2>2. ASSUME NEW d \in 1..L+1 PROVE done'[d] \in DOMAIN asked
    <3>1. CASE d \in 1..L
      BY <1>8, <1>a, <3>1 DEF IInv, Obeyed
    <3>2. CASE d = L + 1
      BY <1>4, <1>8, <3>2
    <3> QED
      BY <1>a, <3>1, <3>2
  <2> QED
    BY ONLY <1>2, <1>3, <1>8, <2>1, <2>2 DEF Obeyed
<1>11. OkMeansDone'
  <2>1. Last(done') = t.req
    BY <1>8 DEF Last
  <2>2. reply'.cseq = n /\ reply'.cut = CutCSeq(c)
    BY <1>1 DEF Answer
  <2> QED
    BY <1>5, <2>1, <2>2 DEF OkMeansDone, Number
<1>12. DoneOnceInOrder'
  <2>1. ASSUME NEW j \in 1..L+1, NEW k \in 1..L+1, j < k PROVE done'[j] < done'[k]
    <3>1. CASE k \in 1..L
      <4>1. j \in 1..L
        BY <1>a, <2>1, <3>1
      <4> QED
        BY <1>8, <1>a, <2>1, <3>1, <4>1 DEF IInv, DoneOnceInOrder
    <3>2. CASE k = L + 1
      <4>1. j \in 1..L
        BY <1>a, <2>1, <3>2
      <4> QED
        BY <1>4, <1>8, <1>a, <3>2, <4>1
    <3> QED
      BY <1>a, <3>1, <3>2
  <2> QED
    BY ONLY <1>8, <2>1 DEF DoneOnceInOrder
<1>13. Stopped'
  BY <1>6 DEF Stopped
<1>14. SessionIsAsTold'
  <2> SUFFICES ASSUME ctl' = "recv", ~torn'
               PROVE  /\ g_play' = told'.play
                      /\ told'.target /= NothingTold.target => g_client_addr' = told'.target
    BY DEF SessionIsAsTold, NothingTold
  <2>1. n = Number(t.req) /\ ~torn
    BY <1>1, <1>5
  <2>2. t.req > 0 /\ n - FirstCSeq + 1 = t.req
    BY <1>7, <2>1 DEF Number
  <2>3. told' = Tell(t.kind, g_client_addr')
    <3>1. \E q \in DOMAIN asked : Number(q) = n
      BY <1>4, <2>1
    <3> QED
      BY <1>1, <1>4, <2>2, <3>1 DEF Answer
  <2>4. g_play = told.play /\ (told.target /= NothingTold.target => g_client_addr = told.target)
    BY <1>1, <2>1 DEF IInv, SessionIsAsTold
  <2>5. told \in [play : BOOLEAN, target : Targets \cup NoTargets \cup {NothingTold.target}]
    BY DEF IInv, StreamTypeOK
  <2>6. CASE t.kind = "OPTIONS" /\ UNCHANGED serverVars
    BY <2>3, <2>4, <2>6 DEF Tell, serverVars, session
  <2>7. CASE t.kind \in {"SETUP", "SETUP_TCP"} /\ \E p \in Ports : Setup(p)
    BY <2>3, <2>7 DEF Tell, Setup
  <2>8. CASE t.kind = "PLAY" /\ Play
    BY <2>3, <2>4, <2>5, <2>8 DEF Tell, Play
  <2>9. CASE t.kind = "TEARDOWN" /\ Teardown
    BY <2>9 DEF Teardown
  <2> QED
    BY <2>6, <2>7, <2>8, <2>9 DEF Obeys
<1> QED
  BY <1>3, <1>9, <1>10, <1>11, <1>12, <1>13, <1>14 DEF IInv

LEMMA RecvKeeps ==
  ASSUME IInv, Recv
  PROVE  IInv'
<1>1. PICK m \in 1..Len(net) :
        LET c == SubSeq(net, 1, m)
        IN /\ Received(m)
           /\ \/ BadRequest(c) \/ MethodNotAllowed(c)
              \/ Describe(c) \/ SetupRequest(c) \/ PlayRequest(c) \/ TeardownRequest(c)
  BY DEF Recv, Received
<1> DEFINE c == SubSeq(net, 1, m)
<1>2. CASE \E n \in Nat : Refuse(c, n)
  BY <1>1, <1>2, RefuseKeeps
<1>3. CASE \E t \in Lines(c), n \in CSeqs(c) : CarryOut(c, n, t.req) /\ Obeys(t)
  BY <1>1, <1>3, CarryOutKeeps
<1> QED
  BY <1>1, <1>2, <1>3, Outcomes

(* The end of a connection drops what is on the way and stops playback.    *)
LEMMA OthersKeep ==
  ASSUME IInv, Leave \/ AnswerKills \/ RecvEnds \/ CloseConnection \/ UNCHANGED vars
  PROVE  IInv'
<1>1. UNCHANGED <<asked, patient, answerVars>> /\ gone' \in BOOLEAN /\ (net' = net \/ net' = <<>>)
      /\ alive' \in BOOLEAN
  BY DEF Up, Leave, AnswerKills, RecvEnds, CloseConnection, vars, clientVars, IInv, StreamTypeOK
<1>2. /\ ServerTypeOK'
      /\ \/ UNCHANGED serverVars
         \/ ctl' = "close"
         \/ ctl' = "accept" /\ g_play' = FALSE
  <2> USE DEF serverVars, session
  <2>1. ServerTypeOK
    BY DEF IInv, StreamTypeOK
  <2>2. CASE UNCHANGED serverVars
    BY <2>1, <2>2 DEF ServerTypeOK
  <2>3. CASE HangUp
    BY <2>1, <2>3 DEF HangUp, ServerTypeOK
  <2>4. CASE Close
    BY <2>1, <2>4 DEF Close, ServerTypeOK
  <2>5. UNCHANGED serverVars \/ HangUp \/ Close
    BY DEF Leave, AnswerKills, RecvEnds, CloseConnection, vars
  <2>6. HangUp => ctl' = "close"
    BY DEF HangUp
  <2>7. Close => ctl' = "accept" /\ g_play' = FALSE
    BY DEF Close
  <2> QED
    BY <2>2, <2>3, <2>4, <2>5, <2>6, <2>7
<1>3. UNCHANGED <<reply, done, answered, told, torn>>
  BY <1>1 DEF answerVars
<1>4. StreamTypeOK'
  <2>1. net' \in Seq(Token)
    BY <1>1, EmptySeq DEF IInv, StreamTypeOK
  <2> QED
    BY <1>1, <1>2, <1>3, <2>1 DEF IInv, StreamTypeOK
<1>5. Stream' /\ Obeyed'
  <2>1. CASE net' = net
    BY <1>1, <1>3, <2>1 DEF IInv, Stream, Obeyed
  <2>2. CASE net' = <<>>
    BY <1>1, <1>3, <2>2 DEF IInv, Stream, Obeyed
  <2> QED
    BY <1>1, <2>1, <2>2
<1>6. OkMeansDone' /\ DoneOnceInOrder'
  BY <1>3 DEF IInv, OkMeansDone, DoneOnceInOrder
<1>7. SessionIsAsTold' /\ Stopped'
  BY <1>2, <1>3 DEF IInv, SessionIsAsTold, Stopped, serverVars, session
<1> QED
  BY <1>4, <1>5, <1>6, <1>7 DEF IInv

(* Every step keeps the inductive invariant. *)
LEMMA NextIInv == IInv /\ [StreamNext]_vars => IInv'
  BY ConnectKeeps, AskKeeps, RecvKeeps, OthersKeep DEF StreamNext

-----------------------------------------------------------------------------
(* The inductive invariant holds throughout. *)
THEOREM Invariance == StreamSpec => []IInv
  BY InitIInv, NextIInv, PTL DEF StreamSpec

(* handle_rtsp_client keeps every variable in its range, whatever the      *)
(* requests and wherever recv() cuts them.                                 *)
THEOREM TypeCorrect == StreamSpec => []StreamTypeOK
<1>1. IInv => StreamTypeOK
  BY DEF IInv
<1> QED
  BY <1>1, Invariance, PTL

(* handle_rtsp_client takes the method from one place of the bytes and the *)
(* CSeq from another: in an answer 200 OK they are of one request.         *)
THEOREM OkIsForTheDone == StreamSpec => []OkMeansDone
<1>1. IInv => OkMeansDone
  BY DEF IInv
<1> QED
  BY <1>1, Invariance, PTL

(* handle_rtsp_client obeys requests in the order they were made, and what *)
(* it left of one that was joined or cut is never obeyed again.            *)
THEOREM ObeyedOnce == StreamSpec => []DoneOnceInOrder
<1>1. IInv => DoneOnceInOrder
  BY DEF IInv
<1> QED
  BY <1>1, Invariance, PTL

(* g_play and g_client_addr are what the answers said, as long as no       *)
(* request was cut off from its number.                                    *)
THEOREM AsTold == StreamSpec => []SessionIsAsTold
<1>1. IInv => SessionIsAsTold
  BY DEF IInv
<1> QED
  BY <1>1, Invariance, PTL
===============================================================================
