------------------------------- MODULE RtspStream -------------------------------
(***************************************************************************)
(* One connection of the RTSP server as the stream of bytes it is:         *)
(* handle_rtsp_client takes what one recv() returns for one request,       *)
(* wherever TCP cut the stream (src/rtsp.c), and acts on the globals of    *)
(* RtspServer.  A request is its line, its CSeq and, for a UDP SETUP, its  *)
(* client_port; each is two halves, because recv() can end inside any of   *)
(* them.                                                                   *)
(***************************************************************************)
EXTENDS RtspServer, SequencesExt

CONSTANTS Kinds,        \* requests that a client may make
          UdpPort,      \* the client_port that it asks for
          FirstCSeq,    \* the number of its first request
          MaxRequests,  \* requests of one connection
          NoPort        \* parse_client_port returns 0

ASSUME StreamAssumption ==
  /\ Kinds \subseteq {"OPTIONS", "SETUP", "SETUP_TCP", "PLAY", "TEARDOWN", "OTHER"}
  /\ UdpPort \in Ports /\ NoPort \notin Ports
  /\ FirstCSeq \in Nat \ {0} /\ MaxRequests \in Nat

VARIABLES
  net,       \* what the client has sent and recv() has not returned
  asked,     \* the requests of this connection
  patient,   \* the client waits for an answer before it asks again
  gone,      \* the client has closed its end
  reply,     \* the last answer: its CSeq, whether that was cut, whether ok
  done,      \* the requests carried out
  answered,  \* the last request whose CSeq was in an answer
  told,      \* what the answers say of the session
  alive,     \* the process lives on
  torn       \* some recv() ended between a request line and its CSeq's end

clientVars == <<asked, patient, gone>>
answerVars == <<reply, done, answered, told, torn>>
vars == <<serverVars, net, clientVars, answerVars, alive>>

Parts == {"line", "line2", "cseq", "cseq2", "port", "port2"}
Token == [req : Nat, kind : Kinds, part : Parts]
NoReply == [cseq |-> 0, cut |-> FALSE, ok |-> FALSE]
NothingTold == [play |-> FALSE, target |-> <<NoClient, NoPort>>]

Number(r) == FirstCSeq + r - 1

StreamTypeOK ==
  /\ ServerTypeOK
  /\ net \in Seq(Token)
  /\ asked \in Seq(Kinds) /\ Len(asked) <= MaxRequests
  /\ patient \in BOOLEAN /\ gone \in BOOLEAN /\ torn \in BOOLEAN /\ alive \in BOOLEAN
  /\ reply \in [cseq : Nat, cut : BOOLEAN, ok : BOOLEAN]
  /\ done \in Seq(1..MaxRequests)
  /\ answered \in 0..MaxRequests
  /\ told \in [play : BOOLEAN, target : Targets \cup NoTargets \cup {NothingTold.target}]

StreamInit ==
  /\ ServerInit
  /\ net = <<>> /\ asked = <<>> /\ patient = FALSE /\ gone = FALSE
  /\ reply = NoReply /\ done = <<>> /\ answered = 0 /\ told = NothingTold /\ torn = FALSE
  /\ alive = TRUE

(* A process that has ended does nothing any more. *)
Up == alive /\ UNCHANGED alive

-----------------------------------------------------------------------------
(* The client *)

Connect(c) ==
  /\ Up /\ Accept(c)
  /\ net' = <<>> /\ asked' = <<>> /\ patient' \in BOOLEAN /\ gone' = FALSE
  /\ reply' = NoReply /\ done' = <<>> /\ answered' = 0 /\ told' = NothingTold
  /\ torn' = FALSE

Tokens(r, k) ==
  LET parts == <<"line", "line2", "cseq", "cseq2">>
                 \o IF k = "SETUP" THEN <<"port", "port2">> ELSE <<>>
  IN [j \in DOMAIN parts |-> [req |-> r, kind |-> k, part |-> parts[j]]]

Ask(k) ==
  /\ Up /\ ctl = "recv" /\ ~gone
  /\ Len(asked) < MaxRequests
  /\ patient => answered = Len(asked)
  /\ asked' = Append(asked, k)
  /\ net' = net \o Tokens(Len(asked) + 1, k)
  /\ UNCHANGED <<patient, gone, serverVars, answerVars>>

Leave ==
  /\ Up /\ ctl = "recv" /\ ~gone
  /\ gone' = TRUE
  /\ UNCHANGED <<net, asked, patient, serverVars, answerVars>>

-----------------------------------------------------------------------------
(* What the parser makes of the bytes of one recv() *)

EndsRequest(t) == t.part = "port2" \/ (t.part = "cseq2" /\ t.kind /= "SETUP")

(* Where the string first holds a part, or 0. *)
First(c, part) == SelectInSeq(c, LAMBDA t : t.part = part)

(* sscanf() finds fewer than two words. *)
MayBeOneWord(c) == Len(c) = 1 \/ (Len(c) = 2 /\ c[1].part /= "line")

(* The request lines that the first word can be the method of: one at the  *)
(* start, or one after the blank end of the request before.                *)
Lines(c) ==
  {c[j] : j \in {k \in 1..2 \cap DOMAIN c :
                   /\ c[k].part = "line"
                   /\ k = 2 => EndsRequest(c[1])}}

(* The first word can be no method at all. *)
MayBeNoMethod(c) == c[1].part /= "line"

(* Variant: the last CSeq of the string is taken, not the first. *)
CSeqAtLast(c) ==
  SelectLastInSeq(c, LAMBDA t : t.part = "cseq")

CSeqAt(c) == First(c, "cseq")

(* atoi() after the first CSeq: in the string.  A cut number is read as    *)
(* its first digits, or is not there; none is 0.                           *)
CutCSeq(c) == CSeqAt(c) = Len(c)
CSeqs(c) ==
  IF CSeqAt(c) = 0 THEN {0}
  ELSE LET n == Number(c[CSeqAt(c)].req)
       IN IF CutCSeq(c) THEN {0, n \div 10, n} ELSE {n}

(* parse_client_port: a cut port is none, or one that was not asked for.   *)
PortsIn(c) ==
  LET at == First(c, "port")
  IN CASE at = 0 -> {NoPort}
       [] at > 0 /\ at = Len(c) -> Ports \cup {NoPort}
       [] OTHER -> {UdpPort}

-----------------------------------------------------------------------------
(* handle_rtsp_client *)

Tell(k, target) ==
  CASE k = "SETUP" \/ k = "SETUP_TCP" -> [play |-> FALSE, target |-> target]
    [] k = "PLAY" -> [told EXCEPT !.play = TRUE]
    [] k = "TEARDOWN" -> [told EXCEPT !.play = FALSE]
    [] OTHER -> told

(* An answer to the bytes c with CSeq n.  A client takes it for the answer *)
(* to its request of that number.  That send() fails is not looked at.     *)
Answer(c, n, ok) ==
  LET r == IF \E q \in DOMAIN asked : Number(q) = n THEN n - FirstCSeq + 1 ELSE 0
  IN /\ reply' = [cseq |-> n, cut |-> CutCSeq(c), ok |-> ok]
     /\ answered' = IF r > 0 THEN r ELSE answered
     /\ told' = IF r > 0 /\ ok THEN Tell(asked[r], g_client_addr') ELSE told

Refuse(c, n) == UNCHANGED <<serverVars, done>> /\ Answer(c, n, FALSE)
CarryOut(c, n, r) == Answer(c, n, TRUE) /\ done' = Append(done, r)

BadRequest(c) == MayBeOneWord(c) /\ Refuse(c, 0)

(* Variant: no answer to a method the server does not know. *)
MethodIgnored(c) ==
  /\ MayBeNoMethod(c) \/ \E t \in Lines(c) : t.kind = "OTHER"
  /\ UNCHANGED <<serverVars, reply, done, answered, told>>

MethodNotAllowed(c) ==
  /\ MayBeNoMethod(c) \/ \E t \in Lines(c) : t.kind = "OTHER"
  /\ \E n \in CSeqs(c) : Refuse(c, n)

(* OPTIONS and DESCRIBE *)
Describe(c) == \E t \in Lines(c), n \in CSeqs(c) :
  t.kind = "OPTIONS" /\ UNCHANGED serverVars /\ CarryOut(c, n, t.req)

SetupRequest(c) == \E t \in Lines(c), n \in CSeqs(c), p \in PortsIn(c) :
  /\ t.kind \in {"SETUP", "SETUP_TCP"}
  /\ \/ p = NoPort /\ Refuse(c, n)
     \/ p \in Ports /\ Setup(p) /\ CarryOut(c, n, t.req)

PlayRequest(c) == \E t \in Lines(c), n \in CSeqs(c) :
  t.kind = "PLAY" /\ Play /\ CarryOut(c, n, t.req)

TeardownRequest(c) == \E t \in Lines(c), n \in CSeqs(c) :
  t.kind = "TEARDOWN" /\ Teardown /\ CarryOut(c, n, t.req)

(* Variant: the last bytes of a request are read again with the next. *)
RecvKeepsLast == \E m \in 1..Len(net) :
  LET c == SubSeq(net, 1, m)
  IN /\ Up /\ ctl = "recv"
     /\ net' = SubSeq(net, IF m = 1 THEN 2 ELSE m, Len(net))
     /\ \/ BadRequest(c) \/ MethodNotAllowed(c)
        \/ Describe(c) \/ SetupRequest(c) \/ PlayRequest(c) \/ TeardownRequest(c)
     /\ torn' = (torn \/ c[m].part \in {"line", "line2", "cseq"})
     /\ UNCHANGED clientVars

(* recv() returns the bytes c and they are handled as one request.         *)
Recv == \E m \in 1..Len(net) :
  LET c == SubSeq(net, 1, m)
  IN /\ Up /\ ctl = "recv"
     /\ net' = SubSeq(net, m + 1, Len(net))
     /\ \/ BadRequest(c) \/ MethodNotAllowed(c)
        \/ Describe(c) \/ SetupRequest(c) \/ PlayRequest(c) \/ TeardownRequest(c)
     /\ torn' = (torn \/ c[m].part \in {"line", "line2", "cseq"})
     /\ UNCHANGED clientVars

(* The answer to a client that closed its end can also raise SIGPIPE,      *)
(* which nothing in the program ignores: that is its end.                  *)
AnswerKills ==
  /\ alive /\ ctl = "recv" /\ gone /\ net /= <<>>
  /\ alive' = FALSE
  /\ UNCHANGED <<serverVars, net, clientVars, answerVars>>

(* recv() says that the client is gone, at once or after what it sent.     *)
RecvEnds == Up /\ gone /\ HangUp /\ net' = <<>> /\ UNCHANGED <<clientVars, answerVars>>

(* Variant: the end of a connection does not stop playback. *)
CloseKeepsPlaying ==
  /\ Up /\ ctl = "close" /\ ctl' = "accept" /\ conn' = NoClient
  /\ UNCHANGED session
  /\ net' = <<>> /\ UNCHANGED <<clientVars, answerVars>>

(* close() drops what was not received. *)
CloseConnection == Up /\ Close /\ net' = <<>> /\ UNCHANGED <<clientVars, answerVars>>

StreamNext ==
  \/ \E c \in Clients : Connect(c)
  \/ \E k \in Kinds : Ask(k)
  \/ Leave \/ Recv \/ AnswerKills \/ RecvEnds \/ CloseConnection

StreamSpec == StreamInit /\ [][StreamNext]_vars
              /\ WF_vars(Recv) /\ WF_vars(RecvEnds) /\ WF_vars(CloseConnection)

-----------------------------------------------------------------------------
(* However the stream is cut and joined, an answer 200 OK that carries a   *)
(* request's number is given when that very request was carried out: the   *)
(* method comes from one line of the bytes and the CSeq from another, and  *)
(* they belong together.                                                   *)
OkMeansDone ==
  reply.ok /\ reply.cseq >= FirstCSeq /\ ~reply.cut =>
    reply.cseq = Number(Last(done))

(* Requests are carried out in the order they were made and none twice:    *)
(* the rest of one that was already obeyed is never obeyed again.          *)
DoneOnceInOrder == \A j, k \in DOMAIN done : j < k => done[j] < done[k]

(* While no request was cut off from its number, the session is what the   *)
(* client was told: playing or not, and to which port, with requests that  *)
(* came together and were dropped, ports that were cut and transports that *)
(* were refused.                                                           *)
SessionIsAsTold ==
  ctl = "recv" /\ ~torn =>
    /\ g_play = told.play
    /\ told.target /= NothingTold.target => g_client_addr = told.target

(* A client that asks one thing at a time has its answer, unless it leaves *)
(* or the stream was cut between the request line and the number.          *)
PatientIsAnswered ==
  \A r \in 1..MaxRequests :
    patient /\ ctl = "recv" /\ Len(asked) = r ~> answered >= r \/ gone \/ torn
===============================================================================
