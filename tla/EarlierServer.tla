----------------------------- MODULE EarlierServer -----------------------------
(***************************************************************************)
(* The main thread of the earlier program: main of                         *)
(* src/little_app/src/RTSP_Create.c, which reads its source, starts the    *)
(* sender thread, listens and then serves one RTSP client at a time        *)
(* (handle_rtsp_client, src/little_app/src/rtsp.c).  Unlike in the present *)
(* program, no parameter sets are asked for.                               *)
(***************************************************************************)
EXTENDS Naturals

CONSTANTS Ports,   \* RTP ports a client may name in SETUP
          NoPort   \* g_client_addr before the first SETUP

ASSUME PortAssumption == NoPort \notin Ports

VARIABLES
  source,    \* g_source: file or fifo
  g_nalus,   \* the NALUs of the file and their bytes: none, held or freed
  life,      \* main: load, create, listen, free, accept, recv, close or exit
  g_play,
  g_client_addr_set,
  g_client_addr

sessionVars == <<g_play, g_client_addr_set, g_client_addr>>
mainVars == <<source, g_nalus, life, sessionVars>>

EarlierServerTypeOK ==
  /\ source \in {"file", "fifo"}
  /\ g_nalus \in {"none", "held", "freed"}
  /\ life \in {"load", "create", "listen", "free", "accept", "recv", "close", "exit"}
  /\ g_play \in BOOLEAN /\ g_client_addr_set \in BOOLEAN
  /\ g_client_addr \in IF g_client_addr_set THEN Ports ELSE {NoPort}

EarlierServerInit ==
  /\ source \in {"file", "fifo"} /\ g_nalus = "none" /\ life = "load"
  /\ g_play = FALSE /\ g_client_addr_set = FALSE /\ g_client_addr = NoPort

Playing == g_play /\ g_client_addr_set

-----------------------------------------------------------------------------
(* The arguments name an address that is a number and not 0, or a file     *)
(* that can be read and has a NALU in it; else the program ends.           *)
LoadSource ==
  /\ life = "load"
  /\ \/ life' = "exit" /\ UNCHANGED g_nalus
     \/ /\ life' = "create"
        /\ g_nalus' = IF source = "file" THEN "held" ELSE g_nalus
  /\ UNCHANGED <<source, sessionVars>>

FreeSource == g_nalus' = IF g_nalus = "held" THEN "freed" ELSE g_nalus

(* pthread_create fails: the buffers are freed and the program ends.       *)
CreateFails ==
  /\ life = "create" /\ life' = "exit" /\ FreeSource
  /\ UNCHANGED <<source, sessionVars>>

(* pthread_create and pthread_detach; the sender starts at once. *)
CreateSender == life = "create" /\ life' = "listen" /\ UNCHANGED <<source, g_nalus, sessionVars>>

(* start_rtsp_server: socket(), bind() and listen() succeed. *)
Listen == life = "listen" /\ life' = "accept" /\ UNCHANGED <<source, g_nalus, sessionVars>>

(* One of them fails: the buffers are freed while the sender runs; the     *)
(* process ends with main's return a little later.                         *)
ListenFails ==
  /\ life = "listen" /\ life' = "free" /\ FreeSource
  /\ UNCHANGED <<source, sessionVars>>

Accept == life = "accept" /\ life' = "recv" /\ UNCHANGED <<source, g_nalus, sessionVars>>

(* Variant: SETUP does not stop playback. *)
SetupWhilePlaying ==
  /\ life = "recv"
  /\ g_client_addr' \in Ports /\ g_client_addr_set' = TRUE
  /\ UNCHANGED <<source, g_nalus, life, g_play>>

Setup ==
  /\ life = "recv"
  /\ g_client_addr' \in Ports /\ g_client_addr_set' = TRUE /\ g_play' = FALSE
  /\ UNCHANGED <<source, g_nalus, life>>

Play ==
  /\ life = "recv" /\ g_play' = TRUE
  /\ UNCHANGED <<source, g_nalus, life, g_client_addr_set, g_client_addr>>

(* TEARDOWN, or recv() says that the client is gone: the loop is left, in  *)
(* the first case with playback stopped already.                           *)
EndSession ==
  /\ life = "recv" /\ life' = "close"
  /\ g_play' \in {FALSE, g_play}
  /\ UNCHANGED <<source, g_nalus, g_client_addr_set, g_client_addr>>

Close ==
  /\ life = "close" /\ life' = "accept" /\ g_play' = FALSE
  /\ UNCHANGED <<source, g_nalus, g_client_addr_set, g_client_addr>>
===============================================================================
