------------------------------ MODULE RtspServer ------------------------------
(***************************************************************************)
(* The RTSP control thread: the accept loop of main (src/RTSP_Create.c)    *)
(* and handle_rtsp_client (src/rtsp.c).  It serves one client at a time    *)
(* and owns every write of the session globals except the one that clears  *)
(* g_need_parameter_sets.                                                  *)
(*                                                                         *)
(* Every access to the globals is inside g_mutex, so a locked region is    *)
(* one step.  OPTIONS, DESCRIBE, an unknown method, a request that does    *)
(* not parse and a SETUP without client_port only send a reply: they       *)
(* change no shared state and are stuttering steps here.                   *)
(***************************************************************************)
EXTENDS Naturals

CONSTANTS Clients,    \* hosts that may connect to port 554
          Ports,      \* RTP ports a client may name in SETUP
          NoClient    \* no connection is being served

ASSUME ClientAssumption == NoClient \notin Clients

VARIABLES
  ctl,                    \* where the control thread is: accept, recv or close
  conn,                   \* the client being served, or NoClient
  g_play,
  g_client_addr_set,
  g_client_addr,          \* the RTP target; <<NoClient, p>> until the first SETUP
  g_need_parameter_sets

session == <<g_play, g_client_addr_set, g_client_addr, g_need_parameter_sets>>
serverVars == <<ctl, conn, session>>

Targets == Clients \X Ports
NoTargets == {NoClient} \X Ports

ServerTypeOK ==
  /\ ctl \in {"accept", "recv", "close"}
  /\ conn \in IF ctl = "accept" THEN {NoClient} ELSE Clients
  /\ g_play \in BOOLEAN
  /\ g_client_addr_set \in BOOLEAN
  /\ g_client_addr \in IF g_client_addr_set THEN Targets ELSE NoTargets
  /\ g_need_parameter_sets \in BOOLEAN

ServerInit ==
  /\ ctl = "accept"
  /\ conn = NoClient
  /\ g_play = FALSE
  /\ g_client_addr_set = FALSE
  /\ g_client_addr \in NoTargets
  /\ g_need_parameter_sets = FALSE

(* What both sender threads test before they send to g_client_addr. *)
Playing == g_play /\ g_client_addr_set

-----------------------------------------------------------------------------
(* accept() returns a client's connection. *)
Accept(c) ==
  /\ ctl = "accept"
  /\ ctl' = "recv"
  /\ conn' = c
  /\ UNCHANGED session

(* Variant: SETUP installs the new target without stopping playback. *)
SetupWhilePlaying(p) ==
  /\ ctl = "recv"
  /\ g_client_addr' = <<conn, p>>
  /\ g_client_addr_set' = TRUE
  /\ g_need_parameter_sets' = TRUE
  /\ UNCHANGED <<ctl, conn, g_play>>

(* SETUP with client_port=p: the target is the host of this connection. *)
Setup(p) ==
  /\ ctl = "recv"
  /\ g_client_addr' = <<conn, p>>
  /\ g_client_addr_set' = TRUE
  /\ g_play' = FALSE
  /\ g_need_parameter_sets' = TRUE
  /\ UNCHANGED <<ctl, conn>>

(* PLAY is accepted with or without a SETUP before it.  The signal on      *)
(* g_cond inside the same locked region belongs to the thread that waits.  *)
Play ==
  /\ ctl = "recv"
  /\ g_play' = TRUE
  /\ g_need_parameter_sets' = TRUE
  /\ UNCHANGED <<ctl, conn, g_client_addr, g_client_addr_set>>

(* TEARDOWN stops playback, answers and leaves the request loop. *)
Teardown ==
  /\ ctl = "recv"
  /\ g_play' = FALSE
  /\ ctl' = "close"
  /\ UNCHANGED <<conn, g_client_addr, g_client_addr_set, g_need_parameter_sets>>

(* recv() returns 0 or an error: the loop ends with nothing changed yet. *)
HangUp ==
  /\ ctl = "recv"
  /\ ctl' = "close"
  /\ UNCHANGED <<conn, session>>

(* After the loop: g_play is cleared and the connection closed.  The       *)
(* target stays installed.                                                 *)
Close ==
  /\ ctl = "close"
  /\ g_play' = FALSE
  /\ ctl' = "accept"
  /\ conn' = NoClient
  /\ UNCHANGED <<g_client_addr, g_client_addr_set, g_need_parameter_sets>>
===============================================================================
