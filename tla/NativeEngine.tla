---------------------------- MODULE NativeEngine ----------------------------
(***************************************************************************)
(* The bridge server's handle on the native media engine                   *)
(* (bridge/apps/server/src/engine/native-engine.ts) and the command loop   *)
(* of the engine's process (bridge/apps/native/src/ipc/server.cpp), for    *)
(* the H.264 relay of one camera.                                          *)
(*                                                                         *)
(* Commands travel on the process's stdin and are handled in order.  Those *)
(* that start something wait in pendingCommands until the process has said *)
(* ready; those that stop something are written at once when there is a    *)
(* process.  The process may die at any moment: what it held is gone, and  *)
(* the server learns of it by the exit event.                              *)
(*                                                                         *)
(* The module has no next-state relation of its own: its operators are     *)
(* conjuncts and actions of the modules that use the engine.               *)
(***************************************************************************)
EXTENDS Naturals, Sequences

CONSTANTS
  Ports,        (* public RTSP ports; the relay's RTP ports lie 1000 above *)
  NoPort,       (* no relay                                                *)
  MaxQueue,     (* bound: commands waiting on one queue                    *)
  MaxDeaths,    (* bound: deaths of the process                            *)
  MaxFailures   (* bound: relays that fail to start                        *)

ASSUME EngineAssumption ==
  /\ NoPort \notin Ports /\ MaxQueue \in Nat \ {0}
  /\ MaxDeaths \in Nat /\ MaxFailures \in Nat

VARIABLES
  process,      (* process is not null                                     *)
  isReady,      (* isReady                                                 *)
  pending,      (* pendingCommands                                         *)
  child,        (* the process itself: none, booting, serving or dead      *)
  stdin,        (* its unread commands                                     *)
  saidReady,    (* its ready event is on the way to the server             *)
  relay,        (* relays_ of the camera: the port it serves, or NoPort    *)
  deaths,       (* deaths so far                                           *)
  failures      (* failures so far                                         *)

engineVars == <<process, isReady, pending, child, stdin, saidReady, relay, deaths, failures>>

StartRelay(p) == [cmd |-> "start_relay", port |-> p]
StopRelay == [cmd |-> "stop_relay", port |-> NoPort]
StartP2P == [cmd |-> "start_p2p", port |-> NoPort]

Commands == {StartRelay(p) : p \in Ports} \cup {StopRelay, StartP2P}

EngineTypeOK ==
  /\ process \in BOOLEAN /\ isReady \in BOOLEAN /\ saidReady \in BOOLEAN
  /\ child \in {"none", "booting", "serving", "dead"}
  /\ pending \in Seq(Commands) /\ stdin \in Seq(Commands)
  /\ relay \in Ports \cup {NoPort}
  /\ deaths \in 0..MaxDeaths /\ failures \in 0..MaxFailures

(* The server has tried to start the process.                              *)
EngineInit ==
  /\ process \in BOOLEAN /\ isReady = FALSE /\ pending = <<>>
  /\ child = (IF process THEN "booting" ELSE "none") /\ stdin = <<>> /\ saidReady = FALSE
  /\ relay = NoPort /\ deaths = 0 /\ failures = 0

(***************************************************************************)
(* What the server's other parts call.                                     *)
(***************************************************************************)
(* Room for one more command on either queue (a bound of the model).       *)
Room == Len(pending) < MaxQueue /\ Len(stdin) < MaxQueue

(* Written to a dead process, a line is lost with it.                      *)
SendLine(c) ==
  /\ stdin' = IF process THEN Append(stdin, c) ELSE stdin
  /\ UNCHANGED <<process, isReady, pending, child, saidReady, relay, deaths, failures>>

(* Faulty variant: a command is dropped while the process is not ready.    *)
SendIfReady(c) == IF isReady THEN SendLine(c) ELSE UNCHANGED engineVars

(* start: the process may not come to be.                                  *)
Start ==
  \/ UNCHANGED <<process, child>>
  \/ ~process /\ process' = TRUE /\ child' = "booting"

SendWhenReady(c) ==
  IF isReady
  THEN SendLine(c)
  ELSE /\ pending' = Append(pending, c) /\ Start
       /\ UNCHANGED <<isReady, stdin, saidReady, relay, deaths, failures>>

(***************************************************************************)
(* The process and its events.                                             *)
(***************************************************************************)
(* run_stdio says ready before it reads its first command.                 *)
Boot ==
  /\ child = "booting"
  /\ child' = "serving" /\ saidReady' = TRUE
  /\ UNCHANGED <<process, isReady, pending, stdin, relay, deaths, failures>>

(* Faulty variant: the queue is forgotten when the process is ready.       *)
ReadyUnsent ==
  /\ saidReady
  /\ saidReady' = FALSE /\ isReady' = TRUE
  /\ UNCHANGED <<process, pending, child, stdin, relay, deaths, failures>>

(* The ready event: the queue is written in order.                         *)
HandleReady ==
  /\ saidReady
  /\ saidReady' = FALSE /\ isReady' = TRUE
  /\ stdin' = stdin \o pending /\ pending' = <<>>
  /\ UNCHANGED <<process, child, relay, deaths, failures>>

(* start_relay erases the relay there is before it starts the new one,     *)
(* which may fail.                                                         *)
HandleCommand ==
  /\ child = "serving" /\ stdin # <<>>
  /\ stdin' = Tail(stdin)
  /\ LET c == Head(stdin) IN
       \/ c.cmd = "start_relay" /\ relay' = c.port /\ failures' = failures
       \/ /\ c.cmd = "start_relay" /\ relay' = NoPort
          /\ failures < MaxFailures /\ failures' = failures + 1
       \/ c.cmd = "stop_relay" /\ relay' = NoPort /\ failures' = failures
       \/ c.cmd = "start_p2p" /\ UNCHANGED <<relay, failures>>
  /\ UNCHANGED <<process, isReady, pending, child, saidReady, deaths>>

Die ==
  /\ child \in {"booting", "serving"} /\ deaths < MaxDeaths
  /\ child' = "dead" /\ relay' = NoPort /\ deaths' = deaths + 1
  /\ UNCHANGED <<process, isReady, pending, stdin, saidReady, failures>>

(* The exit event closes the reader of its output; nothing else listens.   *)
HandleExit ==
  /\ child = "dead"
  /\ child' = "none" /\ process' = FALSE /\ isReady' = FALSE
  /\ stdin' = <<>> /\ saidReady' = FALSE
  /\ UNCHANGED <<pending, relay, deaths, failures>>

EngineStep == Boot \/ HandleReady \/ HandleCommand \/ Die \/ HandleExit

(* Everything the server sent has been carried out.                        *)
Drained == pending = <<>> /\ stdin = <<>>
=============================================================================
