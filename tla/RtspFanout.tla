------------------------------ MODULE RtspFanout ------------------------------
(***************************************************************************)
(* The video side of the native RTSP server                                *)
(* (bridge/apps/native/src/rtsp/server.cpp) for an HEVC camera: what       *)
(* module RtpReorder hands on is collected into a keyframe cache and fanned *)
(* out to the RTSP clients.                                                *)
(*                                                                         *)
(* Two kinds of threads interleave.  The feeding thread takes one packet   *)
(* at a time through notify_video_discontinuity (when the reordering gave  *)
(* a packet up) and feed_raw_rtp.  Each client has a thread of its own     *)
(* that works on a local session record and writes it over its entry of    *)
(* clients_; PLAY then copies the keyframe cache under one lock and sends  *)
(* it under another.  One critical section is one action.                  *)
(*                                                                         *)
(* A group of pictures is the packets 0 (VPS), 1 (SPS and PPS), the        *)
(* fragments of the IDR picture, and then any number of slices.            *)
(*                                                                         *)
(* Packets go missing in two ways.  A gap the reordering window gives up   *)
(* is told before the packet behind it.  What is missing before the first  *)
(* packet of a connection, or where the window restarts after a long       *)
(* pause, nobody is told of; a packet carries, as history, whether it      *)
(* stands behind such a silent break.                                      *)
(***************************************************************************)
EXTENDS Naturals, Sequences, FiniteSets

CONSTANTS
  Clients,      (* RTSP connections (their sockets)                        *)
  Frags,        (* fragments of an IDR picture                             *)
  Gops,         (* bound: groups of pictures are numbered modulo Gops      *)
  SeqSpace,     (* out_video_seq wraps here (65536)                        *)
  MaxLost       (* bound: packets lost and windows reset                   *)

ASSUME FanoutAssumption ==
  /\ Frags \in Nat \ {0} /\ Gops \in Nat \ {0, 1} /\ SeqSpace \in Nat \ {0}
  /\ MaxLost \in Nat

VARIABLES
  nxt,          (* what the camera sends next                              *)
  requested,    (* a keyframe request is on its way to the camera          *)
  lost,         (* packets lost, windows reset                             *)
  gap,          (* what is missing before the next packet: none; told, the *)
                (* window will tell of it; silent, it will not: it has     *)
                (* taken nothing since it was reset                        *)
  hand,         (* the packet the feeding thread has                       *)
  at,           (* where the feeding thread is                             *)
  collecting,   (* collecting_idr_                                         *)
  current,      (* current_idr_pkts_                                       *)
  cache,        (* idr_cache_pkts_                                         *)
  params,       (* which of vps_pkt_ and sps_pkt_ are there                *)
  entry,        (* clients_: what the feeding thread reads and writes      *)
  local,        (* the client thread's own session: is_playing             *)
  place,        (* where the client thread is                              *)
  copied,       (* its copy of the cache inside PLAY                       *)
  clean,        (* history: the client's wait began outside of a keyframe, *)
                (* and no cached picture and no silent break came since    *)
  want,         (* history: the number of the next packet, counted at the  *)
                (* client from 0 since its last PLAY or SETUP              *)
  dec           (* history: how much of a keyframe the client's decoder    *)
                (* has in a row; Key: it decodes without a gap since       *)

streamVars == <<nxt, requested, lost, gap>>
feedVars == <<hand, at, collecting, current, cache, params>>
clientVars == <<entry, local, place, copied>>
history == <<clean, want, dec>>
vars == <<streamVars, feedVars, clientVars, history>>

Key == Frags + 2         (* packets of a keyframe; the part of a slice     *)
Last == Key - 1          (* the fragment with the end bit                  *)
Sent == [gop : 0..(Gops - 1), part : 0..Key]
Packet == [gop : 0..(Gops - 1), part : 0..Key, cut : BOOLEAN]
NoPacket == [gop |-> 0, part |-> Key + 1, cut |-> FALSE]

Entry == [here : BOOLEAN, playing : BOOLEAN, wait : BOOLEAN, seq : 0..(SeqSpace - 1)]
NoEntry == [here |-> FALSE, playing |-> FALSE, wait |-> TRUE, seq |-> 0]

Fresh(playing) == [here |-> TRUE, playing |-> playing, wait |-> TRUE, seq |-> 0]

(* out_video_seq after n more packets.                                     *)
Advance(s, n) == (s + n) % SeqSpace

Init ==
  /\ \E k \in 0..Key : nxt = [gop |-> 0, part |-> k]
  /\ requested = FALSE /\ lost = 0 /\ gap = "silent"
  /\ hand = NoPacket /\ at = "idle"
  /\ collecting = FALSE /\ current = <<>> /\ cache = <<>> /\ params = {}
  /\ entry = [c \in Clients |-> NoEntry]
  /\ local = [c \in Clients |-> FALSE]
  /\ place = [c \in Clients |-> "away"]
  /\ copied = [c \in Clients |-> <<>>]
  /\ clean = [c \in Clients |-> FALSE]
  /\ want = [c \in Clients |-> 0]
  /\ dec = [c \in Clients |-> 0]

(***************************************************************************)
(* The camera and the network.                                             *)
(***************************************************************************)
NextGop(g) == [gop |-> (g + 1) % Gops, part |-> 0]

(* After a keyframe come slices, until the next keyframe.                  *)
Sendable == IF nxt.part < Key THEN {nxt} ELSE {nxt, NextGop(nxt.gop)}

After(p) == IF p.part < Key THEN [p EXCEPT !.part = @ + 1] ELSE p

Answered(p) == requested /\ p.part # 0

(* A packet reaches the feeding thread, with the news of a told gap before *)
(* it.                                                                     *)
Arrive(p) ==
  /\ at = "idle" /\ p \in Sendable
  /\ hand' = [gop |-> p.gop, part |-> p.part, cut |-> gap = "silent"]
  /\ nxt' = After(p)
  /\ requested' = Answered(p)
  /\ at' = IF gap = "told" THEN "clients" ELSE "store"
  /\ gap' = "none"
  /\ UNCHANGED <<lost, collecting, current, cache, params, clientVars, history>>

(* The window misses a packet once it has taken one; before that, whatever *)
(* comes first sets the number it expects.                                 *)
Lose(p) ==
  /\ at = "idle" /\ lost < MaxLost /\ p \in Sendable
  /\ nxt' = After(p) /\ requested' = Answered(p)
  /\ gap' = IF gap = "silent" THEN "silent" ELSE "told"
  /\ lost' = lost + 1
  /\ UNCHANGED <<feedVars, clientVars, history>>

(* A new peer connection, or a long pause: the window is reset, what waited *)
(* in it is gone, and the stream goes on wherever it is by then.  What the *)
(* server has collected of a keyframe stays.                               *)
Reset ==
  /\ at = "idle" /\ lost < MaxLost
  /\ \E k \in 0..Key : nxt' = [NextGop(nxt.gop) EXCEPT !.part = k]
  /\ gap' = "silent" /\ lost' = lost + 1
  /\ UNCHANGED <<requested, feedVars, clientVars, history>>

(* The peer asks for a keyframe every ten seconds.                         *)
AskAgain ==
  /\ requested' = TRUE
  /\ UNCHANGED <<nxt, lost, gap, feedVars, clientVars, history>>

(* A wait that begins at this packet begins outside of a keyframe, or at   *)
(* one whose parameter sets are there to be sent again.                    *)
Between(p) == p.part \in {0, Key} \/ (p.part <= 2 /\ params = {0, 1})

(***************************************************************************)
(* notify_video_discontinuity: two locks, then the keyframe request.       *)
(***************************************************************************)
TellClients ==
  /\ at = "clients" /\ at' = "cache"
  /\ entry' = [c \in Clients |-> IF entry[c].here THEN [entry[c] EXCEPT !.wait = TRUE]
                                                 ELSE entry[c]]
  /\ clean' = [c \in Clients |-> entry[c].playing /\ Between(hand)]
  /\ dec' = [c \in Clients |-> 0]
  /\ UNCHANGED <<streamVars, hand, collecting, current, cache, params, local, place,
                 copied, want>>

(* Faulty variant: the collection goes on.                                 *)
AfterHoleCollects == [collecting |-> collecting, current |-> current, requested |-> TRUE]

AfterHole == [collecting |-> FALSE, current |-> <<>>, requested |-> TRUE]

TellCache ==
  /\ at = "cache" /\ at' = "store"
  /\ collecting' = AfterHole.collecting
  /\ current' = AfterHole.current
  /\ requested' = AfterHole.requested
  /\ UNCHANGED <<nxt, lost, gap, hand, cache, params, clientVars, history>>

(***************************************************************************)
(* feed_raw_rtp: the caches first, then the clients.                       *)
(***************************************************************************)

(* A collection begins with a VPS; a break before it is not a break inside. *)
Collected(p) ==
  IF p.part = 0 THEN <<[p EXCEPT !.cut = FALSE]>>
  ELSE IF collecting /\ p.part < Key THEN Append(current, p) ELSE current

Store ==
  /\ at = "store" /\ at' = "fan"
  /\ params' = params \union ({0, 1} \intersect {hand.part})
  /\ current' = Collected(hand)
  /\ collecting' = (hand.part = 0 \/ (collecting /\ hand.part # Last))
  /\ cache' = IF collecting /\ hand.part = Last THEN Collected(hand) ELSE cache
  /\ UNCHANGED <<streamVars, hand, clientVars, history>>

(* Of the clients that play, those that wait get no slices, and get the    *)
(* parameter sets again before the keyframe starts.                        *)
Gets(e, p) == e.here /\ e.playing /\ (e.wait => p.part < Key)

Copies(e, p) == IF e.wait /\ p.part = 2 THEN Cardinality(params) + 1 ELSE 1

(* Faulty variants: the start of the keyframe is enough; only a slice ends *)
(* the wait.                                                               *)
WaitsAfterStart(e, p) == e.wait /\ p.part # 2

WaitsAfterAll(e, p) == e.wait /\ p.part # Key

WaitsAfter(e, p) == e.wait /\ p.part # Last

(* The decoder: packets 0, 1, ... of one keyframe in a row, or nothing.    *)
Decoded(e, d, p) ==
  IF d = Key /\ ~p.cut THEN Key
  ELSE IF p.part = 0 THEN 1
  ELSE IF \/ p.part = d /\ ~p.cut
          \/ e.wait /\ p.part = 2 /\ params = {0, 1}
       THEN p.part + 1
  ELSE 0

(* History: a silent break may show in what comes after it.                *)
Undisturbed(b, p) == b /\ ~p.cut

FanOut ==
  /\ at = "fan" /\ at' = "idle" /\ hand' = NoPacket
  /\ entry' = [c \in Clients |->
                 IF Gets(entry[c], hand)
                 THEN [entry[c] EXCEPT !.seq = Advance(@, Copies(entry[c], hand)),
                                       !.wait = WaitsAfter(entry[c], hand)]
                 ELSE entry[c]]
  /\ want' = [c \in Clients |->
                IF Gets(entry[c], hand) THEN Advance(want[c], Copies(entry[c], hand))
                                        ELSE want[c]]
  /\ clean' = [c \in Clients |-> Undisturbed(clean[c], hand)]
  /\ dec' = [c \in Clients |->
               IF Gets(entry[c], hand) THEN Decoded(entry[c], dec[c], hand) ELSE 0]
  /\ UNCHANGED <<streamVars, collecting, current, cache, params, local, place, copied>>

(***************************************************************************)
(* The client's thread: client_loop and handle_rtsp_request.  The local    *)
(* record always waits and counts from 0; only is_playing changes in it.   *)
(***************************************************************************)
Connect(c) ==
  /\ place[c] = "away"
  /\ place' = [place EXCEPT ![c] = "ready"]
  /\ entry' = [entry EXCEPT ![c] = Fresh(FALSE)]
  /\ UNCHANGED <<streamVars, feedVars, local, copied, history>>

(* The packet that is fanned out next, unless one goes missing.            *)
Upcoming == IF at = "idle" THEN nxt ELSE hand

(* What a client is sent starts anew.                                      *)
Restarted(c) ==
  /\ clean' = [clean EXCEPT ![c] = entry'[c].playing /\ Between(Upcoming)]
  /\ want' = [want EXCEPT ![c] = 0]
  /\ dec' = [dec EXCEPT ![c] = 0]

(* SETUP overwrites the entry too; a client that plays goes on playing,    *)
(* waits again and is numbered from 0 again.                               *)
Setup(c) ==
  /\ place[c] = "ready"
  /\ entry' = [entry EXCEPT ![c] = Fresh(local[c])]
  /\ Restarted(c)
  /\ UNCHANGED <<streamVars, feedVars, local, place, copied>>

(* PLAY up to the response: the entry is overwritten.                      *)
Play(c) ==
  /\ place[c] = "ready"
  /\ place' = [place EXCEPT ![c] = "stored"]
  /\ local' = [local EXCEPT ![c] = TRUE]
  /\ entry' = [entry EXCEPT ![c] = Fresh(TRUE)]
  /\ Restarted(c)
  /\ UNCHANGED <<streamVars, feedVars, copied>>

(* ... the copy of the cache; when there is none, only the request.        *)
Copy(c) ==
  /\ place[c] = "stored"
  /\ copied' = [copied EXCEPT ![c] = cache]
  /\ place' = [place EXCEPT ![c] = IF cache = <<>> THEN "ready" ELSE "copied"]
  /\ requested' = (requested \/ cache = <<>>)
  /\ UNCHANGED <<nxt, lost, gap, feedVars, entry, local, history>>

(* Faulty variant: the thread numbers by its own record and stores that.   *)
PrimedLocal(e, n) == [e EXCEPT !.seq = Advance(0, n), !.wait = FALSE]

Primed(e, n) == [e EXCEPT !.seq = Advance(@, n), !.wait = FALSE]

(* ... and the cached keyframe, wherever the stream is by now, with the    *)
(* request for a fresh one.  The decoder sees an old picture inside the    *)
(* live stream.                                                            *)
Prime(c) ==
  /\ place[c] = "copied"
  /\ place' = [place EXCEPT ![c] = "ready"]
  /\ copied' = [copied EXCEPT ![c] = <<>>]
  /\ entry' = [entry EXCEPT ![c] = Primed(@, Len(copied[c]))]
  /\ want' = [want EXCEPT ![c] = Advance(@, Len(copied[c]))]
  /\ clean' = [clean EXCEPT ![c] = FALSE]
  /\ dec' = [dec EXCEPT ![c] = 0]
  /\ requested' = TRUE
  /\ UNCHANGED <<nxt, lost, gap, feedVars, local>>

(* TEARDOWN changes the local record only: the entry goes on playing.      *)
Teardown(c) ==
  /\ place[c] = "ready" /\ local[c]
  /\ local' = [local EXCEPT ![c] = FALSE]
  /\ UNCHANGED <<streamVars, feedVars, entry, place, copied, history>>

Leave(c) ==
  /\ place[c] = "ready"
  /\ place' = [place EXCEPT ![c] = "away"]
  /\ entry' = [entry EXCEPT ![c] = NoEntry]
  /\ local' = [local EXCEPT ![c] = FALSE]
  /\ clean' = [clean EXCEPT ![c] = FALSE]
  /\ want' = [want EXCEPT ![c] = 0]
  /\ dec' = [dec EXCEPT ![c] = 0]
  /\ UNCHANGED <<streamVars, feedVars, copied>>

Feed == TellClients \/ TellCache \/ Store \/ FanOut

Stream == AskAgain \/ Reset \/ \E p \in Sendable : Arrive(p) \/ Lose(p)

Client(c) ==
  Connect(c) \/ Setup(c) \/ Play(c) \/ Copy(c) \/ Prime(c) \/ Teardown(c) \/ Leave(c)

Next == Stream \/ Feed \/ \E c \in Clients : Client(c)

Spec == Init /\ [][Next]_vars

(***************************************************************************)
(* The threads run, the camera streams, the peer keeps asking for a        *)
(* keyframe, and the camera answers sooner or later, however often it could *)
(* have sent another slice.  Clients, losses and resets owe nothing.       *)
(***************************************************************************)
Fairness ==
  /\ WF_vars(Feed)
  /\ WF_vars(AskAgain)
  /\ WF_vars(\E p \in Sendable : Arrive(p))
  /\ SF_vars(requested /\ \E p \in Sendable : p.part = 0 /\ Arrive(p))
  /\ \A c \in Clients : WF_vars(Copy(c) \/ Prime(c))

FairSpec == Spec /\ Fairness

(***************************************************************************)
(* Properties.                                                             *)
(***************************************************************************)

(* Type invariant.                                                         *)
TypeOK ==
  /\ nxt \in Sent /\ requested \in BOOLEAN /\ lost \in 0..MaxLost
  /\ gap \in {"none", "told", "silent"}
  /\ hand \in Packet \union {NoPacket}
  /\ at \in {"idle", "clients", "cache", "store", "fan"}
  /\ collecting \in BOOLEAN /\ params \in SUBSET {0, 1}
  /\ current \in Seq(Packet) /\ cache \in Seq(Packet)
  /\ entry \in [Clients -> Entry]
  /\ local \in [Clients -> BOOLEAN]
  /\ place \in [Clients -> {"away", "ready", "stored", "copied"}]
  /\ copied \in [Clients -> Seq(Packet)]
  /\ clean \in [Clients -> BOOLEAN]
  /\ want \in [Clients -> 0..(SeqSpace - 1)]
  /\ dec \in [Clients -> 0..Key]

(* The first n packets of a keyframe, from the VPS on.                     *)
Starts(s, n) ==
  Len(s) = n /\ \A i \in 1..n : s[i].part = i - 1 /\ s[i].gop = s[1].gop

(* No packet inside stands behind a silent break.                          *)
Unbroken(s) == \A i \in 1..Len(s) : ~s[i].cut

(* "the last complete parameter-set + IDR cache": what is cached, and what *)
(* a client's thread is about to send of it, begins with a VPS and is, but *)
(* for silent breaks inside, one whole keyframe.  Whatever the window      *)
(* tells of leaves no keyframe with a hole and no mixture of two.  (Across *)
(* a silent break the code does cache one.)                                *)
CacheWhole ==
  \A s \in {cache} \union {copied[c] : c \in Clients} :
    s # <<>> => s[1].part = 0 /\ (Unbroken(s) => Starts(s, Key))

(* "wait for clean keyframe start": a client whose wait began outside of a *)
(* keyframe is let have slices only when it can decode them, and goes on   *)
(* decoding until it is told of a hole, plays or sets up again, is sent the *)
(* cached picture, or a silent break comes.                                *)
WaitsForWhole ==
  \A c \in Clients : entry[c].playing /\ ~entry[c].wait /\ clean[c] => dec[c] = Key

(* The packets of a client carry the numbers 0, 1, 2, ... since its last   *)
(* PLAY or SETUP, though two threads number them.                          *)
Numbered == \A c \in Clients : entry[c].playing => entry[c].seq = want[c]

(* Once nothing is lost any more, a client that goes on playing, and does  *)
(* not set up for ever, gets to decode and goes on decoding, whatever it   *)
(* was primed with, wherever in a keyframe it came in, and whether or not  *)
(* anybody was told of the loss.                                           *)
Heals ==
  \A c \in Clients :
    <>[](place[c] = "ready" /\ entry[c].playing) /\ <>[][~Setup(c)]_vars
      => <>[](dec[c] = Key)
=============================================================================
