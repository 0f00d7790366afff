---------------------------- MODULE PicturesProofs ----------------------------
(***************************************************************************)
(* Proofs about Pictures, for any number of snapshotters, renders and      *)
(* events: a camera that is offered as available has sent a keyframe       *)
(* within thirty seconds and the time of a grab, and only a frame of a     *)
(* living snapshotter or a new session brings a camera online.             *)
(*                                                                         *)
(* All snapshotters share one .next file, so one may rename what another   *)
(* has written and not yet stamped.  That picture is dated now; it is      *)
(* nevertheless true within the length of a grab, since of two grabs that  *)
(* overlap one began with a session whose cache was empty: the camera had  *)
(* a keyframe during the other (Succeeded, Overlap).                       *)
(***************************************************************************)
EXTENDS Pictures, FiniteSetTheorems, TLAPS

Working(s) == grab[s] \in {"decoding", "writing", "stamping", "renaming"}

(* The camera has had a keyframe since the grab of s began: a grab sees at *)
(* most one step of time, after which it is aged.                          *)
Recent(s) == newest = 0 \/ (newest = 1 /\ s \in aged)

(* One snapshotter is in the map, one grab awaits the engine, and the one  *)
(* in the map asked last.                                                  *)
Asks ==
  /\ \A s, t \in on : s = t
  /\ \A s, t \in asked : s = t
  /\ \A s \in Snaps : s \in asked <=> grab[s] = "asking"
  /\ \A s \in aged : AtKeyframe(s)
  /\ \A s \in on : AtKeyframe(s) => asked \subseteq {s}

(* What lies in the engine's cache while a grab of a stopped snapshotter   *)
(* goes on was put there during that grab, once a successor may ask.       *)
Succeeded ==
  \A s, t \in Snaps :
    (t # s /\ t \notin on /\ AtKeyframe(t) /\ (s \in on \/ (s \in asked /\ t \notin asked)))
      => cache = None \/ Recent(t)

(* Two grabs that overlap had a keyframe between their beginnings.         *)
Overlap ==
  \A s, t \in Snaps :
    s # t /\ Working(s) /\ Working(t) => Recent(s) \/ Recent(t)

(* No picture is dated later than the newest keyframe, except by the wait  *)
(* between the writing of the .next file and its stamp.                    *)
Dated ==
  /\ newest <= cache /\ \A s \in Snaps : newest <= shot[s]
  /\ next >= Limit \/ newest <= next + 1 \/ \E s \in Snaps : grab[s] = "stamping"
  /\ last >= Limit \/ newest <= last + 1

(* The part of the types that these are about, and the rest.               *)
CoreTyped ==
  /\ cache \in Ages /\ newest \in Ages /\ next \in Ages /\ last \in Ages
  /\ on \subseteq Snaps /\ asked \subseteq Snaps /\ aged \subseteq Snaps
  /\ grab \in [Snaps -> Grabs] /\ shot \in [Snaps -> Ages]

RestTyped ==
  /\ streaming \in BOOLEAN /\ timer \in BOOLEAN
  /\ peer \in PeerState /\ closed \in BOOLEAN
  /\ online \in BOOLEAN /\ saving \in BOOLEAN
  /\ card \in BOOLEAN /\ isRendering \in BOOLEAN
  /\ renders \in 0..MaxRenders
  /\ picture \in {"none", "card", "live"}
  /\ disturbed \in 0..MaxDisturbed

Inv == CoreTyped /\ Asks /\ Succeeded /\ Overlap /\ Dated

-----------------------------------------------------------------------------

LEMMA AgesAre ==
  /\ Limit = 2 /\ Oldest = 3 /\ None = 4
  /\ Ages = {0, 1, 2, 3, 4}
BY DEF Limit, Oldest, None, Ages

LEMMA OlderIs ==
  ASSUME NEW a \in Ages
  PROVE  /\ Older(a) \in Ages /\ (Older(a) = None <=> a = None)
         /\ \A b \in Ages : a <= b => Older(a) <= Older(b)
         /\ a < Limit => Older(a) = a + 1
         /\ Older(a) <= a + 1 /\ a <= Older(a)
BY AgesAre DEF Older

(***************************************************************************)
(* The grabs under steps that begin none, and date none.                   *)
(***************************************************************************)
Shrinks ==
  /\ on' \subseteq on /\ asked' \subseteq asked /\ aged' \subseteq Snaps
  /\ newest' = newest /\ cache' \in {cache, None}
  /\ \A s \in Snaps :
       /\ AtKeyframe(s)' => AtKeyframe(s) /\ (s \in aged' <=> s \in aged)
       /\ Working(s)' => Working(s)
       /\ s \in aged' => AtKeyframe(s)'
       /\ s \in asked' <=> grab'[s] = "asking"
       /\ shot'[s] \in {shot[s], None}

LEMMA ShrinksKeeps ==
  ASSUME Inv, Shrinks
  PROVE  Asks' /\ Succeeded' /\ Overlap'
<1>1. Asks'
  BY DEF Inv, CoreTyped, Asks, Shrinks
<1>2. ASSUME NEW s \in Snaps, AtKeyframe(s)', Recent(s)
      PROVE  Recent(s)'
  BY <1>2 DEF Shrinks, Recent
<1>3. Succeeded'
  <2> SUFFICES ASSUME NEW s \in Snaps, NEW t \in Snaps, t # s, t \notin on', AtKeyframe(t)',
                      s \in on' \/ (s \in asked' /\ t \notin asked'), cache' # None
               PROVE  Recent(t)'
    BY DEF Succeeded
  <2>1. AtKeyframe(t) /\ cache # None /\ (s \in on \/ s \in asked)
    BY DEF Shrinks
  <2>2. t \notin on
    BY <2>1 DEF Inv, Asks, Shrinks
  <2>3. s \in on \/ (s \in asked /\ t \notin asked)
    BY DEF Inv, Asks, Shrinks
  <2>4. Recent(t)
    BY <2>1, <2>2, <2>3 DEF Inv, Succeeded
  <2> QED
    BY <1>2, <2>4
<1>4. Overlap'
  <2> SUFFICES ASSUME NEW s \in Snaps, NEW t \in Snaps, s # t, Working(s)', Working(t)'
               PROVE  Recent(s)' \/ Recent(t)'
    BY DEF Overlap
  <2>1. Working(s) /\ Working(t)
    BY DEF Shrinks
  <2>2. AtKeyframe(s)' /\ AtKeyframe(t)'
    BY DEF Working, AtKeyframe
  <2> QED
    BY <1>2, <2>1, <2>2 DEF Inv, Overlap
<1> QED
  BY <1>1, <1>3, <1>4

LEMMA ShrinksDates ==
  ASSUME Inv, Shrinks, UNCHANGED <<next, last>>,
         \A s \in Snaps : grab[s] = "stamping" => grab'[s] = "stamping"
  PROVE  Dated'
<1>1. newest <= None /\ newest \in Ages
  BY AgesAre DEF Inv, CoreTyped
<1>2. newest' <= cache' /\ \A s \in Snaps : newest' <= shot'[s]
  BY <1>1 DEF Inv, Dated, Shrinks
<1> QED
  BY <1>2 DEF Inv, Dated, Shrinks

(* Steps that leave the grabs and the files alone.                         *)
LEMMA NothingGrabs ==
  ASSUME Inv, UNCHANGED <<on, cache, newest, grabVars, next, last>>
  PROVE  Inv'
<1>1. Shrinks
  BY DEF Shrinks, grabVars, AtKeyframe, Working, Inv, CoreTyped, Asks
<1>2. CoreTyped'
  BY DEF Inv, CoreTyped, grabVars
<1>3. Dated'
  BY <1>1, ShrinksDates DEF grabVars
<1> QED
  BY <1>1, <1>2, <1>3, ShrinksKeeps DEF Inv

(* The snapshotter is stopped, or the engine's cache is emptied.           *)
LEMMA StopsGrab ==
  ASSUME Inv, on' \subseteq on, grab' = grab \/ StopGrab, cache' \in {cache, None},
         UNCHANGED <<newest, asked, shot, aged, next, last>>
  PROVE  Inv'
<1>1. grab' \in [Snaps -> Grabs]
      /\ \A s \in Snaps : AtKeyframe(s) => grab'[s] = grab[s]
  BY DEF StopGrab, Killed, Inv, CoreTyped, Grabs, AtKeyframe
<1>2. \A s \in Snaps : AtKeyframe(s)' => AtKeyframe(s) /\ grab'[s] = grab[s]
  BY DEF StopGrab, Killed, AtKeyframe
<1>3. Shrinks
  BY <1>1, <1>2 DEF Shrinks, AtKeyframe, Working, Inv, CoreTyped, Asks
<1>4. CoreTyped'
  BY <1>1, AgesAre DEF Inv, CoreTyped
<1>5. \A s \in Snaps : grab[s] = "stamping" => grab'[s] = "stamping"
  BY <1>1 DEF AtKeyframe
<1> QED
  BY <1>3, <1>4, <1>5, ShrinksKeeps, ShrinksDates DEF Inv

(* A session begins with an empty cache: whatever its snapshotter will get *)
(* is newer than any grab that still goes on.                              *)
LEMMA SessionGrabs ==
  ASSUME Inv, SessionStarted
  PROVE  Inv'
<1>1. /\ cache' = None /\ UNCHANGED <<newest, grab, asked, shot, aged, next, last>>
      /\ \/ on' = on
         \/ on = {} /\ \E s \in Snaps : grab[s] = "none" /\ on' = {s}
  BY DEF SessionStarted, EnsureSnapshotter, Free, grabVars, fileVars
<1>2. CASE on' = on
  BY <1>1, <1>2, StopsGrab
<1>3. CASE on = {} /\ \E s \in Snaps : grab[s] = "none" /\ on' = {s}
  <2>1. PICK s \in Snaps : grab[s] = "none" /\ on' = {s}
    BY <1>3
  <2>2. CoreTyped'
    BY <1>1, <2>1, AgesAre DEF Inv, CoreTyped
  <2>3. Asks'
    BY <1>1, <2>1 DEF Inv, CoreTyped, Asks, AtKeyframe
  <2>4. Succeeded'
    BY <1>1 DEF Succeeded
  <2>5. Overlap'
    BY <1>1 DEF Inv, Overlap, Working, Recent
  <2>6. Dated'
    BY <1>1, AgesAre DEF Inv, CoreTyped, Dated
  <2> QED
    BY <2>2, <2>3, <2>4, <2>5, <2>6 DEF Inv
<1> QED
  BY <1>1, <1>2, <1>3

LEMMA KeyframeGrabs ==
  ASSUME Inv, Keyframe
  PROVE  Inv'
<1>1. cache' = 0 /\ newest' = 0 /\ UNCHANGED <<on, grab, asked, shot, aged, next, last>>
  BY DEF Keyframe, grabVars, fileVars
<1>2. CoreTyped'
  BY <1>1, AgesAre DEF Inv, CoreTyped
<1>3. Asks'
  BY <1>1 DEF Inv, Asks, AtKeyframe
<1>4. Succeeded' /\ Overlap'
  BY <1>1 DEF Succeeded, Overlap, Recent
<1>5. Dated'
  BY <1>1, AgesAre DEF Inv, CoreTyped, Dated
<1> QED
  BY <1>2, <1>3, <1>4, <1>5 DEF Inv

(* No grab lasts over two steps of time.                                   *)
LEMMA TickGrabs ==
  ASSUME Inv, Tick
  PROVE  Inv'
<1>1. /\ aged = {} /\ UNCHANGED <<on, grab, asked>>
      /\ cache' = Older(cache) /\ newest' = Older(newest)
      /\ next' = Older(next) /\ last' = Older(last)
      /\ shot' = [s \in Snaps |-> Older(shot[s])]
      /\ aged' = {s \in Snaps : AtKeyframe(s)}
  BY DEF Tick
<1>t. CoreTyped
  BY DEF Inv
<1>2. CoreTyped'
  BY <1>1, <1>t, OlderIs DEF CoreTyped
<1>3. Asks'
  BY <1>1 DEF Inv, Asks, AtKeyframe
<1>4. ASSUME NEW s \in Snaps, AtKeyframe(s), Recent(s)
      PROVE  Recent(s)'
  <2>1. newest = 0 /\ s \in aged'
    BY <1>1, <1>4 DEF Recent
  <2>2. newest' = 1
    BY <1>1, <2>1 DEF Older, Oldest, Limit
  <2> QED
    BY <2>1, <2>2 DEF Recent
<1>5. Succeeded'
  <2> SUFFICES ASSUME NEW s \in Snaps, NEW t \in Snaps, t # s, t \notin on', AtKeyframe(t)',
                      s \in on' \/ (s \in asked' /\ t \notin asked'), cache' # None
               PROVE  Recent(t)'
    BY DEF Succeeded
  <2>1. cache # None /\ AtKeyframe(t)
    BY <1>1, <1>t, OlderIs DEF CoreTyped, AtKeyframe
  <2>2. Recent(t)
    BY <1>1, <2>1 DEF Inv, Succeeded
  <2> QED
    BY <1>4, <2>1, <2>2
<1>6. Overlap'
  <2> SUFFICES ASSUME NEW s \in Snaps, NEW t \in Snaps, s # t, Working(s)', Working(t)'
               PROVE  Recent(s)' \/ Recent(t)'
    BY DEF Overlap
  <2>1. Working(s) /\ Working(t) /\ AtKeyframe(s) /\ AtKeyframe(t)
    BY <1>1 DEF Working, AtKeyframe
  <2> QED
    BY <1>4, <2>1 DEF Inv, Overlap
<1>7. Dated'
  <2>1. newest' <= cache' /\ \A s \in Snaps : newest' <= shot'[s]
    BY <1>1, <1>t, OlderIs DEF Inv, CoreTyped, Dated
  <2>2. ASSUME NEW a \in Ages, a >= Limit \/ newest <= a + 1
        PROVE  Older(a) >= Limit \/ newest' <= Older(a) + 1
    BY <1>1, <1>t, <2>2, AgesAre DEF CoreTyped, Older
  <2>3. last' >= Limit \/ newest' <= last' + 1
    BY <1>1, <1>t, <2>2 DEF Inv, Dated, CoreTyped
  <2>4. next' >= Limit \/ newest' <= next' + 1 \/ \E s \in Snaps : grab'[s] = "stamping"
    BY <1>1, <1>t, <2>2 DEF Inv, Dated, CoreTyped
  <2> QED
    BY <2>1, <2>3, <2>4 DEF Dated
<1> QED
  BY <1>2, <1>3, <1>5, <1>6, <1>7 DEF Inv

(* The one in the map asks: the request of another is rejected.            *)
LEMMA TimerGrabs ==
  ASSUME Inv, NEW s \in Snaps, GrabTimer(s)
  PROVE  Inv'
<1>1. PICK r \in {"rtspLive", "rtspCard"} :
        /\ s \in on /\ grab[s] = "none" /\ asked' = {s} /\ aged' = aged \ asked
        /\ grab' = [t \in Snaps |-> IF t = s THEN "asking"
                                    ELSE IF t \in asked THEN r ELSE grab[t]]
        /\ UNCHANGED <<on, cache, newest, shot, next, last>>
  BY DEF GrabTimer, GetSnapshotFrame, Rtsp, fileVars
<1>t. CoreTyped /\ Asks
  BY DEF Inv
<1>2. CoreTyped'
  BY <1>1, <1>t DEF CoreTyped, Grabs
<1>3. s \notin asked /\ s \notin aged
  BY <1>1, <1>t DEF Asks, AtKeyframe
<1>4. ASSUME NEW t \in Snaps, t # s, AtKeyframe(t)'
      PROVE  /\ AtKeyframe(t) /\ t \notin asked /\ grab'[t] = grab[t]
             /\ t \in aged' <=> t \in aged
  BY <1>1, <1>4 DEF AtKeyframe
<1>5. Asks'
  <2>1. \A t \in Snaps : t \in asked' <=> grab'[t] = "asking"
    BY <1>1, <1>t DEF Asks
  <2>2. \A t \in aged' : AtKeyframe(t)'
    BY <1>1, <1>t, <1>3 DEF Asks, AtKeyframe, CoreTyped
  <2>3. \A t \in on' : t = s
    BY <1>1, <1>t DEF Asks
  <2> QED
    BY <1>1, <1>t, <2>1, <2>2, <2>3 DEF Asks
<1>6. ASSUME NEW t \in Snaps, t # s, AtKeyframe(t)', Recent(t)
      PROVE  Recent(t)'
  BY <1>1, <1>4, <1>6 DEF Recent
<1>7. Succeeded'
  <2> SUFFICES ASSUME NEW u \in Snaps, NEW t \in Snaps, t # u, t \notin on', AtKeyframe(t)',
                      u \in on' \/ (u \in asked' /\ t \notin asked'), cache' # None
               PROVE  Recent(t)'
    BY DEF Succeeded
  <2>1. u = s
    BY <1>1, <1>t DEF Asks
  <2>2. AtKeyframe(t) /\ t \notin on /\ cache # None
    BY <1>1, <1>4, <2>1
  <2>3. Recent(t)
    BY <1>1, <2>1, <2>2 DEF Inv, Succeeded
  <2> QED
    BY <1>6, <2>1, <2>3
<1>8. Overlap'
  <2> SUFFICES ASSUME NEW u \in Snaps, NEW t \in Snaps, u # t, Working(u)', Working(t)'
               PROVE  Recent(u)' \/ Recent(t)'
    BY DEF Overlap
  <2>1. u # s /\ t # s /\ AtKeyframe(u)' /\ AtKeyframe(t)'
    BY <1>1 DEF Working, AtKeyframe
  <2>2. Working(u) /\ Working(t)
    BY <1>4, <2>1 DEF Working
  <2> QED
    BY <1>6, <2>1, <2>2 DEF Inv, Overlap
<1>9. Dated'
  <2>1. \A t \in Snaps : grab[t] = "stamping" => grab'[t] = "stamping"
    BY <1>1, <1>t DEF Asks
  <2> QED
    BY <1>1, <2>1 DEF Inv, Dated
<1> QED
  BY <1>2, <1>5, <1>7, <1>8, <1>9 DEF Inv

(* An answer: whoever works beside it is a stopped one, and the keyframe   *)
(* that answers was sent during its grab.                                  *)
LEMMA AnswerGrabs ==
  ASSUME Inv, NEW s \in Snaps, Answered(s)
  PROVE  Inv'
<1>1. /\ s \in asked /\ asked' = {} /\ cache # None
      /\ grab' = [grab EXCEPT ![s] = "decoding"] /\ shot' = [shot EXCEPT ![s] = cache]
      /\ UNCHANGED <<on, cache, newest, aged, next, last>>
  BY DEF Answered, fileVars
<1>t. CoreTyped /\ Asks
  BY DEF Inv
<1>2. CoreTyped'
  BY <1>1, <1>t DEF CoreTyped, Grabs
<1>3. /\ grab[s] = "asking" /\ grab'[s] = "decoding"
      /\ \A t \in Snaps : t # s => grab'[t] = grab[t] /\ grab[t] # "asking"
  BY <1>1, <1>t DEF CoreTyped, Asks
<1>4. \A t \in Snaps : /\ AtKeyframe(t)' <=> AtKeyframe(t)
                       /\ Recent(t)' <=> Recent(t)
                       /\ t # s => (Working(t)' <=> Working(t))
  BY <1>1, <1>3 DEF AtKeyframe, Recent, Working
<1>5. Asks'
  BY <1>1, <1>t, <1>3, <1>4 DEF Asks, CoreTyped
<1>6. Succeeded'
  BY <1>1, <1>4 DEF Inv, Succeeded
<1>7. ASSUME NEW t \in Snaps, t # s, Working(t)
      PROVE  Recent(t)
  <2>1. AtKeyframe(t) /\ t \notin asked
    BY <1>t, <1>7 DEF Working, AtKeyframe, Asks
  <2>2. t \notin on
    BY <1>1, <1>t, <1>7, <2>1 DEF Asks
  <2> QED
    BY <1>1, <1>7, <2>1, <2>2 DEF Inv, Succeeded
<1>8. Overlap'
  BY <1>4, <1>7 DEF Inv, Overlap
<1>9. Dated'
  BY <1>1, <1>t, <1>3 DEF Inv, Dated, CoreTyped
<1> QED
  BY <1>2, <1>5, <1>6, <1>8, <1>9 DEF Inv

(* The file of one and the files of those it takes with it.                *)
LEMMA CleanedUpIs ==
  ASSUME Inv, NEW s \in Snaps, Working(s), NEW after \in SUBSET {"none", "rtspLive", "rtspCard"},
         CleanedUp(s, after), UNCHANGED <<on, cache, newest, asked>>
  PROVE  /\ Shrinks
         /\ grab' \in [Snaps -> Grabs] /\ shot' \in [Snaps -> Ages] /\ aged' \subseteq Snaps
         /\ \A t \in Snaps : t # s /\ grab[t] = "stamping" => grab'[t] = "stamping"
<1>1. PICK lose \in SUBSET {t \in Snaps \ {s} : grab[t] = "decoding"},
           end \in {"none", "rtspLive", "rtspCard"}, r \in {"rtspLive", "rtspCard"} :
        /\ grab' = [t \in Snaps |-> IF t = s THEN end
                                    ELSE IF t \in lose THEN r ELSE grab[t]]
        /\ aged' = aged \ (lose \cup {s})
        /\ shot' = [t \in Snaps |-> IF t \in lose \cup {s} THEN None ELSE shot[t]]
  BY DEF CleanedUp, Rtsp
<1>t. CoreTyped /\ Asks
  BY DEF Inv
<1>2. /\ grab' \in [Snaps -> Grabs] /\ shot' \in [Snaps -> Ages] /\ aged' \subseteq Snaps
      /\ \A t \in Snaps : t # s /\ grab[t] = "stamping" => grab'[t] = "stamping"
  BY <1>1, <1>t, AgesAre DEF CoreTyped, Grabs
<1>3. \A t \in Snaps :
        \/ (t = s \/ t \in lose) /\ ~AtKeyframe(t)' /\ ~Working(t)' /\ t \notin aged'
           /\ t \notin asked /\ grab'[t] # "asking" /\ shot'[t] = None
        \/ /\ grab'[t] = grab[t] /\ shot'[t] = shot[t] /\ (t \in aged' <=> t \in aged)
           /\ AtKeyframe(t)' = AtKeyframe(t) /\ Working(t)' = Working(t)
  <2> TAKE t \in Snaps
  <2>1. CASE t = s \/ t \in lose
    <3>1. grab[t] \in {"decoding", "writing", "stamping", "renaming"}
      BY <1>1, <2>1 DEF Working
    <3>2. grab'[t] \in {"none", "rtspLive", "rtspCard"}
      BY <1>1, <2>1
    <3> QED
      BY <1>1, <1>t, <2>1, <3>1, <3>2 DEF AtKeyframe, Working, Asks
  <2>2. CASE ~(t = s \/ t \in lose)
    BY <1>1, <2>2 DEF AtKeyframe, Working
  <2> QED
    BY <2>1, <2>2
<1>4. Shrinks
  BY <1>2, <1>3, <1>t DEF Shrinks, Asks
<1> QED
  BY <1>2, <1>4

(* A grab of the RTSP stream is nobody's business here.                    *)
LEMMA RtspGrabs ==
  ASSUME Inv, NEW s \in Snaps, Grabbed(s) \/ GrabFails(s)
  PROVE  Inv'
<1>1. /\ grab[s] \in {"rtspLive", "rtspCard"} /\ grab' = [grab EXCEPT ![s] = "none"]
      /\ UNCHANGED <<on, cache, newest, asked, shot, aged, next, last>>
  BY DEF Grabbed, GrabFails, fileVars
<1>t. CoreTyped /\ Asks
  BY DEF Inv
<1>2. CoreTyped'
  BY <1>1, <1>t DEF CoreTyped, Grabs
<1>3. \A t \in Snaps : t # s => grab'[t] = grab[t]
  BY <1>1, <1>t DEF CoreTyped
<1>4. grab'[s] = "none"
  BY <1>1, <1>t DEF CoreTyped
<1>5. Shrinks
  BY <1>1, <1>t, <1>3, <1>4 DEF Shrinks, CoreTyped, Asks, AtKeyframe, Working
<1>6. \A t \in Snaps : grab[t] = "stamping" => grab'[t] = "stamping"
  BY <1>1, <1>3
<1> QED
  BY <1>1, <1>2, <1>5, <1>6, ShrinksKeeps, ShrinksDates DEF Inv

(* A grab that gets no keyframe, or no picture of it.                      *)
LEMMA FallingBack ==
  ASSUME Inv, NEW s \in Snaps, Refused(s) \/ DecodeFails(s)
  PROVE  Inv'
<1>1. PICK r \in {"rtspLive", "rtspCard"} :
        /\ grab' = [grab EXCEPT ![s] = r] /\ shot' = [shot EXCEPT ![s] = None]
        /\ aged' = aged \ {s} /\ UNCHANGED <<on, cache, newest, next, last>>
        /\ \/ s \in asked /\ asked' = {}
           \/ grab[s] = "decoding" /\ asked' = asked
  BY DEF Refused, DecodeFails, FallsBack, Rtsp, fileVars
<1>t. CoreTyped /\ Asks
  BY DEF Inv
<1>2. CoreTyped'
  BY <1>1, <1>t, AgesAre DEF CoreTyped, Grabs
<1>3. grab[s] \in {"asking", "decoding"} /\ grab'[s] \in {"rtspLive", "rtspCard"}
      /\ shot'[s] = None
  BY <1>1, <1>t DEF CoreTyped, Asks
<1>4. \A t \in Snaps : t # s => /\ grab'[t] = grab[t] /\ shot'[t] = shot[t]
                                /\ t \in asked' <=> t \in asked
  BY <1>1, <1>t DEF CoreTyped, Asks
<1>5. s \notin asked' /\ asked' \subseteq asked
  BY <1>1, <1>t, <1>3 DEF Asks
<1>6. \A t \in Snaps : AtKeyframe(t)' => t # s
  BY <1>3 DEF AtKeyframe
<1>7. Shrinks
  BY <1>1, <1>t, <1>3, <1>4, <1>5, <1>6 DEF Shrinks, CoreTyped, Asks, AtKeyframe, Working
<1>8. \A t \in Snaps : grab[t] = "stamping" => grab'[t] = "stamping"
  BY <1>3, <1>4
<1> QED
  BY <1>1, <1>2, <1>7, <1>8, ShrinksKeeps, ShrinksDates DEF Inv

(* A grab that goes on from one wait at its picture to the next.           *)
LEMMA GoesOn ==
  ASSUME Inv, NEW s \in Snaps, Working(s),
         NEW at \in {"writing", "stamping", "renaming"},
         grab' = [grab EXCEPT ![s] = at],
         UNCHANGED <<on, cache, newest, asked, shot, aged>>
  PROVE  /\ Shrinks /\ grab' \in [Snaps -> Grabs] /\ grab'[s] = at
         /\ \A t \in Snaps : t # s => grab'[t] = grab[t]
<1>t. CoreTyped /\ Asks
  BY DEF Inv
<1>1. /\ grab' \in [Snaps -> Grabs] /\ grab'[s] = at
      /\ \A t \in Snaps : t # s => grab'[t] = grab[t]
  BY <1>t DEF CoreTyped, Grabs
<1>2. s \notin asked
  BY <1>t DEF Asks, Working
<1> QED
  BY <1>1, <1>2, <1>t DEF Shrinks, CoreTyped, Asks, AtKeyframe, Working

LEMMA DecodedGrabs ==
  ASSUME Inv, NEW s \in Snaps, Decoded(s)
  PROVE  Inv'
<1>1. /\ grab[s] = "decoding" /\ grab' = [grab EXCEPT ![s] = "writing"]
      /\ UNCHANGED <<on, cache, newest, asked, shot, aged, next, last>>
  BY DEF Decoded
<1>2. /\ Shrinks /\ grab' \in [Snaps -> Grabs]
      /\ \A t \in Snaps : t # s => grab'[t] = grab[t]
  BY <1>1, GoesOn DEF Working
<1>3. CoreTyped'
  BY <1>1, <1>2 DEF Inv, CoreTyped
<1>4. \A t \in Snaps : grab[t] = "stamping" => grab'[t] = "stamping"
  BY <1>1, <1>2
<1> QED
  BY <1>1, <1>2, <1>3, <1>4, ShrinksKeeps, ShrinksDates DEF Inv

(* The .next file is dated now until its writer stamps it.                 *)
LEMMA WrittenGrabs ==
  ASSUME Inv, NEW s \in Snaps, Written(s)
  PROVE  Inv'
<1>1. /\ grab[s] = "writing" /\ grab' = [grab EXCEPT ![s] = "stamping"]
      /\ next' = 0 /\ UNCHANGED <<on, cache, newest, asked, shot, aged, last>>
  BY DEF Written
<1>2. Shrinks /\ grab' \in [Snaps -> Grabs] /\ grab'[s] = "stamping"
  BY <1>1, GoesOn DEF Working
<1>3. CoreTyped'
  BY <1>1, <1>2, AgesAre DEF Inv, CoreTyped
<1>4. Dated'
  BY <1>1, <1>2 DEF Inv, Dated
<1> QED
  BY <1>2, <1>3, <1>4, ShrinksKeeps DEF Inv

LEMMA StampedGrabs ==
  ASSUME Inv, NEW s \in Snaps, Stamped(s)
  PROVE  Inv'
<1>1. /\ grab[s] = "stamping" /\ UNCHANGED <<on, cache, newest, asked, last>>
      /\ Working(s)
  BY DEF Stamped, Working
<1>2. CASE /\ next' = shot[s] /\ grab' = [grab EXCEPT ![s] = "renaming"]
           /\ UNCHANGED <<shot, aged>>
  <2>1. Shrinks /\ grab' \in [Snaps -> Grabs]
    BY <1>1, <1>2, GoesOn
  <2>2. CoreTyped'
    BY <1>1, <1>2, <2>1 DEF Inv, CoreTyped
  <2>3. Dated'
    BY <1>1, <1>2, AgesAre DEF Inv, Dated, CoreTyped
  <2> QED
    BY <2>1, <2>2, <2>3, ShrinksKeeps DEF Inv
<1>3. CASE next = None /\ next' = None /\ CleanedUp(s, Rtsp)
  <2>1. Shrinks /\ grab' \in [Snaps -> Grabs] /\ shot' \in [Snaps -> Ages] /\ aged' \subseteq Snaps
    BY <1>1, <1>3, CleanedUpIs DEF Rtsp
  <2>2. CoreTyped'
    BY <1>1, <1>3, <2>1 DEF Inv, CoreTyped
  <2>3. newest' <= cache' /\ \A t \in Snaps : newest' <= shot'[t]
    BY <2>1, AgesAre DEF Shrinks, Inv, CoreTyped, Dated
  <2>4. Dated'
    BY <1>1, <1>3, <2>3, AgesAre DEF Inv, Dated
  <2> QED
    BY <2>1, <2>2, <2>4, ShrinksKeeps DEF Inv
<1> QED
  BY <1>2, <1>3 DEF Stamped

(* What is renamed is dated by its stamp, or it is another's that has none *)
(* yet: then a keyframe was sent during one of the two grabs.              *)
LEMMA RenamedGrabs ==
  ASSUME Inv, NEW s \in Snaps, Renamed(s)
  PROVE  Inv'
<1>1. /\ grab[s] = "renaming" /\ Working(s) /\ UNCHANGED <<on, cache, newest, asked>>
      /\ \/ next # None /\ last' = next /\ next' = None /\ CleanedUp(s, {"none"})
         \/ next = None /\ CleanedUp(s, Rtsp) /\ UNCHANGED <<next, last>>
  BY DEF Renamed, Working
<1>2. Shrinks /\ grab' \in [Snaps -> Grabs] /\ shot' \in [Snaps -> Ages] /\ aged' \subseteq Snaps
  BY <1>1, CleanedUpIs DEF Rtsp
<1>3. CoreTyped'
  BY <1>1, <1>2, AgesAre DEF Inv, CoreTyped
<1>4. newest' <= cache' /\ \A t \in Snaps : newest' <= shot'[t]
  BY <1>2, AgesAre DEF Shrinks, Inv, CoreTyped, Dated
<1>5. next >= Limit \/ newest <= next + 1
  <2>1. ASSUME NEW t \in Snaps, grab[t] = "stamping"
        PROVE  newest <= 1
    <3>1. Recent(s) \/ Recent(t)
      BY <1>1, <2>1 DEF Inv, Overlap, Working
    <3> QED
      BY <3>1 DEF Recent
  <2> QED
    BY <2>1, AgesAre DEF Inv, Dated, CoreTyped
<1>6. Dated'
  BY <1>1, <1>4, <1>5, AgesAre DEF Inv, Dated
<1> QED
  BY <1>2, <1>3, <1>6, ShrinksKeeps DEF Inv

-----------------------------------------------------------------------------

LEMMA InvInit == Init => Inv
<1> SUFFICES ASSUME Init PROVE Inv
  OBVIOUS
<1>1. \A s \in Snaps : grab[s] = "none" /\ shot[s] = None
  BY DEF Init
<1>2. CoreTyped
  BY AgesAre DEF Init, CoreTyped, Grabs
<1>3. Asks /\ Succeeded /\ Overlap
  BY <1>1 DEF Init, Asks, Succeeded, Overlap, AtKeyframe, Working
<1>4. Dated
  BY <1>1, AgesAre DEF Init, Dated
<1> QED
  BY <1>2, <1>3, <1>4 DEF Inv

LEMMA InvStep == Inv /\ [Next]_vars => Inv'
<1> SUFFICES ASSUME Inv, [Next]_vars PROVE Inv'
  OBVIOUS
<1>1. CASE SessionStarted
  BY <1>1, SessionGrabs
<1>2. CASE PeerConnects \/ ClosedReported \/ TooManyFailures \/ Watchdog \/ FrameSaved
  BY <1>2, NothingGrabs DEF PeerConnects, ClosedReported, OnDisconnected, TooManyFailures,
     Watchdog, FrameSaved, grabVars, fileVars
<1>3. CASE Disconnected \/ Restarts \/ CameraHangsUp
  BY <1>3, StopsGrab DEF Disconnected, Restarts, CameraHangsUp, OnDisconnected, StopP2P,
     grabVars, fileVars
<1>4. CASE Unhealthy
  BY <1>4, StopsGrab DEF Unhealthy, StopSnapshotter, fileVars
<1>5. CASE LoginEnds \/ UserStops
  BY <1>5, StopsGrab DEF LoginEnds, UserStops, StopSnapshotter, StopP2P, fileVars
<1>6. CASE RecoveryTimer
  BY <1>6, StopsGrab DEF RecoveryTimer, StopSnapshotter, StopP2P, fileVars
<1>7. CASE Keyframe
  BY <1>7, KeyframeGrabs
<1>8. CASE Tick
  BY <1>8, TickGrabs
<1>9. CASE RenderTimer \/ RenderEnds \/ OtherRenderEnds \/ GetSnapshot
  BY <1>9, NothingGrabs DEF RenderTimer, RenderEnds, OtherRenderEnds, GetSnapshot, fileVars
<1>10. CASE \E s \in Snaps : GrabTimer(s) \/ SnapStep(s)
  BY <1>10, TimerGrabs, AnswerGrabs, FallingBack, DecodedGrabs, WrittenGrabs, StampedGrabs,
     RenamedGrabs, RtspGrabs DEF SnapStep
<1>11. CASE UNCHANGED vars
  BY <1>11, NothingGrabs DEF vars, fileVars
<1> QED
  BY <1>1, <1>2, <1>3, <1>4, <1>5, <1>6, <1>7, <1>8, <1>9, <1>10, <1>11 DEF Next

(* Who asks is the one in the map, or a stopped one that was asked for;    *)
(* grabs that overlap and the dates of the files are as said above: the    *)
(* invariant is inductive.                                                 *)
THEOREM AlwaysDated == Spec => []Inv
BY InvInit, InvStep, PTL DEF Spec

-----------------------------------------------------------------------------

LEMMA InFlightIs ==
  ASSUME RestTyped PROVE InFlight \in {0, 1}
BY DEF InFlight, RestTyped

LEMMA CardsTyped ==
  ASSUME RestTyped,
         SetOnline \/ SetOffline(1) \/ SetOffline(2) \/ UNCHANGED cardVars
  PROVE  card' \in BOOLEAN /\ isRendering' \in BOOLEAN /\ renders' \in 0..MaxRenders
<1>1. CASE SetOnline
  <2>1. renders' = renders + InFlight /\ renders + InFlight <= MaxRenders
        /\ card' = FALSE /\ isRendering' = FALSE
    BY <1>1 DEF SetOnline
  <2>2. renders \in Nat /\ InFlight \in Nat /\ MaxRenders \in Nat
    BY PicturesAssumption, InFlightIs DEF RestTyped
  <2>3. renders' \in 0..MaxRenders
    BY <2>1, <2>2
  <2> QED
    BY <2>1, <2>3
<1>2. CASE SetOffline(1)
  BY <1>2, PicturesAssumption, InFlightIs DEF RestTyped, SetOffline
<1>3. CASE SetOffline(2)
  BY <1>3, PicturesAssumption, InFlightIs DEF RestTyped, SetOffline
<1>4. CASE UNCHANGED cardVars
  BY <1>4 DEF RestTyped, cardVars
<1> QED
  BY <1>1, <1>2, <1>3, <1>4

LEMMA DisturbsTyped ==
  ASSUME RestTyped, Disturbs \/ UNCHANGED disturbed
  PROVE  disturbed' \in 0..MaxDisturbed
BY PicturesAssumption DEF RestTyped, Disturbs

LEMMA RestStep == RestTyped /\ [Next]_vars => RestTyped'
<1> SUFFICES ASSUME RestTyped, [Next]_vars PROVE RestTyped'
  OBVIOUS
<1>1. CASE SessionStarted
  BY <1>1, CardsTyped, DisturbsTyped DEF SessionStarted, PeerState, RestTyped, fileVars
<1>2. CASE Restarts \/ PeerConnects \/ FrameSaved
  BY <1>2, DisturbsTyped DEF Restarts, StopP2P, PeerConnects, FrameSaved, PeerState, RestTyped,
     streamVars, peerVars, rowVars, cardVars, fileVars
<1>3. CASE Disconnected \/ ClosedReported \/ CameraHangsUp
  <2>1. card' \in BOOLEAN /\ isRendering' \in BOOLEAN /\ renders' \in 0..MaxRenders
    BY <1>3, CardsTyped DEF Disconnected, ClosedReported, CameraHangsUp, OnDisconnected
  <2>2. disturbed' \in 0..MaxDisturbed
    BY <1>3, DisturbsTyped DEF Disconnected, ClosedReported, CameraHangsUp
  <2>3. peer' \in PeerState /\ closed' \in BOOLEAN
    BY <1>3 DEF Disconnected, ClosedReported, CameraHangsUp, StopP2P, PeerState, RestTyped
  <2> QED
    BY <1>3, <2>1, <2>2, <2>3 DEF Disconnected, ClosedReported, CameraHangsUp, OnDisconnected,
       RestTyped, fileVars
<1>4. CASE Unhealthy
  BY <1>4, CardsTyped, DisturbsTyped DEF Unhealthy, RestTyped, peerVars, rowVars, fileVars
<1>5. CASE LoginEnds \/ UserStops
  <2>1. card' \in BOOLEAN /\ isRendering' \in BOOLEAN /\ renders' \in 0..MaxRenders
    BY <1>5, CardsTyped DEF LoginEnds, UserStops
  <2>2. disturbed' \in 0..MaxDisturbed
    BY <1>5, DisturbsTyped DEF LoginEnds, UserStops
  <2> QED
    BY <1>5, <2>1, <2>2 DEF LoginEnds, UserStops, StopP2P, PeerState, RestTyped, rowVars, fileVars
<1>6. CASE TooManyFailures
  BY <1>6, CardsTyped, DisturbsTyped DEF TooManyFailures, RestTyped, peerVars, rowVars, fileVars
<1>7. CASE Watchdog
  BY <1>7, CardsTyped, DisturbsTyped DEF Watchdog, RestTyped, peerVars, rowVars, fileVars
<1>8. CASE RecoveryTimer
  BY <1>8 DEF RecoveryTimer, StopP2P, PeerState, RestTyped, rowVars, cardVars, fileVars
<1>9. CASE Keyframe \/ Tick
  BY <1>9 DEF Keyframe, Tick, RestTyped, peerVars, rowVars, streamVars, cardVars, fileVars
<1>10. CASE RenderTimer
  BY <1>10 DEF RenderTimer, RestTyped, peerVars, rowVars, streamVars, fileVars
<1>11. CASE RenderEnds
  BY <1>11, DisturbsTyped DEF RenderEnds, Rendered, RestTyped, streamVars, peerVars,
     rowVars
<1>12. CASE OtherRenderEnds
  BY <1>12, DisturbsTyped, PicturesAssumption DEF OtherRenderEnds, Rendered, RestTyped,
     streamVars, peerVars, rowVars
<1>13. CASE GetSnapshot
  BY <1>13, PicturesAssumption DEF GetSnapshot, RestTyped, peerVars, rowVars, streamVars, fileVars
<1>14. ASSUME NEW s \in Snaps, GrabTimer(s) \/ SnapStep(s)
       PROVE  RestTyped'
  <2>1. CASE GrabTimer(s)
    BY <2>1 DEF GrabTimer, GetSnapshotFrame, RestTyped, peerVars, rowVars, streamVars, cardVars,
       fileVars
  <2>2. CASE Answered(s)
    BY <2>2 DEF Answered, RestTyped, peerVars, rowVars, streamVars, cardVars, fileVars
  <2>3. CASE Refused(s)
    BY <2>3, DisturbsTyped DEF Refused, RestTyped, peerVars, rowVars, cardVars, fileVars
  <2>4. CASE Decoded(s)
    BY <2>4 DEF Decoded, RestTyped, peerVars, rowVars, streamVars, cardVars
  <2>5. CASE DecodeFails(s)
    BY <2>5, DisturbsTyped DEF DecodeFails, RestTyped, peerVars, rowVars, cardVars, fileVars
  <2>6. CASE Written(s)
    BY <2>6 DEF Written, RestTyped, peerVars, rowVars, streamVars, cardVars
  <2>7. CASE Stamped(s)
    BY <2>7 DEF Stamped, RestTyped, peerVars, rowVars, streamVars, cardVars
  <2>8. CASE Renamed(s)
    BY <2>8, CardsTyped DEF Renamed, Frame, RestTyped, peerVars, rowVars, streamVars, cardVars
  <2>9. CASE Grabbed(s)
    BY <2>9, CardsTyped DEF Grabbed, Frame, RestTyped, peerVars, rowVars, streamVars, cardVars
  <2>10. CASE GrabFails(s)
    BY <2>10, DisturbsTyped DEF GrabFails, RestTyped, peerVars, rowVars, cardVars, fileVars
  <2> QED
    BY <1>14, <2>1, <2>2, <2>3, <2>4, <2>5, <2>6, <2>7, <2>8, <2>9, <2>10 DEF SnapStep
<1>15. CASE UNCHANGED vars
  BY <1>15 DEF vars, RestTyped, peerVars, rowVars, streamVars, cardVars, fileVars
<1> QED
  BY <1>1, <1>2, <1>3, <1>4, <1>5, <1>6, <1>7, <1>8, <1>9, <1>10, <1>11, <1>12, <1>13,
     <1>14, <1>15 DEF Next

LEMMA AtMostOne ==
  ASSUME NEW S, \A s, t \in S : s = t
  PROVE  Cardinality(S) <= 1
<1>1. CASE S = {}
  BY <1>1, FS_EmptySet
<1>2. CASE S # {}
  <2>1. PICK s \in S : S = {s}
    BY <1>2
  <2>2. Cardinality(S) = 1
    BY <2>1, FS_Singleton, Zenon
  <2> QED
    BY <2>2
<1> QED
  BY <1>1, <1>2

(* The types: in the map there is one snapshotter at most, and one request *)
(* awaits the engine.                                                      *)
THEOREM PicturesTypeCorrect == Spec => []TypeOK
<1>1. Init => RestTyped
  <2>1. 0 \in 0..MaxRenders /\ 0 \in 0..MaxDisturbed
    BY PicturesAssumption
  <2> QED
    BY <2>1 DEF Init, RestTyped, PeerState
<1>2. Spec => []RestTyped
  BY <1>1, RestStep, PTL DEF Spec
<1>3. Inv /\ RestTyped => TypeOK
  BY AtMostOne DEF Inv, CoreTyped, Asks, RestTyped, TypeOK
<1> QED
  BY AlwaysDated, <1>2, <1>3, PTL

(* A camera offered as available has sent a keyframe in the last thirty    *)
(* seconds and the time of a grab, however many snapshotters share the     *)
(* .next file and however often sessions come and go.                      *)
THEOREM AvailabilityIsTrue == Spec => []AvailableIsTrue
<1>1. Inv => AvailableIsTrue
  BY AgesAre DEF Inv, CoreTyped, Dated, AvailableIsTrue, Available
<1> QED
  BY AlwaysDated, <1>1, PTL

(* What a stopped snapshotter was still waiting for brings no camera       *)
(* online.                                                                 *)
THEOREM ComesOnlineByRight == Spec => OnlineByRight
<1>1. ASSUME [Next]_vars
      PROVE  [ /\ ~online /\ online' => saving \/ SessionStarted
               /\ ~saving /\ saving' => on # {} ]_vars
  <2>1. CASE UNCHANGED vars
    BY <2>1
  <2>2. CASE SessionStarted \/ FrameSaved
    BY <2>2 DEF SessionStarted, FrameSaved
  <2>3. CASE \/ Disconnected \/ ClosedReported \/ CameraHangsUp \/ LoginEnds \/ UserStops
             \/ Restarts \/ PeerConnects
    BY <2>3 DEF Disconnected, ClosedReported, CameraHangsUp, OnDisconnected, LoginEnds, UserStops,
       Restarts, PeerConnects, rowVars
  <2>4. CASE \/ Unhealthy \/ TooManyFailures \/ Watchdog \/ RecoveryTimer \/ Keyframe \/ Tick
             \/ RenderTimer \/ RenderEnds \/ OtherRenderEnds \/ GetSnapshot
    BY <2>4 DEF Unhealthy, TooManyFailures, Watchdog, RecoveryTimer, Keyframe, Tick,
       RenderTimer, RenderEnds, OtherRenderEnds, GetSnapshot, rowVars
  <2>5. ASSUME NEW s \in Snaps, GrabTimer(s) \/ SnapStep(s)
        PROVE  online' = online /\ (saving' = saving \/ s \in on)
    BY <2>5 DEF SnapStep, GrabTimer, GetSnapshotFrame, Answered, Refused, Decoded, DecodeFails,
        Written, Stamped, Renamed, Grabbed, GrabFails, Frame, rowVars
  <2> QED
    BY <1>1, <2>1, <2>2, <2>3, <2>4, <2>5 DEF Next
<1> QED
  BY <1>1, PTL DEF Spec, OnlineByRight

===============================================================================
