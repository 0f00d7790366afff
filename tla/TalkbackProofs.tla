--------------------------- MODULE TalkbackProofs ---------------------------
(***************************************************************************)
(* Proofs about TalkbackSession and about Talkback, which extends it, for  *)
(* any sets of cameras, browsers, publishers, names and relays.            *)
(*                                                                         *)
(* Every handler of the service maps one CameraTalk record to another, so  *)
(* its inductive invariant is a predicate on records, Sound, kept by each  *)
(* of the operators the handlers are made of; the step of the whole        *)
(* service then has one case per handler.  The same lemmas serve the       *)
(* composition, whose handlers call one or two of these operators.  Its    *)
(* inductive invariant, Composed, adds that the gateway's sessions and the *)
(* browser owners are one relation (Together) and that a relay kept under  *)
(* a name is a process of that name (RelaysGood).                          *)
(***************************************************************************)
EXTENDS Talkback, TLAPS

(* What apply establishes, before gc.                                      *)
Settled(c) ==
  /\ c \in CameraTalk
  /\ c.holder = NextHolder(c)
  /\ \A o, p \in c.web : o = p
  /\ c.speakerOn <=> (c.holder # "none" \/ c.offTimer)
  /\ c.holder = "web" <=> c.idle # "off"
  /\ c.web # {} \/ c.rtmp # {} => c.tracked

(* What every handler leaves behind.                                       *)
Sound(c) == Settled(c) /\ Collect(c) = c

AllSound == talk \in [Cameras -> CameraTalk] /\ \A d \in Cameras : Sound(talk[d])

(* How a handler may change who is heard and the speaker, in terms of      *)
(* TalkFloor's alternatives.                                               *)
FloorMoves(c, e) ==
  \/ e.holder = c.holder /\ e.speakerOn = c.speakerOn
  \/ c.holder # "rtmp" /\ e.holder = "web" /\ e.speakerOn
  \/ e.holder = "rtmp" /\ e.speakerOn
  \/ e.holder = "none" /\ e.speakerOn = c.speakerOn
  \/ c.holder = "none" /\ e.holder = "none" /\ ~e.speakerOn

-----------------------------------------------------------------------------

(* The empty record is sound.                                              *)
LEMMA NoTalkSound == Sound(NoTalk)
BY DEF Sound, Settled, NoTalk, CameraTalk, Holders, NextHolder, Collect

(* apply settles a record whatever its holder, timers and speaker were; it *)
(* keeps the owners, keeps the speaker on, and switches it on for a holder.*)
LEMMA ApplySettles ==
  ASSUME NEW c \in CameraTalk, \A o, p \in c.web : o = p,
         c.web # {} \/ c.rtmp # {} => c.tracked
  PROVE  /\ Settled(Apply(c))
         /\ Apply(c).web = c.web /\ Apply(c).rtmp = c.rtmp
         /\ Apply(c).holder = NextHolder(c)
         /\ Apply(c).speakerOn = (c.speakerOn \/ NextHolder(c) # "none")
<1>1. CASE NextHolder(c) # "none"
  BY <1>1 DEF Settled, Apply, NextHolder, ArmedIdle, CameraTalk, Holders
<1>2. CASE NextHolder(c) = "none"
  BY <1>2 DEF Settled, Apply, NextHolder, ArmedIdle, CameraTalk, Holders
<1>3. QED BY <1>1, <1>2

(* gc makes a settled record sound.                                        *)
LEMMA CollectSound ==
  ASSUME NEW c, Settled(c)
  PROVE  /\ Sound(Collect(c))
         /\ Collect(c).holder = c.holder
         /\ Collect(c).speakerOn = c.speakerOn
         /\ Collect(c).web = c.web /\ Collect(c).rtmp = c.rtmp
<1>1. CASE Collect(c) = c
  BY <1>1 DEF Sound
<1>2. CASE Collect(c) # c
  <2>1. /\ Collect(c) = NoTalk /\ c.holder = "none" /\ ~c.speakerOn
        /\ c.web = {} /\ c.rtmp = {}
    BY <1>2 DEF Collect
  <2>2. c.speakerOn = FALSE
    BY <2>1 DEF Settled, CameraTalk
  <2>3. Sound(Collect(c))
    BY <2>1, NoTalkSound, Zenon
  <2>4. /\ NoTalk.holder = "none" /\ NoTalk.speakerOn = FALSE
        /\ NoTalk.web = {} /\ NoTalk.rtmp = {}
    BY DEF NoTalk
  <2>5. QED BY <2>1, <2>2, <2>3, <2>4
<1>3. QED BY <1>1, <1>2

(* A settled record with an owner has nothing to collect.                  *)
LEMMA OwnedSound ==
  ASSUME NEW c, Settled(c), c.web # {} \/ c.rtmp # {}
  PROVE  Sound(c)
BY DEF Sound, Collect

(* Each operation keeps a record sound, and changes who is heard and the   *)
(* speaker only as the floor allows.                                       *)
LEMMA ClaimWebSound ==
  ASSUME NEW c, Sound(c), NEW o \in Clients
  PROVE  /\ Sound(WebClaimed(c, o)) /\ FloorMoves(c, WebClaimed(c, o))
         /\ WebClaimed(c, o).rtmp = c.rtmp
         /\ WebDenied(c, o) => WebClaimed(c, o).web = c.web
         /\ ~WebDenied(c, o) =>
              c.rtmp = {} /\ c.web \subseteq {o} /\ WebClaimed(c, o).web = {o}
<1> DEFINE e == [Ensured(c) EXCEPT !.web = @ \union {o}]
<1>0. c \in CameraTalk /\ Settled(c)
  BY DEF Sound, Settled
<1>1. CASE WebDenied(c, o)
  <2>1. WebClaimed(c, o) = Ensured(c) /\ (c.web # {} \/ c.rtmp # {})
    BY <1>1 DEF WebClaimed, WebDenied
  <2>2. Settled(Ensured(c)) /\ Ensured(c).web = c.web /\ Ensured(c).rtmp = c.rtmp
    BY <1>0 DEF Settled, Ensured, CameraTalk, NextHolder
  <2>3. Ensured(c).holder = c.holder /\ Ensured(c).speakerOn = c.speakerOn
    BY <1>0 DEF Ensured, CameraTalk
  <2>4. Sound(Ensured(c))
    BY <2>1, <2>2, OwnedSound
  <2>5. QED BY <1>1, <2>1, <2>2, <2>3, <2>4 DEF FloorMoves
<1>2. CASE ~WebDenied(c, o)
  <2>1. WebClaimed(c, o) = Apply(e)
    BY <1>2 DEF WebClaimed
  <2>2. /\ e \in CameraTalk /\ e.web = c.web \union {o} /\ e.rtmp = c.rtmp
        /\ e.speakerOn = c.speakerOn /\ e.tracked
    BY <1>0 DEF CameraTalk, Ensured
  <2>3. c.rtmp = {} /\ (c.web = {} \/ o \in c.web)
    BY <1>2 DEF WebDenied
  <2>4. \A p, q \in e.web : p = q
    BY <1>0, <2>2, <2>3 DEF Settled
  <2> HIDE DEF e
  <2>5. /\ Settled(Apply(e)) /\ Apply(e).web = e.web /\ Apply(e).rtmp = e.rtmp
        /\ Apply(e).holder = NextHolder(e)
        /\ Apply(e).speakerOn = (e.speakerOn \/ NextHolder(e) # "none")
    BY <2>2, <2>4, ApplySettles
  <2>6. Sound(Apply(e))
    BY <2>2, <2>5, OwnedSound
  <2>7. c.holder # "rtmp"
    BY <1>0, <2>3 DEF Settled, NextHolder
  <2>8. NextHolder(e) = "web"
    BY <2>2 DEF NextHolder
  <2>9. FloorMoves(c, Apply(e))
    BY <2>5, <2>7, <2>8 DEF FloorMoves
  <2>10. c.web \subseteq {o} /\ Apply(e).web = {o}
    BY <1>0, <2>2, <2>3, <2>5 DEF Settled
  <2>11. QED BY <1>2, <2>1, <2>2, <2>3, <2>5, <2>6, <2>9, <2>10
<1>3. QED BY <1>1, <1>2

LEMMA ClaimRtmpSound ==
  ASSUME NEW c, Sound(c), NEW o \in Names
  PROVE  /\ Sound(RtmpClaimed(c, o)) /\ FloorMoves(c, RtmpClaimed(c, o))
         /\ RtmpClaimed(c, o).web = c.web
         /\ RtmpClaimed(c, o).rtmp = c.rtmp \union {o}
<1> DEFINE e == [Ensured(c) EXCEPT !.rtmp = @ \union {o}]
<1>0. c \in CameraTalk /\ Settled(c)
  BY DEF Sound, Settled
<1>1. RtmpClaimed(c, o) = Apply(e)
  BY DEF RtmpClaimed
<1>2. /\ e \in CameraTalk /\ e.web = c.web /\ e.rtmp = c.rtmp \union {o}
      /\ e.speakerOn = c.speakerOn /\ e.tracked
  BY <1>0 DEF CameraTalk, Ensured
<1>3. \A p, q \in e.web : p = q
  BY <1>0, <1>2 DEF Settled
<1> HIDE DEF e
<1>4. /\ Settled(Apply(e)) /\ Apply(e).web = e.web /\ Apply(e).rtmp = e.rtmp
      /\ Apply(e).holder = NextHolder(e)
      /\ Apply(e).speakerOn = (e.speakerOn \/ NextHolder(e) # "none")
  BY <1>2, <1>3, ApplySettles
<1>5. Sound(Apply(e))
  BY <1>2, <1>4, OwnedSound
<1>6. /\ NextHolder(e) = "web" \/ NextHolder(e) = "rtmp"
      /\ NextHolder(e) = "web" => c.holder # "rtmp"
  BY <1>0, <1>2 DEF Settled, NextHolder
<1>7. FloorMoves(c, Apply(e))
  BY <1>4, <1>6 DEF FloorMoves
<1>8. QED BY <1>1, <1>2, <1>4, <1>5, <1>7

(* Releases and the idle timer: owners only go, then apply and gc.         *)
LEMMA FewerOwnersSound ==
  ASSUME NEW c, Sound(c), NEW e \in CameraTalk,
         e.web \subseteq c.web, e.rtmp \subseteq c.rtmp, e.tracked = c.tracked,
         e.speakerOn = c.speakerOn
  PROVE  /\ Sound(Collect(Apply(e))) /\ FloorMoves(c, Collect(Apply(e)))
         /\ Collect(Apply(e)).web = e.web /\ Collect(Apply(e)).rtmp = e.rtmp
<1>0. c \in CameraTalk /\ Settled(c)
  BY DEF Sound, Settled
<1>1. (\A p, q \in e.web : p = q) /\ (e.web # {} \/ e.rtmp # {} => e.tracked)
  BY <1>0 DEF Settled
<1>2. /\ Settled(Apply(e)) /\ Apply(e).web = e.web /\ Apply(e).rtmp = e.rtmp
      /\ Apply(e).holder = NextHolder(e)
      /\ Apply(e).speakerOn = (e.speakerOn \/ NextHolder(e) # "none")
  BY <1>1, ApplySettles
<1>3. /\ Sound(Collect(Apply(e)))
      /\ Collect(Apply(e)).holder = NextHolder(e)
      /\ Collect(Apply(e)).speakerOn = (e.speakerOn \/ NextHolder(e) # "none")
  BY <1>2, CollectSound
<1>4. Collect(Apply(e)).web = e.web /\ Collect(Apply(e)).rtmp = e.rtmp
  BY <1>2, CollectSound
<1>5. /\ NextHolder(e) \in {"none", "web", "rtmp"}
      /\ NextHolder(e) = "web" => c.holder # "rtmp"
  BY <1>0 DEF Settled, NextHolder
<1>6. c.speakerOn \in BOOLEAN
  BY <1>0 DEF CameraTalk
<1>7. FloorMoves(c, Collect(Apply(e)))
  BY <1>3, <1>5, <1>6 DEF FloorMoves
<1>8. QED BY <1>3, <1>4, <1>7

(* An operation that changes nothing a listener hears.                     *)
LEMMA QuietMoves ==
  ASSUME NEW c
  PROVE  FloorMoves(c, c)
BY DEF FloorMoves

LEMMA ReleaseWebSound ==
  ASSUME NEW c, Sound(c), NEW o
  PROVE  /\ Sound(WebReleased(c, o)) /\ FloorMoves(c, WebReleased(c, o))
         /\ WebReleased(c, o).web = c.web \ {o} /\ WebReleased(c, o).rtmp = c.rtmp
<1> DEFINE e == [c EXCEPT !.web = @ \ {o}]
<1>1. /\ e \in CameraTalk /\ e.web = c.web \ {o} /\ e.rtmp = c.rtmp
      /\ e.tracked = c.tracked /\ e.speakerOn = c.speakerOn
  BY DEF Sound, Settled, CameraTalk
<1>2. CASE c.tracked
  <2>1. WebReleased(c, o) = Collect(Apply(e))
    BY <1>2 DEF WebReleased
  <2> HIDE DEF e
  <2>2. QED BY <1>1, <2>1, FewerOwnersSound
<1>3. CASE ~c.tracked
  <2>1. WebReleased(c, o) = c /\ c.web = {}
    BY <1>3 DEF WebReleased, Sound, Settled
  <2>2. Sound(WebReleased(c, o)) /\ FloorMoves(c, WebReleased(c, o))
    BY <2>1, QuietMoves, Zenon
  <2>3. QED BY <2>1, <2>2
<1>4. QED BY <1>2, <1>3

LEMMA ReleaseRtmpSound ==
  ASSUME NEW c, Sound(c), NEW o
  PROVE  /\ Sound(RtmpReleased(c, o)) /\ FloorMoves(c, RtmpReleased(c, o))
         /\ RtmpReleased(c, o).web = c.web /\ RtmpReleased(c, o).rtmp = c.rtmp \ {o}
<1> DEFINE e == [c EXCEPT !.rtmp = @ \ {o}]
<1>1. /\ e \in CameraTalk /\ e.web = c.web /\ e.rtmp = c.rtmp \ {o}
      /\ e.tracked = c.tracked /\ e.speakerOn = c.speakerOn
  BY DEF Sound, Settled, CameraTalk
<1>2. CASE c.tracked
  <2>1. RtmpReleased(c, o) = Collect(Apply(e))
    BY <1>2 DEF RtmpReleased
  <2> HIDE DEF e
  <2>2. QED BY <1>1, <2>1, FewerOwnersSound
<1>3. CASE ~c.tracked
  <2>1. RtmpReleased(c, o) = c /\ c.rtmp = {}
    BY <1>3 DEF RtmpReleased, Sound, Settled
  <2>2. Sound(RtmpReleased(c, o)) /\ FloorMoves(c, RtmpReleased(c, o))
    BY <2>1, QuietMoves, Zenon
  <2>3. QED BY <2>1, <2>2
<1>4. QED BY <1>2, <1>3

LEMMA IdledOutSound ==
  ASSUME NEW c, Sound(c)
  PROVE  /\ Sound(IdledOut(c)) /\ FloorMoves(c, IdledOut(c))
         /\ IdledOut(c).web = {} /\ IdledOut(c).rtmp = c.rtmp
<1> DEFINE e == [c EXCEPT !.web = {}]
<1>1. /\ e \in CameraTalk /\ e.web = {} /\ e.rtmp = c.rtmp
      /\ e.tracked = c.tracked /\ e.speakerOn = c.speakerOn
  BY DEF Sound, Settled, CameraTalk
<1>2. IdledOut(c) = Collect(Apply(e))
  BY DEF IdledOut
<1> HIDE DEF e
<1>3. QED BY <1>1, <1>2, FewerOwnersSound

(* Re-arming the idle timer, and its period passing.                       *)
LEMMA IdleSound ==
  ASSUME NEW c, Sound(c), NEW i \in {"off", "fresh", "stale"},
         c.holder = "web" <=> i # "off"
  PROVE  /\ Sound([c EXCEPT !.idle = i]) /\ FloorMoves(c, [c EXCEPT !.idle = i])
         /\ [c EXCEPT !.idle = i].web = c.web /\ [c EXCEPT !.idle = i].rtmp = c.rtmp
<1> DEFINE e == [c EXCEPT !.idle = i]
<1>1. c \in CameraTalk /\ Settled(c) /\ Collect(c) = c
  BY DEF Sound, Settled
<1>2. /\ e \in CameraTalk /\ e.web = c.web /\ e.rtmp = c.rtmp /\ e.holder = c.holder
      /\ e.speakerOn = c.speakerOn /\ e.offTimer = c.offTimer /\ e.idle = i
      /\ e.tracked = c.tracked
  BY <1>1 DEF CameraTalk
<1>3. FloorMoves(c, e)
  BY <1>2 DEF FloorMoves
<1>4. Settled(e)
  BY <1>1, <1>2 DEF Settled, NextHolder
<1>5. Collect(e) = e
  <2>1. CASE c.holder = "none"
    <3>1. c.idle = "off" /\ i = "off"
      BY <1>1, <2>1 DEF Settled
    <3>2. e = c
      BY <1>1, <3>1 DEF CameraTalk
    <3>3. QED BY <1>1, <3>2
  <2>2. CASE c.holder # "none"
    BY <1>2, <2>2 DEF Collect
  <2>3. QED BY <2>1, <2>2
<1>6. QED BY <1>2, <1>3, <1>4, <1>5 DEF Sound

LEMMA TouchSound ==
  ASSUME NEW c, Sound(c), NEW s
  PROVE  /\ Sound(Touched(c, s)) /\ FloorMoves(c, Touched(c, s))
         /\ Touched(c, s).web = c.web /\ Touched(c, s).rtmp = c.rtmp
<1>1. CASE c.tracked /\ c.holder = s
  BY <1>1, IdleSound DEF Touched, ArmedIdle
<1>2. CASE ~(c.tracked /\ c.holder = s)
  BY <1>2, QuietMoves DEF Touched
<1>3. QED BY <1>1, <1>2

LEMMA GraceOverSound ==
  ASSUME NEW c, Sound(c), c.offTimer
  PROVE  /\ Sound(GraceOver(c)) /\ FloorMoves(c, GraceOver(c))
         /\ GraceOver(c).web = c.web /\ GraceOver(c).rtmp = c.rtmp
<1>0. c \in CameraTalk /\ Settled(c)
  BY DEF Sound, Settled
<1>1. CASE c.holder # "none"
  <2> DEFINE e == [c EXCEPT !.offTimer = FALSE]
  <2>1. GraceOver(c) = e
    BY <1>1 DEF GraceOver
  <2>2. /\ e \in CameraTalk /\ e.web = c.web /\ e.rtmp = c.rtmp /\ e.holder = c.holder
        /\ e.speakerOn = c.speakerOn /\ e.idle = c.idle /\ e.tracked = c.tracked
    BY <1>0 DEF CameraTalk
  <2>3. Settled(e)
    BY <1>0, <1>1, <2>2 DEF Settled, NextHolder
  <2>4. Collect(e) = e
    BY <1>1, <2>2 DEF Collect
  <2>5. FloorMoves(c, e)
    BY <2>2 DEF FloorMoves
  <2>6. QED BY <2>1, <2>2, <2>3, <2>4, <2>5 DEF Sound
<1>2. CASE c.holder = "none"
  <2> DEFINE e == [c EXCEPT !.offTimer = FALSE, !.speakerOn = FALSE]
  <2>1. GraceOver(c) = Collect(e)
    BY <1>2 DEF GraceOver
  <2>2. /\ e \in CameraTalk /\ e.web = c.web /\ e.rtmp = c.rtmp /\ e.holder = c.holder
        /\ e.speakerOn = FALSE /\ e.offTimer = FALSE /\ e.idle = c.idle
        /\ e.tracked = c.tracked
    BY <1>0 DEF CameraTalk
  <2>3. Settled(e)
    BY <1>0, <1>2, <2>2 DEF Settled, NextHolder
  <2> HIDE DEF e
  <2>4. Sound(Collect(e)) /\ Collect(e).holder = "none" /\ Collect(e).speakerOn = FALSE
    BY <1>2, <2>2, <2>3, CollectSound
  <2>5. FloorMoves(c, Collect(e))
    BY <1>2, <2>4 DEF FloorMoves
  <2>6. Collect(e).web = c.web /\ Collect(e).rtmp = c.rtmp
    BY <2>2, <2>3, CollectSound
  <2>7. QED BY <2>1, <2>4, <2>5, <2>6
<1>3. QED BY <1>1, <1>2

-----------------------------------------------------------------------------

(* What one step of the service keeps and may do: the records stay sound;  *)
(* every camera follows the floor's rules, or all entries go; browsers     *)
(* only join a camera without owners.                                      *)
StepIsRight ==
  /\ AllSound'
  /\ \/ \A d \in Cameras : FloorMoves(talk[d], talk'[d])
     \/ talk' = [d \in Cameras |-> NoTalk]
  /\ \A d \in Cameras :
       talk'[d].web \ talk[d].web # {} => talk[d].web = {} /\ talk[d].rtmp = {}

LEMMA RecordRight ==
  ASSUME AllSound, NEW d \in Cameras, NEW e, talk' = [talk EXCEPT ![d] = e], Sound(e),
         FloorMoves(talk[d], e),
         e.web \ talk[d].web # {} => talk[d].web = {} /\ talk[d].rtmp = {}
  PROVE  StepIsRight
<1>1. talk \in [Cameras -> CameraTalk] /\ talk' = [talk EXCEPT ![d] = e]
  BY DEF AllSound
<1>2. e \in CameraTalk
  BY DEF Sound, Settled
<1>3. talk' \in [Cameras -> CameraTalk]
  BY <1>1, <1>2
<1>4. \A x \in Cameras : talk'[x] = IF x = d THEN e ELSE talk[x]
  BY <1>1
<1>5. ASSUME NEW x \in Cameras
      PROVE  /\ Sound(talk'[x]) /\ FloorMoves(talk[x], talk'[x])
             /\ talk'[x].web \ talk[x].web # {} => talk[x].web = {} /\ talk[x].rtmp = {}
  <2>1. CASE x = d
    <3>1. talk'[x] = e /\ talk[x] = talk[d]
      BY <1>4, <2>1
    <3>2. Sound(talk'[x]) /\ FloorMoves(talk[x], talk'[x])
      BY <3>1, Zenon
    <3>3. QED BY <3>1, <3>2
  <2>2. CASE x # d
    <3>1. talk'[x] = talk[x]
      BY <1>4, <2>2
    <3>2. Sound(talk[x]) /\ FloorMoves(talk[x], talk[x])
      BY QuietMoves DEF AllSound
    <3>3. Sound(talk'[x]) /\ FloorMoves(talk[x], talk'[x])
      BY <3>1, <3>2, Zenon
    <3>4. QED BY <3>1, <3>3
  <2>3. QED BY <2>1, <2>2
<1>6. AllSound'
  BY <1>3, <1>5 DEF AllSound
<1>7. QED BY <1>5, <1>6 DEF StepIsRight

LEMMA HandleRight ==
  ASSUME AllSound, NEW d \in Cameras, NEW e, Handle(d, e), Sound(e),
         FloorMoves(talk[d], e),
         e.web \ talk[d].web # {} => talk[d].web = {} /\ talk[d].rtmp = {}
  PROVE  StepIsRight
<1>1. talk' = [talk EXCEPT ![d] = e]
  BY DEF Handle
<1> QED
  BY <1>1, RecordRight

LEMMA NextRight ==
  ASSUME AllSound, [SessionNext]_sessionVars
  PROVE  StepIsRight
<1>0. \A d \in Cameras : Sound(talk[d])
  BY DEF AllSound
<1>1. ASSUME NEW d \in Cameras, NEW o \in Clients, ClaimWeb(d, o)
      PROVE  StepIsRight
  BY <1>0, <1>1, ClaimWebSound, HandleRight DEF ClaimWeb
<1>2. ASSUME NEW d \in Cameras, NEW o \in Clients, ReleaseWeb(d, o)
      PROVE  StepIsRight
  BY <1>0, <1>2, ReleaseWebSound, HandleRight DEF ReleaseWeb
<1>3. ASSUME NEW d \in Cameras, NEW o \in Names, ClaimRtmp(d, o)
      PROVE  StepIsRight
  BY <1>0, <1>3, ClaimRtmpSound, HandleRight DEF ClaimRtmp
<1>4. ASSUME NEW d \in Cameras, NEW o \in Names, ReleaseRtmp(d, o)
      PROVE  StepIsRight
  BY <1>0, <1>4, ReleaseRtmpSound, HandleRight DEF ReleaseRtmp
<1>5. ASSUME NEW d \in Cameras, NEW s \in {"web", "rtmp"}, Touch(d, s)
      PROVE  StepIsRight
  BY <1>0, <1>5, TouchSound, HandleRight DEF Touch
<1>6. ASSUME NEW d \in Cameras, IdlePasses(d)
      PROVE  StepIsRight
  <2> DEFINE e == [talk[d] EXCEPT !.idle = "stale"]
  <2>1. talk[d].holder = "web"
    BY <1>0, <1>6 DEF IdlePasses, Sound, Settled
  <2>2. Sound(e) /\ FloorMoves(talk[d], e) /\ e.web = talk[d].web
    BY <1>0, <2>1, IdleSound
  <2>3. Handle(d, e)
    BY <1>6 DEF IdlePasses
  <2> HIDE DEF e
  <2>4. QED BY <2>2, <2>3, HandleRight
<1>7. ASSUME NEW d \in Cameras, IdleFires(d)
      PROVE  StepIsRight
  BY <1>0, <1>7, IdledOutSound, HandleRight DEF IdleFires
<1>8. ASSUME NEW d \in Cameras, GraceFires(d)
      PROVE  StepIsRight
  BY <1>0, <1>8, GraceOverSound, HandleRight DEF GraceFires
<1>9. ASSUME Destroy
      PROVE  StepIsRight
  <2>1. talk' = [d \in Cameras |-> NoTalk]
    BY <1>9 DEF Destroy
  <2>2. \A d \in Cameras : talk'[d] = NoTalk
    BY <2>1
  <2>3. \A d \in Cameras : Sound(talk'[d])
    BY <2>2, NoTalkSound, Zenon
  <2>4. talk' \in [Cameras -> CameraTalk] /\ NoTalk.web = {}
    BY <2>1, NoTalkSound DEF Sound, Settled, NoTalk
  <2>5. QED BY <2>1, <2>2, <2>3, <2>4 DEF StepIsRight, AllSound
<1>10. CASE UNCHANGED talk
  <2>1. \A d \in Cameras : FloorMoves(talk[d], talk[d])
    BY QuietMoves
  <2>2. QED BY <1>10, <2>1 DEF StepIsRight, AllSound
<1>11. QED
  BY <1>1, <1>2, <1>3, <1>4, <1>5, <1>6, <1>7, <1>8, <1>9, <1>10
  DEF SessionNext, MqttChanges, sessionVars
-----------------------------------------------------------------------------

LEMMA InitSound == SessionInit => AllSound
<1>1. SUFFICES ASSUME SessionInit PROVE AllSound
  OBVIOUS
<1>2. \A d \in Cameras : talk[d] = NoTalk
  BY <1>1 DEF SessionInit
<1>3. \A d \in Cameras : Sound(talk[d])
  BY <1>2, NoTalkSound, Zenon
<1>4. talk \in [Cameras -> CameraTalk]
  BY <1>1, NoTalkSound DEF SessionInit, Sound, Settled
<1>5. QED BY <1>3, <1>4 DEF AllSound

(* Every record of the service is sound in every reachable state: the      *)
(* inductive invariant of TalkbackSession.                                 *)
THEOREM AlwaysSound == SessionSpec => []AllSound
<1>1. AllSound /\ [SessionNext]_sessionVars => AllSound'
  BY NextRight DEF StepIsRight
<1>2. QED BY InitSound, <1>1, PTL DEF SessionSpec

(* The types of TalkbackSession hold.                                      *)
THEOREM TypeCorrect == SessionSpec => []SessionTypeOK
<1> DEFINE Rest == mqtt \in [Cameras -> BOOLEAN] /\ speaker \in [Cameras -> BOOLEAN]
<1>1. SessionInit => Rest
  BY DEF SessionInit
<1>2. AllSound /\ Rest /\ [SessionNext]_sessionVars => Rest'
  <2> SUFFICES ASSUME AllSound, Rest, [SessionNext]_sessionVars PROVE Rest'
    OBVIOUS
  <2>1. talk \in [Cameras -> CameraTalk] /\ talk' \in [Cameras -> CameraTalk]
    BY NextRight DEF StepIsRight, AllSound
  <2>2. ASSUME SendSpeaker PROVE speaker' \in [Cameras -> BOOLEAN]
    BY <2>1, <2>2 DEF SendSpeaker, Told, CameraTalk
  <2>3. ASSUME NEW d, NEW e, Handle(d, e) PROVE Rest'
    BY <2>2, <2>3 DEF Handle
  <2>4. ASSUME NEW d \in Cameras, MqttChanges(d) PROVE Rest'
    BY <2>4 DEF MqttChanges
  <2>5. CASE Destroy
    BY <2>2, <2>5 DEF Destroy
  <2>6. CASE UNCHANGED sessionVars
    BY <2>6 DEF sessionVars
  <2>7. QED
    BY <2>3, <2>4, <2>5, <2>6
    DEF SessionNext, ClaimWeb, ClaimRtmp, ReleaseWeb, ReleaseRtmp, Touch,
        IdlePasses, IdleFires, GraceFires
<1>3. AllSound /\ Rest => SessionTypeOK
  BY DEF AllSound, SessionTypeOK
<1> HIDE DEF Rest
<1>4. QED BY <1>1, <1>2, <1>3, AlwaysSound, PTL DEF SessionSpec

(* The holder that shouldSend and touch consult is never out of date with  *)
(* the owner sets.                                                         *)
THEOREM HolderIsCurrent == SessionSpec => []HolderCurrent
<1>1. AllSound => HolderCurrent
  BY DEF AllSound, Sound, Settled, HolderCurrent
<1>2. QED BY <1>1, AlwaysSound, PTL

(* One browser at most owns a camera.                                      *)
THEOREM AtMostOneBrowser == SessionSpec => []OneBrowser
<1>1. AllSound => OneBrowser
  BY DEF AllSound, Sound, Settled, OneBrowser
<1>2. QED BY <1>1, AlwaysSound, PTL

(* The speaker is commanded on exactly while somebody holds the floor or   *)
(* the grace timer runs.                                                   *)
THEOREM SpeakerIsWatched == SessionSpec => []SpeakerWatched
<1>1. AllSound => SpeakerWatched
  BY DEF AllSound, Sound, Settled, SpeakerWatched
<1>2. QED BY <1>1, AlwaysSound, PTL

(* The idle timer runs exactly while a browser holds the floor.            *)
THEOREM BrowserIsWatched == SessionSpec => []BrowserWatched
<1>1. AllSound => BrowserWatched
  BY DEF AllSound, Sound, Settled, BrowserWatched
<1>2. QED BY <1>1, AlwaysSound, PTL

(* A browser only ever joins a camera that nobody owns.                    *)
THEOREM WebYields == SessionSpec => WebNeverTakes
<1>1. AllSound /\ [SessionNext]_sessionVars =>
        [\A d \in Cameras : talk'[d].web \ talk[d].web # {}
            => talk[d].web = {} /\ talk[d].rtmp = {}]_sessionVars
  BY NextRight DEF StepIsRight
<1>2. QED BY <1>1, AlwaysSound, PTL DEF SessionSpec, WebNeverTakes

(* The floor's moves, of any number of cameras at once, never click.       *)
LEMMA MovesNeverClick ==
  ASSUME AllSound, AllSound', \A d \in Cameras : FloorMoves(talk[d], talk'[d]),
         NEW d \in Cameras, talk[d].speakerOn, ~talk'[d].speakerOn
  PROVE  talk[d].holder = "none" /\ talk'[d].holder = "none"
<1>1. FloorMoves(talk[d], talk'[d])
  OBVIOUS
<1>2. talk[d].speakerOn = TRUE /\ talk'[d].speakerOn = FALSE
  BY DEF AllSound, CameraTalk
<1> QED
  BY <1>1, <1>2 DEF FloorMoves

(* The speaker goes off only while nobody holds the floor, before and      *)
(* after, or with the whole service.                                       *)
THEOREM SpeakerNeverClicks == SessionSpec => NoClick
<1> DEFINE A == \A d \in Cameras :
                  talk[d].speakerOn /\ ~talk'[d].speakerOn =>
                    \/ talk[d].holder = "none" /\ talk'[d].holder = "none"
                    \/ \A e \in Cameras : talk'[e] = NoTalk
<1>1. AllSound /\ [SessionNext]_sessionVars => A
  <2> SUFFICES ASSUME AllSound, [SessionNext]_sessionVars PROVE A
    OBVIOUS
  <2>1. CASE talk' = [d \in Cameras |-> NoTalk]
    BY <2>1
  <2>2. CASE \A d \in Cameras : FloorMoves(talk[d], talk'[d])
    BY <2>2, NextRight, MovesNeverClick DEF StepIsRight
  <2>3. QED BY <2>1, <2>2, NextRight DEF StepIsRight
<1>2. QED BY <1>1, AlwaysSound, PTL DEF SessionSpec, NoClick

(* The floor's moves are steps of TalkFloor.                               *)
LEMMA MovesAreFloor ==
  ASSUME AllSound, AllSound', \A d \in Cameras : FloorMoves(talk[d], talk'[d])
  PROVE  Floor!Next
<1>0. \A d \in Cameras : talk[d] \in CameraTalk /\ talk'[d] \in CameraTalk
  BY DEF AllSound
<1>1. ASSUME NEW d \in Cameras
      PROVE  Floor!Stays(d) \/ Floor!BrowserTakes(d) \/ Floor!PublisherTakes(d)
             \/ Floor!Frees(d) \/ Floor!GoesOff(d)
  <2>1. FloorMoves(talk[d], talk'[d])
    OBVIOUS
  <2>2. QED
    BY <2>1, <1>0
    DEF FloorMoves, Floor!Stays, Floor!BrowserTakes, Floor!PublisherTakes,
        Floor!Frees, Floor!GoesOff, CameraTalk
<1>2. QED BY <1>1 DEF Floor!Next, Floor!Step

(* TalkbackSession implements TalkFloor: holder and speakerOn, read        *)
(* through the refinement mapping, move only as the floor allows.          *)
THEOREM SessionImplementsFloor == SessionSpec => ImplementsFloor
<1>1. SessionInit => Floor!Init
  BY DEF SessionInit, Floor!Init, NoTalk
<1>2. AllSound /\ [SessionNext]_sessionVars => [Floor!Next]_(Floor!floorVars)
  <2> SUFFICES ASSUME AllSound, [SessionNext]_sessionVars PROVE Floor!Next
    OBVIOUS
  <2>1. CASE talk' = [d \in Cameras |-> NoTalk]
    BY <2>1 DEF Floor!Next, Floor!Close, NoTalk
  <2>2. CASE \A d \in Cameras : FloorMoves(talk[d], talk'[d])
    BY <2>2, NextRight, MovesAreFloor DEF StepIsRight
  <2>3. QED BY <2>1, <2>2, NextRight DEF StepIsRight
<1>3. QED BY <1>1, <1>2, AlwaysSound, PTL DEF SessionSpec, ImplementsFloor, Floor!Spec

(***************************************************************************)
(* The composition: the gateway and the RTMP ingest around the service.    *)
(*                                                                         *)
(* The gateway's sessions and the service's browser owners are one         *)
(* relation (Owners).  Each handler of the gateway keeps it: a release     *)
(* takes the one session of the camera's one owner; a claim is granted to  *)
(* a client without a session only; and the state event of any other call  *)
(* drops no session, since the camera's holder is the browser side exactly *)
(* while it has an owner there.                                            *)
(***************************************************************************)
Records(t) == t \in [Cameras -> CameraTalk] /\ \A d \in Cameras : Sound(t[d])

SessionMap == [Clients -> Cameras \union {None}]

Owners(t, s) == \A k \in Clients, d \in Cameras : s[k] = d <=> k \in t[d].web

(* The floor on the browser side is the same as having an owner there.     *)
LEMMA BrowserHolds ==
  ASSUME NEW c, Sound(c)
  PROVE  c.holder = "web" <=> c.web # {}
BY DEF Sound, Settled, NextHolder

(* A state event that changes no browser owner drops no session.           *)
LEMMA KeepsSessions ==
  ASSUME NEW t, NEW s \in SessionMap, Owners(t, s), NEW d \in Cameras,
         NEW c, Sound(c), c.web = t[d].web
  PROVE  AfterState(s, d, c) = s
<1>1. \A k \in Clients : s[k] = d => c.holder = "web"
  BY BrowserHolds DEF Owners
<1>2. s = [k \in Clients |-> s[k]]
  BY DEF SessionMap
<1>3. AfterState(s, d, c) = [k \in Clients |-> s[k]]
  BY <1>1 DEF AfterState
<1> QED
  BY <1>2, <1>3

(* One record is replaced by one with the same browser owners.             *)
LEMMA SameOwners ==
  ASSUME NEW t, Records(t), NEW s, Owners(t, s), NEW d \in Cameras, NEW c,
         c.web = t[d].web
  PROVE  Owners([t EXCEPT ![d] = c], s)
<1>1. \A x \in Cameras : [t EXCEPT ![d] = c][x].web = t[x].web
  BY DEF Records
<1> QED
  BY <1>1, Zenon DEF Owners

(* stopTalk and the release inside startTalk.                              *)
LEMMA Releases ==
  ASSUME NEW t, Records(t), NEW s \in SessionMap, Owners(t, s),
         NEW k \in Clients, NEW d \in Cameras, s[k] = d
  PROVE  /\ Records(TalkReleased(t, d, k))
         /\ SessionsReleased(t, s, d, k) \in SessionMap
         /\ Owners(TalkReleased(t, d, k), SessionsReleased(t, s, d, k))
         /\ SessionsReleased(t, s, d, k)[k] = None
         /\ TalkReleased(t, d, k)[d] = WebReleased(t[d], k)
         /\ \A x \in Cameras : x # d => TalkReleased(t, d, k)[x] = t[x]
<1> DEFINE c  == WebReleased(t[d], k)
           u  == TalkReleased(t, d, k)
           s1 == SessionsReleased(t, s, d, k)
<1>1. Sound(c) /\ c.web = t[d].web \ {k}
  BY ReleaseWebSound DEF Records
<1>2. c \in CameraTalk
  BY <1>1 DEF Sound, Settled
<1>3. u = [t EXCEPT ![d] = c]
  BY DEF TalkReleased
<1>4. u[d] = c /\ \A x \in Cameras : x # d => u[x] = t[x]
  BY <1>3 DEF Records
<1>5. s1 = [AfterState(s, d, u[d]) EXCEPT ![k] = None]
  BY DEF SessionsReleased
<1> HIDE DEF c, u, s1
<1>6. u \in [Cameras -> CameraTalk]
  BY <1>2, <1>3 DEF Records
<1>7. \A x \in Cameras : Sound(u[x])
  <2> SUFFICES ASSUME NEW x \in Cameras  PROVE Sound(u[x])
    OBVIOUS
  <2>1. CASE x = d
    BY <1>1, <1>4, <2>1, Zenon
  <2>2. CASE x # d
    BY <1>4, <2>2, Zenon DEF Records
  <2> QED
    BY <2>1, <2>2
<1>8. \A j \in Clients : j # k => s[j] # d
  BY DEF Records, Owners, Sound, Settled
<1>9. AfterState(s, d, u[d]) \in SessionMap
      /\ \A j \in Clients : s[j] # d => AfterState(s, d, u[d])[j] = s[j]
  BY DEF AfterState, SessionMap
<1>10. s1 \in SessionMap /\ s1[k] = None /\ \A j \in Clients : j # k => s1[j] = s[j]
  BY <1>5, <1>8, <1>9 DEF SessionMap
<1>11. Owners(u, s1)
  <2> SUFFICES ASSUME NEW j \in Clients, NEW x \in Cameras
               PROVE  s1[j] = x <=> j \in u[x].web
    BY DEF Owners
  <2>0. s[j] = x <=> j \in t[x].web
    BY DEF Owners
  <2>1. CASE j = k
    <3>1. s1[j] # x
      BY <1>10, <2>1, TalkbackAssumption
    <3>2. j \notin u[x].web
      BY <1>1, <1>4, <2>0, <2>1
    <3> QED
      BY <3>1, <3>2
  <2>2. CASE j # k /\ x = d
    BY <1>1, <1>4, <1>10, <2>0, <2>2
  <2>3. CASE j # k /\ x # d
    BY <1>4, <1>10, <2>0, <2>3
  <2> QED
    BY <2>1, <2>2, <2>3
<1> QED
  BY <1>4, <1>6, <1>7, <1>10, <1>11 DEF Records, c, u, s1

(* The claim of startTalk, by a client without a session.                  *)
TalkClaimed(t, d, k) == [t EXCEPT ![d] = WebClaimed(@, k)]

SessionsClaimed(t, s, d, k) ==
  IF WebDenied(t[d], k) THEN s
                          ELSE [AfterState(s, d, TalkClaimed(t, d, k)[d]) EXCEPT ![k] = d]

LEMMA Claims ==
  ASSUME NEW t, Records(t), NEW s \in SessionMap, Owners(t, s),
         NEW k \in Clients, NEW d \in Cameras, s[k] = None
  PROVE  /\ Records(TalkClaimed(t, d, k))
         /\ SessionsClaimed(t, s, d, k) \in SessionMap
         /\ Owners(TalkClaimed(t, d, k), SessionsClaimed(t, s, d, k))
<1> DEFINE u  == TalkClaimed(t, d, k)
           s1 == SessionsClaimed(t, s, d, k)
<1>0. s1 = IF WebDenied(t[d], k) THEN s ELSE [AfterState(s, d, u[d]) EXCEPT ![k] = d]
  BY DEF SessionsClaimed
<1> DEFINE c == WebClaimed(t[d], k)
<1>1. /\ Sound(c)
      /\ WebDenied(t[d], k) => c.web = t[d].web
      /\ ~WebDenied(t[d], k) => t[d].web \subseteq {k} /\ c.web = {k}
  BY ClaimWebSound DEF Records
<1>2. c \in CameraTalk
  BY <1>1 DEF Sound, Settled
<1>3. u = [t EXCEPT ![d] = c]
  BY DEF TalkClaimed
<1>4. u[d] = c /\ \A x \in Cameras : x # d => u[x] = t[x]
  BY <1>3 DEF Records
<1> SUFFICES Records(u) /\ s1 \in SessionMap /\ Owners(u, s1)
  OBVIOUS
<1> HIDE DEF c, u, s1
<1>5. u \in [Cameras -> CameraTalk]
  BY <1>2, <1>3 DEF Records
<1>6. \A x \in Cameras : Sound(u[x])
  <2> SUFFICES ASSUME NEW x \in Cameras  PROVE Sound(u[x])
    OBVIOUS
  <2>1. CASE x = d
    BY <1>1, <1>4, <2>1, Zenon
  <2>2. CASE x # d
    BY <1>4, <2>2, Zenon DEF Records
  <2> QED
    BY <2>1, <2>2
<1>7. CASE WebDenied(t[d], k)
  <2>1. s1 = s /\ \A x \in Cameras : u[x].web = t[x].web
    BY <1>0, <1>1, <1>4, <1>7
  <2>2. Owners(u, s1)
    <3> SUFFICES ASSUME NEW j \in Clients, NEW x \in Cameras
                 PROVE  s1[j] = x <=> j \in u[x].web
      BY DEF Owners
    <3>1. u[x].web = t[x].web /\ s1[j] = s[j]
      BY <2>1
    <3> QED
      BY <3>1 DEF Owners
  <2> QED
    BY <1>5, <1>6, <2>1, <2>2 DEF Records
<1>8. CASE ~WebDenied(t[d], k)
  <2>1. c.holder = "web" /\ t[d].web \subseteq {k} /\ c.web = {k}
    BY <1>1, <1>8, BrowserHolds
  <2>2. AfterState(s, d, u[d]) = s
    BY <1>4, <2>1 DEF AfterState, SessionMap
  <2>3. s1 = [s EXCEPT ![k] = d]
    BY <1>0, <1>8, <2>2
  <2>4. s1 \in SessionMap /\ s1[k] = d /\ \A j \in Clients : j # k => s1[j] = s[j]
    BY <2>3 DEF SessionMap
  <2>5. Owners(u, s1)
    <3> SUFFICES ASSUME NEW j \in Clients, NEW x \in Cameras
                 PROVE  s1[j] = x <=> j \in u[x].web
      BY DEF Owners
    <3>0. (s[j] = x <=> j \in t[x].web) /\ s[k] # x
      BY TalkbackAssumption DEF Owners
    <3>1. CASE j = k /\ x = d
      BY <1>4, <2>1, <2>4, <3>1
    <3>2. CASE j = k /\ x # d
      BY <1>4, <2>4, <3>0, <3>2
    <3>3. CASE j # k /\ x = d
      BY <1>4, <2>1, <2>4, <3>0, <3>3
    <3>4. CASE j # k /\ x # d
      BY <1>4, <2>4, <3>0, <3>4
    <3> QED
      BY <3>1, <3>2, <3>3, <3>4
  <2> QED
    BY <1>5, <1>6, <2>4, <2>5 DEF Records
<1> QED
  BY <1>7, <1>8

-----------------------------------------------------------------------------

(***************************************************************************)
(* Steps of the composition.  Besides StepIsRight, with no Destroy, each   *)
(* keeps the sessions and the owners together.                             *)
(***************************************************************************)
SessionsTyped == sessions \in SessionMap

Together == AllSound /\ SessionsTyped /\ SessionsOwn

TalkMoves ==
  /\ \A d \in Cameras : FloorMoves(talk[d], talk'[d])
  /\ \A d \in Cameras :
       talk'[d].web \ talk[d].web # {} => talk[d].web = {} /\ talk[d].rtmp = {}

LEMMA TogetherIs ==
  Together <=> Records(talk) /\ sessions \in SessionMap /\ Owners(talk, sessions)
BY DEF Together, AllSound, Records, SessionsTyped, SessionsOwn, Owners

LEMMA TogetherNext ==
  ASSUME Records(talk'), sessions' \in SessionMap, Owners(talk', sessions')
  PROVE  Together'
BY DEF Together, AllSound, Records, SessionsTyped, SessionsOwn, Owners

LEMMA StillMoves ==
  ASSUME Together, UNCHANGED <<talk, sessions>>
  PROVE  Together' /\ TalkMoves
<1>1. TalkMoves
  BY QuietMoves DEF TalkMoves
<1> QED
  BY <1>1, TogetherIs, TogetherNext DEF Records, Owners

(* One record moves as the floor allows.                                   *)
LEMMA OneMoves ==
  ASSUME Together, NEW d \in Cameras, NEW e, talk' = [talk EXCEPT ![d] = e], Sound(e),
         FloorMoves(talk[d], e),
         e.web \ talk[d].web # {} => talk[d].web = {} /\ talk[d].rtmp = {}
  PROVE  Records(talk') /\ TalkMoves /\ talk'[d] = e
<1>1. AllSound /\ talk'[d] = e
  BY DEF Together, AllSound
<1>2. AllSound'
  BY <1>1, RecordRight DEF StepIsRight
<1>3. \A x \in Cameras : x # d => talk'[x] = talk[x]
  BY <1>1 DEF AllSound
<1>4. ASSUME NEW x \in Cameras
      PROVE  /\ FloorMoves(talk[x], talk'[x])
             /\ talk'[x].web \ talk[x].web # {} => talk[x].web = {} /\ talk[x].rtmp = {}
  <2>1. CASE x = d
    BY <1>1, <2>1, Zenon
  <2>2. CASE x # d
    <3>1. talk'[x] = talk[x]
      BY <1>3, <2>2
    <3>2. FloorMoves(talk[x], talk'[x])
      BY <3>1, QuietMoves, Zenon
    <3> QED
      BY <3>1, <3>2
  <2> QED
    BY <2>1, <2>2
<1> QED
  BY <1>1, <1>2, <1>4 DEF AllSound, Records, TalkMoves

(* A record moves whose browser owners stay: the sessions stay.            *)
LEMMA OthersMove ==
  ASSUME Together, NEW d \in Cameras, NEW e, talk' = [talk EXCEPT ![d] = e], Sound(e),
         FloorMoves(talk[d], e), e.web = talk[d].web,
         sessions' \in {sessions, AfterState(sessions, d, e)}
  PROVE  Together' /\ TalkMoves
<1>1. Records(talk') /\ TalkMoves
  BY OneMoves
<1>2. sessions' = sessions
  BY KeepsSessions, TogetherIs
<1>3. Owners(talk', sessions')
  BY <1>2, SameOwners, TogetherIs
<1> QED
  BY <1>1, <1>2, <1>3, TogetherIs, TogetherNext

LEMMA StopSessionMoves ==
  ASSUME Together, NEW k \in Clients, StopSession(k)
  PROVE  Together' /\ TalkMoves
<1>1. CASE sessions[k] = None
  BY <1>1, StillMoves DEF StopSession
<1>2. CASE sessions[k] # None
  <2>1. sessions[k] \in Cameras
    BY <1>2 DEF Together, SessionsTyped, SessionMap
  <2> DEFINE e == WebReleased(talk[sessions[k]], k)
  <2>2. PICK d \in Cameras : d = sessions[k]
    BY <2>1
  <2>3. talk' = TalkReleased(talk, d, k) /\ sessions' = SessionsReleased(talk, sessions, d, k)
    BY <1>2, <2>2 DEF StopSession
  <2>4. Together'
    BY <2>2, <2>3, Releases, TogetherIs, TogetherNext
  <2>5. talk' = [talk EXCEPT ![d] = WebReleased(talk[d], k)]
    BY <2>3 DEF TalkReleased
  <2>6. /\ Sound(WebReleased(talk[d], k)) /\ FloorMoves(talk[d], WebReleased(talk[d], k))
        /\ WebReleased(talk[d], k).web \ talk[d].web = {}
    BY ReleaseWebSound DEF Together, AllSound
  <2>7. TalkMoves
    BY <2>5, <2>6, OneMoves
  <2> QED
    BY <2>4, <2>7
<1> QED
  BY <1>1, <1>2

(* A browser that talks again to the camera it talks to: the release and   *)
(* the claim are one move of the floor.                                    *)
LEMMA MovesAgain ==
  ASSUME NEW c, Sound(c), NEW k \in Clients, k \in c.web,
         NEW e, e = WebClaimed(WebReleased(c, k), k)
  PROVE  FloorMoves(c, e) /\ e.web \subseteq c.web
<1> DEFINE r == WebReleased(c, k)
<1>1. Sound(r) /\ FloorMoves(c, r) /\ r.web = c.web \ {k} /\ r.rtmp = c.rtmp
  BY ReleaseWebSound
<1>2. c.web = {k} /\ r.web = {}
  BY <1>1 DEF Sound, Settled
<1> HIDE DEF r
<1>3. /\ Sound(e) /\ FloorMoves(r, e) /\ e.rtmp = r.rtmp
      /\ WebDenied(r, k) => e.web = r.web
      /\ ~WebDenied(r, k) => e.web = {k}
  BY <1>1, ClaimWebSound DEF r
<1>4. c.holder = "web"
  BY <1>2, BrowserHolds
<1>5. e.web # {} \/ e.rtmp # {}
  BY <1>2, <1>3 DEF WebDenied
<1>6. e.holder \in {"web", "rtmp"} /\ e.speakerOn
  BY <1>3, <1>5 DEF Sound, Settled, NextHolder
<1> QED
  BY <1>2, <1>3, <1>4, <1>6 DEF FloorMoves

LEMMA StartTalkMoves ==
  ASSUME Together, NEW k \in Clients, NEW d \in Cameras, StartTalk(k, d)
  PROVE  Together' /\ TalkMoves
<1>t. Records(talk) /\ sessions \in SessionMap /\ Owners(talk, sessions)
  BY TogetherIs
<1>1. CASE sessions[k] = None
  <2> DEFINE c == WebClaimed(talk[d], k)
  <2>1. talk' = TalkClaimed(talk, d, k) /\ sessions' = SessionsClaimed(talk, sessions, d, k)
    BY <1>1 DEF StartTalk, TalkClaimed, SessionsClaimed
  <2>2. Together'
    <3>1. Records(talk') /\ sessions' \in SessionMap /\ Owners(talk', sessions')
      BY <1>1, <1>t, <2>1, Claims, Zenon
    <3> QED
      BY <3>1, TogetherNext
  <2>3. Sound(c) /\ FloorMoves(talk[d], c)
        /\ (c.web \ talk[d].web # {} => talk[d].web = {} /\ talk[d].rtmp = {})
    BY <1>t, ClaimWebSound DEF Records
  <2>4. talk' = [talk EXCEPT ![d] = c]
    BY <2>1 DEF TalkClaimed
  <2> HIDE DEF c
  <2>5. TalkMoves
    BY <2>3, <2>4, OneMoves
  <2> QED
    BY <2>2, <2>5
<1>2. CASE sessions[k] # None
  <2>1. PICK e \in Cameras : e = sessions[k]
    BY <1>2, <1>t DEF SessionMap
  <2> DEFINE t1 == TalkReleased(talk, e, k)
             s1 == SessionsReleased(talk, sessions, e, k)
  <2>2. talk' = TalkClaimed(t1, d, k) /\ sessions' = SessionsClaimed(t1, s1, d, k)
    BY <1>2, <2>1 DEF StartTalk, TalkClaimed, SessionsClaimed
  <2>3. /\ Records(t1) /\ s1 \in SessionMap /\ Owners(t1, s1) /\ s1[k] = None
        /\ t1[e] = WebReleased(talk[e], k)
        /\ \A x \in Cameras : x # e => t1[x] = talk[x]
    BY <1>t, <2>1, Releases
  <2> HIDE DEF t1, s1
  <2>4. Together'
    <3>1. Records(talk') /\ sessions' \in SessionMap /\ Owners(talk', sessions')
      BY <2>2, <2>3, Claims, Zenon
    <3> QED
      BY <3>1, TogetherNext
  <2>5. /\ talk'[d] = WebClaimed(t1[d], k)
        /\ \A x \in Cameras : x # d => talk'[x] = t1[x]
    BY <2>2, <2>3 DEF Records, TalkClaimed
  <2>6. ASSUME NEW x \in Cameras
        PROVE  /\ FloorMoves(talk[x], talk'[x])
               /\ talk'[x].web \ talk[x].web # {} => talk[x].web = {} /\ talk[x].rtmp = {}
    <3>0. Sound(talk[x])
      BY <1>t DEF Records
    <3>1. CASE x = d /\ x = e
      <4>1. talk'[x] = WebClaimed(WebReleased(talk[x], k), k)
        BY <2>3, <2>5, <3>1
      <4>2. k \in talk[x].web
        BY <1>t, <2>1, <3>1 DEF Owners
      <4>3. FloorMoves(talk[x], talk'[x]) /\ talk'[x].web \subseteq talk[x].web
        BY <3>0, <4>1, <4>2, MovesAgain
      <4> QED
        BY <4>3
    <3>2. CASE x = d /\ x # e
      <4>1. talk'[x] = WebClaimed(talk[x], k)
        BY <2>3, <2>5, <3>2
      <4>2. /\ FloorMoves(talk[x], WebClaimed(talk[x], k))
            /\ WebClaimed(talk[x], k).web \ talk[x].web # {} =>
                 talk[x].web = {} /\ talk[x].rtmp = {}
        BY <3>0, ClaimWebSound
      <4> QED
        BY <4>1, <4>2, Zenon
    <3>3. CASE x # d /\ x = e
      <4>1. talk'[x] = WebReleased(talk[x], k)
        BY <2>3, <2>5, <3>3
      <4>2. /\ FloorMoves(talk[x], WebReleased(talk[x], k))
            /\ WebReleased(talk[x], k).web \ talk[x].web = {}
        BY <3>0, ReleaseWebSound
      <4> QED
        BY <4>1, <4>2, Zenon
    <3>4. CASE x # d /\ x # e
      <4>1. talk'[x] = talk[x]
        BY <2>3, <2>5, <3>4
      <4>2. FloorMoves(talk[x], talk'[x])
        BY <4>1, QuietMoves, Zenon
      <4> QED
        BY <4>1, <4>2
    <3> QED
      BY <3>1, <3>2, <3>3, <3>4
  <2> QED
    BY <2>4, <2>6 DEF TalkMoves
<1> QED
  BY <1>1, <1>2

LEMMA GatewayMoves ==
  ASSUME Together, Gateway
  PROVE  Together' /\ TalkMoves
<1>s. \A d \in Cameras : Sound(talk[d])
  BY DEF Together, AllSound
<1>1. ASSUME NEW k \in Clients, Connect(k) \/ Ghost(k)
      PROVE  Together' /\ TalkMoves
  BY <1>1, StillMoves DEF Connect, Ghost
<1>2. ASSUME NEW k \in Clients, StopTalk(k) \/ Disconnect(k)
      PROVE  Together' /\ TalkMoves
  BY <1>2, StopSessionMoves DEF StopTalk, Disconnect
<1>3. ASSUME NEW k \in Clients, Audio(k)
      PROVE  Together' /\ TalkMoves
  <2>1. PICK d \in Cameras : d = sessions[k]
    BY <1>3 DEF Audio, Together, SessionsTyped, SessionMap
  <2>2. talk' = [talk EXCEPT ![d] = Touched(talk[d], "web")] /\ sessions' = sessions
    BY <1>3, <2>1 DEF Audio, Touch, Handle, gatewayVars
  <2>3. /\ Sound(Touched(talk[d], "web")) /\ FloorMoves(talk[d], Touched(talk[d], "web"))
        /\ Touched(talk[d], "web").web = talk[d].web
    BY <1>s, TouchSound
  <2> QED
    BY <2>2, <2>3, OthersMove
<1> QED
  BY <1>1, <1>2, <1>3, StartTalkMoves DEF Gateway


(***************************************************************************)
(* The timers, seen by the gateway too.                                    *)
(***************************************************************************)

(* The idle timer takes the browser's floor and drops its session.         *)
LEMMA IdleFiresMoves ==
  ASSUME Together, NEW d \in Cameras, BrowserTimesOut(d)
  PROVE  Together' /\ TalkMoves
<1> DEFINE e == IdledOut(talk[d])
<1>1. talk' = [talk EXCEPT ![d] = e] /\ sessions' = AfterState(sessions, d, talk'[d])
  BY DEF BrowserTimesOut, IdleFires, Handle
<1>2. Sound(e) /\ FloorMoves(talk[d], e) /\ e.web = {}
  BY IdledOutSound DEF Together, AllSound
<1> HIDE DEF e
<1>3. Records(talk') /\ TalkMoves /\ talk'[d] = e
  BY <1>1, <1>2, OneMoves
<1>4. e.holder # "web"
  BY <1>2, BrowserHolds
<1>t. Records(talk) /\ sessions \in SessionMap /\ Owners(talk, sessions)
  BY TogetherIs
<1>5. \A k \in Clients : sessions'[k] = IF sessions[k] = d THEN None ELSE sessions[k]
  BY <1>1, <1>3, <1>4 DEF AfterState
<1>6. sessions' \in SessionMap
  BY <1>1, <1>t DEF AfterState, SessionMap
<1>7. \A x \in Cameras : x # d => talk'[x] = talk[x]
  BY <1>1, <1>t DEF Records
<1>8. Owners(talk', sessions')
  <2> SUFFICES ASSUME NEW k \in Clients, NEW x \in Cameras
               PROVE  sessions'[k] = x <=> k \in talk'[x].web
    BY DEF Owners
  <2>0. (sessions[k] = x <=> k \in talk[x].web) /\ x # None
    BY <1>t, TalkbackAssumption DEF Owners
  <2>1. CASE x = d
    BY <1>2, <1>3, <1>5, <2>0, <2>1
  <2>2. CASE x # d
    BY <1>5, <1>7, <2>0, <2>2
  <2> QED
    BY <2>1, <2>2
<1> QED
  BY <1>3, <1>6, <1>8, TogetherNext

LEMMA TimersMove ==
  ASSUME Together, Timers
  PROVE  Together' /\ TalkMoves
<1>s. \A d \in Cameras : Sound(talk[d])
  BY DEF Together, AllSound
<1>1. ASSUME NEW d \in Cameras, PacketsStop(d)
      PROVE  Together' /\ TalkMoves
  <2> DEFINE e == [talk[d] EXCEPT !.idle = "stale"]
  <2>1. talk[d].holder = "web"
    BY <1>s, <1>1 DEF PacketsStop, IdlePasses, Sound, Settled
  <2>2. Sound(e) /\ FloorMoves(talk[d], e) /\ e.web = talk[d].web
    BY <1>s, <2>1, IdleSound
  <2>3. talk' = [talk EXCEPT ![d] = e] /\ sessions' = sessions
    BY <1>1 DEF PacketsStop, IdlePasses, Handle, gatewayVars
  <2> HIDE DEF e
  <2> QED
    BY <2>2, <2>3, OthersMove
<1>2. ASSUME NEW d \in Cameras, GraceEnds(d)
      PROVE  Together' /\ TalkMoves
  <2>1. talk' = [talk EXCEPT ![d] = GraceOver(talk[d])] /\ sessions' = sessions
    BY <1>2 DEF GraceEnds, GraceFires, Handle, gatewayVars
  <2>2. /\ Sound(GraceOver(talk[d])) /\ FloorMoves(talk[d], GraceOver(talk[d]))
        /\ GraceOver(talk[d]).web = talk[d].web
    BY <1>s, <1>2, GraceOverSound DEF GraceEnds, GraceFires
  <2> QED
    BY <2>1, <2>2, OthersMove
<1>3. ASSUME NEW d \in Cameras, MqttTurns(d)
      PROVE  Together' /\ TalkMoves
  BY <1>3, StillMoves DEF MqttTurns, MqttChanges, gatewayVars
<1> QED
  BY <1>1, <1>2, <1>3, IdleFiresMoves DEF Timers

-----------------------------------------------------------------------------

(***************************************************************************)
(* The ingest.  A relay kept under a name is a process of that name, for a *)
(* camera the look-up of the name returned: what stopRelay releases is     *)
(* what the publish handler claimed, however old the relay is by then.     *)
(***************************************************************************)
Started(p) ==
  /\ p.phase \in {"live", "dud", "ending", "exited"}
  /\ p.name \in Names
  /\ p.did \in Match[p.name]
  /\ p = [phase |-> p.phase, name |-> p.name, did |-> p.did]

ProcsGood ==
  /\ DOMAIN proc = Relays
  /\ \A r \in Relays : proc[r] = NoProc \/ Started(proc[r])

KeptGood ==
  /\ relay \in [Names -> Relays \union {0}]
  /\ \A n \in Names : relay[n] # 0 => Started(proc[relay[n]]) /\ proc[relay[n]].name = n

RelaysGood == ProcsGood /\ KeptGood

(* The end of a relay's input changes no process but its phase.            *)
LEMMA EndedGood ==
  ASSUME NEW p, DOMAIN p = Relays, NEW r
  PROVE  /\ DOMAIN Ended(p, r) = Relays
         /\ \A q \in Relays : p[q] = NoProc => Ended(p, r)[q] = NoProc
         /\ \A q \in Relays : Started(p[q]) =>
              /\ Started(Ended(p, r)[q])
              /\ Ended(p, r)[q].name = p[q].name /\ Ended(p, r)[q].did = p[q].did
<1>1. CASE r # 0 /\ p[r].phase = "live"
  <2>1. Ended(p, r) = [p EXCEPT ![r].phase = "ending"]
    BY <1>1 DEF Ended
  <2>2. ASSUME NEW q \in Relays, p[q] = NoProc
        PROVE  Ended(p, r)[q] = NoProc
    BY <1>1, <2>1, <2>2 DEF NoProc
  <2>3. ASSUME NEW q \in Relays, Started(p[q])
        PROVE  /\ Started(Ended(p, r)[q])
               /\ Ended(p, r)[q].name = p[q].name /\ Ended(p, r)[q].did = p[q].did
    <3>1. CASE q = r
      <4>1. Ended(p, r)[q] = [p[q] EXCEPT !.phase = "ending"]
        BY <2>1, <3>1
      <4>2. /\ [p[q] EXCEPT !.phase = "ending"].phase = "ending"
            /\ [p[q] EXCEPT !.phase = "ending"].name = p[q].name
            /\ [p[q] EXCEPT !.phase = "ending"].did = p[q].did
            /\ [p[q] EXCEPT !.phase = "ending"] =
                 [phase |-> "ending", name |-> p[q].name, did |-> p[q].did]
        BY <2>3 DEF Started
      <4> QED
        BY <2>3, <4>1, <4>2 DEF Started
    <3>2. CASE q # r
      <4>1. Ended(p, r)[q] = p[q]
        BY <2>1, <3>2
      <4> QED
        BY <2>3, <4>1, Zenon
    <3> QED
      BY <3>1, <3>2
  <2> QED
    BY <2>1, <2>2, <2>3
<1>2. CASE ~(r # 0 /\ p[r].phase = "live")
  <2>1. Ended(p, r) = p
    BY <1>2 DEF Ended
  <2> QED
    BY <2>1, Zenon
<1> QED
  BY <1>1, <1>2

LEMMA RelaysStay ==
  ASSUME RelaysGood, UNCHANGED <<relay, proc>>
  PROVE  RelaysGood'
BY DEF RelaysGood, ProcsGood, KeptGood

(* Processes change, the relays kept are the same or fewer, and none of    *)
(* them loses its process.                                                 *)
LEMMA RelaysFollow ==
  ASSUME RelaysGood, relay' \in [Names -> Relays \union {0}],
         DOMAIN proc' = Relays,
         \A r \in Relays : proc'[r] = NoProc \/ Started(proc'[r]),
         \A n \in Names : relay'[n] # 0 =>
           /\ relay'[n] = relay[n]
           /\ Started(proc'[relay[n]]) /\ proc'[relay[n]].name = proc[relay[n]].name
  PROVE  RelaysGood'
<1>1. ASSUME NEW n \in Names, relay'[n] # 0
      PROVE  Started(proc'[relay'[n]]) /\ proc'[relay'[n]].name = n
  BY <1>1 DEF RelaysGood, KeptGood
<1> QED
  BY <1>1 DEF RelaysGood, ProcsGood, KeptGood


(* stopRelay releases the camera the relay was started for.                *)
LEMMA StopRelayMoves ==
  ASSUME Together, RelaysGood, NEW n \in Names, NEW p, StopRelay(n, p)
  PROVE  Together' /\ TalkMoves
<1>1. CASE relay[n] = 0
  BY <1>1, StillMoves DEF StopRelay
<1>2. CASE relay[n] # 0
  <2>1. PICK d \in Cameras : d = proc[relay[n]].did
    BY <1>2, TalkbackAssumption DEF RelaysGood, KeptGood, Started
  <2> DEFINE e == RtmpReleased(talk[d], n)
  <2>2. /\ talk' = [talk EXCEPT ![d] = e]
        /\ sessions' \in {sessions, AfterState(sessions, d, talk'[d])}
    BY <1>2, <2>1 DEF StopRelay
  <2>3. Sound(e) /\ FloorMoves(talk[d], e) /\ e.web = talk[d].web
    BY ReleaseRtmpSound DEF Together, AllSound
  <2>4. talk'[d] = e
    BY <2>2 DEF Together, AllSound
  <2> HIDE DEF e
  <2> QED
    BY <2>2, <2>3, <2>4, OthersMove
<1> QED
  BY <1>1, <1>2

LEMMA StopRelayKeeps ==
  ASSUME RelaysGood, NEW n \in Names, NEW p, DOMAIN p = Relays,
         \A r \in Relays : p[r] = NoProc \/ Started(p[r]),
         \A m \in Names : m # n /\ relay[m] # 0 => p[relay[m]] = proc[relay[m]],
         StopRelay(n, p)
  PROVE  RelaysGood'
<1>t. /\ relay \in [Names -> Relays \union {0}]
      /\ \A m \in Names : relay[m] # 0 => Started(proc[relay[m]])
  BY DEF RelaysGood, KeptGood
<1>1. CASE relay[n] = 0
  <2>1. relay' = relay /\ proc' = p
    BY <1>1 DEF StopRelay
  <2>2. ASSUME NEW m \in Names, relay'[m] # 0
        PROVE  /\ relay'[m] = relay[m]
               /\ Started(proc'[relay[m]]) /\ proc'[relay[m]].name = proc[relay[m]].name
    <3>1. relay[m] # 0 /\ p[relay[m]] = proc[relay[m]]
      BY <1>1, <2>1, <2>2
    <3>2. Started(p[relay[m]])
      BY <1>t, <3>1, Zenon
    <3> QED
      BY <2>1, <3>1, <3>2, Zenon
  <2>3. \A r \in Relays : proc'[r] = NoProc \/ Started(proc'[r])
    BY <2>1, Zenon
  <2> QED
    BY <1>t, <2>1, <2>2, <2>3, RelaysFollow
<1>2. CASE relay[n] # 0
  <2>1. relay' = [relay EXCEPT ![n] = 0] /\ proc' = Ended(p, relay[n])
    BY <1>2 DEF StopRelay
  <2>2. /\ DOMAIN proc' = Relays
        /\ \A q \in Relays : p[q] = NoProc => proc'[q] = NoProc
        /\ \A q \in Relays : Started(p[q]) => Started(proc'[q]) /\ proc'[q].name = p[q].name
    BY <2>1, EndedGood
  <2>3. ASSUME NEW m \in Names, relay'[m] # 0
        PROVE  /\ relay'[m] = relay[m]
               /\ Started(proc'[relay[m]]) /\ proc'[relay[m]].name = proc[relay[m]].name
    <3>1. m # n /\ relay'[m] = relay[m] /\ relay[m] \in Relays
      BY <1>t, <2>1, <2>3
    <3>2. p[relay[m]] = proc[relay[m]]
      BY <2>3, <3>1
    <3>3. Started(p[relay[m]])
      BY <1>t, <2>3, <3>1, <3>2, Zenon
    <3> QED
      BY <2>2, <3>1, <3>2, <3>3
  <2>4. \A r \in Relays : proc'[r] = NoProc \/ Started(proc'[r])
    BY <2>2
  <2>5. relay' \in [Names -> Relays \union {0}]
    BY <1>t, <2>1
  <2> QED
    BY <2>2, <2>3, <2>4, <2>5, RelaysFollow
<1> QED
  BY <1>1, <1>2

(* startRelay replaces whatever relay the name had.                        *)
LEMMA StartRelayKeeps ==
  ASSUME RelaysGood, NEW n \in Names, NEW d \in Match[n], NEW r \in Relays, Free(r),
         NEW ph \in {"live", "dud"},
         proc' = [Ended(proc, relay[n]) EXCEPT ![r] = [phase |-> ph, name |-> n, did |-> d]],
         relay' = [relay EXCEPT ![n] = r]
  PROVE  RelaysGood'
<1> DEFINE p == Ended(proc, relay[n])
           new == [phase |-> ph, name |-> n, did |-> d]
<1>t. /\ relay \in [Names -> Relays \union {0}]
      /\ \A m \in Names : relay[m] # 0 => Started(proc[relay[m]]) /\ proc[relay[m]].name = m
      /\ DOMAIN proc = Relays /\ \A q \in Relays : proc[q] = NoProc \/ Started(proc[q])
  BY DEF RelaysGood, ProcsGood, KeptGood
<1>1. /\ DOMAIN p = Relays
      /\ \A q \in Relays : proc[q] = NoProc => p[q] = NoProc
      /\ \A q \in Relays : Started(proc[q]) => Started(p[q]) /\ p[q].name = proc[q].name
  BY <1>t, EndedGood
<1>2. Started(new) /\ new.name = n
  BY DEF Started
<1>3. proc' = [p EXCEPT ![r] = new]
  OBVIOUS
<1> HIDE DEF p, new
<1>4. /\ DOMAIN proc' = Relays /\ proc'[r] = new
      /\ \A q \in Relays : q # r => proc'[q] = p[q]
  BY <1>1, <1>3
<1>5. ASSUME NEW q \in Relays
      PROVE  proc'[q] = NoProc \/ Started(proc'[q])
  <2>1. CASE q = r
    BY <1>2, <1>4, <2>1, Zenon
  <2>2. CASE q # r
    BY <1>1, <1>4, <1>t, <2>2, Zenon
  <2> QED
    BY <2>1, <2>2
<1>6. ASSUME NEW m \in Names, relay'[m] # 0
      PROVE  Started(proc'[relay'[m]]) /\ proc'[relay'[m]].name = m
  <2>1. CASE m = n
    <3>1. relay'[m] = r
      BY <1>t, <2>1
    <3> QED
      BY <1>2, <1>4, <2>1, <3>1, Zenon
  <2>2. CASE m # n
    <3>1. relay'[m] = relay[m] /\ relay[m] \in Relays
      BY <1>t, <1>6, <2>2
    <3>2. Started(proc[relay[m]]) /\ proc[relay[m]].name = m
      BY <1>6, <1>t, <3>1
    <3>3. relay[m] # r
      BY DEF Free
    <3>4. proc'[relay[m]] = p[relay[m]]
      BY <1>4, <3>1, <3>3
    <3> QED
      BY <1>1, <3>1, <3>2, <3>4
  <2> QED
    BY <2>1, <2>2
<1>7. relay' \in [Names -> Relays \union {0}]
  BY <1>t
<1> QED
  BY <1>4, <1>5, <1>6, <1>7 DEF RelaysGood, ProcsGood, KeptGood

LEMMA ExitKeeps ==
  ASSUME RelaysGood, NEW r \in Relays, Exit(r)
  PROVE  RelaysGood'
<1>t. /\ relay \in [Names -> Relays \union {0}]
      /\ \A m \in Names : relay[m] # 0 => Started(proc[relay[m]])
      /\ DOMAIN proc = Relays /\ \A q \in Relays : proc[q] = NoProc \/ Started(proc[q])
  BY DEF RelaysGood, ProcsGood, KeptGood
<1>1. Started(proc[r])
  BY <1>t DEF Exit, NoProc
<1>2. relay' = relay /\ proc' = [proc EXCEPT ![r].phase = "exited"]
  BY DEF Exit
<1>3. proc'[r] = [proc[r] EXCEPT !.phase = "exited"]
  BY <1>2, <1>t
<1>4. Started(proc'[r]) /\ proc'[r].name = proc[r].name
  <2>1. /\ [proc[r] EXCEPT !.phase = "exited"].phase = "exited"
        /\ [proc[r] EXCEPT !.phase = "exited"].name = proc[r].name
        /\ [proc[r] EXCEPT !.phase = "exited"].did = proc[r].did
        /\ [proc[r] EXCEPT !.phase = "exited"] =
             [phase |-> "exited", name |-> proc[r].name, did |-> proc[r].did]
    BY <1>1 DEF Started
  <2> QED
    BY <1>1, <1>3, <2>1 DEF Started
<1>5. \A q \in Relays : q # r => proc'[q] = proc[q]
  BY <1>2, <1>t
<1>6. ASSUME NEW q \in Relays
      PROVE  /\ proc'[q] = NoProc \/ Started(proc'[q])
             /\ Started(proc[q]) => Started(proc'[q]) /\ proc'[q].name = proc[q].name
  <2>1. CASE q = r
    BY <1>4, <2>1, Zenon
  <2>2. CASE q # r
    BY <1>5, <1>t, <2>2, Zenon
  <2> QED
    BY <2>1, <2>2
<1>7. DOMAIN proc' = Relays
  BY <1>2, <1>t
<1>8. ASSUME NEW m \in Names, relay'[m] # 0
      PROVE  /\ relay'[m] = relay[m]
             /\ Started(proc'[relay[m]]) /\ proc'[relay[m]].name = proc[relay[m]].name
  BY <1>2, <1>6, <1>8, <1>t
<1> QED
  BY <1>2, <1>6, <1>7, <1>8, <1>t, RelaysFollow

(* The drained relay's process is gone; only its own name is looked up.    *)
LEMMA DrainKeeps ==
  ASSUME RelaysGood, NEW r \in Relays, Drain(r)
  PROVE  RelaysGood' /\ proc[r].name \in Names
<1>t. /\ \A m \in Names : relay[m] # 0 => proc[relay[m]].name = m
      /\ DOMAIN proc = Relays /\ \A q \in Relays : proc[q] = NoProc \/ Started(proc[q])
  BY DEF RelaysGood, ProcsGood, KeptGood
<1> DEFINE p == [proc EXCEPT ![r] = NoProc]
<1>1. proc[r].name \in Names /\ StopRelay(proc[r].name, p)
  BY <1>t DEF Drain, NoProc, Started
<1>2. /\ DOMAIN p = Relays /\ p[r] = NoProc
      /\ \A q : q # r => p[q] = proc[q]
  BY <1>t
<1> HIDE DEF p
<1>3. ASSUME NEW q \in Relays
      PROVE  p[q] = NoProc \/ Started(p[q])
  <2>1. CASE q = r
    BY <1>2, <2>1, Zenon
  <2>2. CASE q # r
    BY <1>2, <1>t, <2>2, Zenon
  <2> QED
    BY <2>1, <2>2
<1>4. \A m \in Names : m # proc[r].name /\ relay[m] # 0 => p[relay[m]] = proc[relay[m]]
  BY <1>2, <1>t
<1> QED
  BY <1>1, <1>2, <1>3, <1>4, StopRelayKeeps


(***************************************************************************)
(* The types of what is left of the state.  conn is what makes a closing   *)
(* connection name a stream that may have a relay.                         *)
(***************************************************************************)
Processes ==
  [phase : {"gone", "live", "dud", "ending", "exited"},
   name : Names \union {None}, did : Cameras \union {None}]

RestTyped ==
  /\ proc \in [Relays -> Processes]
  /\ mqtt \in [Cameras -> BOOLEAN]
  /\ speaker \in [Cameras -> BOOLEAN]
  /\ client \in [Clients -> {"open", "ghost", "closed"}]
  /\ conn \in [Conns -> Names \union {None}]
  /\ resolving \in [Names -> 0..MaxResolving]
  /\ pending \in SUBSET Names

Composed == Together /\ RelaysGood /\ RestTyped

(* What a step does besides.                                               *)
Composes == Together' /\ TalkMoves /\ RelaysGood'

LEMMA GatewayComposes ==
  ASSUME Composed, Gateway
  PROVE  Composes
<1>1. UNCHANGED <<relay, proc>>
  BY DEF Gateway, Connect, StartTalk, StopTalk, Audio, Ghost, Disconnect, rtmpVars
<1> QED
  BY <1>1, GatewayMoves, RelaysStay DEF Composed, Composes

LEMMA TimersCompose ==
  ASSUME Composed, Timers
  PROVE  Composes
<1>1. UNCHANGED <<relay, proc>>
  BY DEF Timers, PacketsStop, BrowserTimesOut, GraceEnds, MqttTurns, rtmpVars
<1> QED
  BY <1>1, TimersMove, RelaysStay DEF Composed, Composes

LEMMA UnpublishComposes ==
  ASSUME Composed, NEW x \in Conns, Unpublish(x)
  PROVE  Composes
<1>1. PICK n \in Names : n = conn[x]
  BY DEF Unpublish, Composed, RestTyped
<1>g. /\ relay \in [Names -> Relays \union {0}]
      /\ \A m \in Names : relay[m] # 0 => Started(proc[relay[m]])
      /\ DOMAIN proc = Relays /\ \A q \in Relays : proc[q] = NoProc \/ Started(proc[q])
  BY DEF Composed, RelaysGood, ProcsGood, KeptGood
<1>2. CASE relay[n] # 0 /\ Writable(relay[n])
  <2>1. proc' = Ended(proc, relay[n]) /\ UNCHANGED <<talk, sessions, relay>>
    BY <1>1, <1>2 DEF Unpublish
  <2>2. Together' /\ TalkMoves
    BY <2>1, StillMoves DEF Composed
  <2>3. /\ DOMAIN proc' = Relays
        /\ \A q \in Relays : proc[q] = NoProc => proc'[q] = NoProc
        /\ \A q \in Relays : Started(proc[q]) => Started(proc'[q]) /\ proc'[q].name = proc[q].name
    BY <1>g, <2>1, EndedGood
  <2>4. ASSUME NEW m \in Names, relay'[m] # 0
        PROVE  /\ relay'[m] = relay[m]
               /\ Started(proc'[relay[m]]) /\ proc'[relay[m]].name = proc[relay[m]].name
    BY <1>g, <2>1, <2>3, <2>4
  <2>5. RelaysGood'
    BY <1>g, <2>1, <2>3, <2>4, RelaysFollow DEF Composed
  <2> QED
    BY <2>2, <2>5 DEF Composes
<1>3. CASE ~(relay[n] # 0 /\ Writable(relay[n]))
  <2>1. StopRelay(n, proc)
    BY <1>1, <1>3 DEF Unpublish
  <2>2. Together' /\ TalkMoves
    BY <2>1, StopRelayMoves DEF Composed
  <2>3. RelaysGood'
    BY <1>g, <2>1, StopRelayKeeps DEF Composed
  <2> QED
    BY <2>2, <2>3 DEF Composes
<1> QED
  BY <1>2, <1>3

LEMMA ResolveCameraComposes ==
  ASSUME Composed, NEW n \in Names, NEW d \in Cameras, ResolveCamera(n, d)
  PROVE  Composes
<1>1. RelaysGood'
  BY StartRelayKeeps DEF Composed, ResolveCamera, StartRelay
<1> DEFINE e == RtmpClaimed(talk[d], n)
<1>2. /\ talk' = [talk EXCEPT ![d] = e]
      /\ sessions' = AfterState(sessions, d, talk'[d])
  BY DEF ResolveCamera
<1>3. Sound(e) /\ FloorMoves(talk[d], e) /\ e.web = talk[d].web
  BY ClaimRtmpSound DEF Composed, Together, AllSound
<1>4. talk'[d] = e
  BY <1>2 DEF Composed, Together, AllSound
<1> HIDE DEF e
<1>5. Together' /\ TalkMoves
  BY <1>2, <1>3, <1>4, OthersMove DEF Composed
<1> QED
  BY <1>1, <1>5 DEF Composes

LEMMA IngestComposes ==
  ASSUME Composed, Ingest
  PROVE  Composes
<1>1. ASSUME UNCHANGED <<talk, sessions, relay, proc>>
      PROVE  Composes
  BY <1>1, StillMoves, RelaysStay DEF Composed, Composes
<1>2. ASSUME NEW x \in Conns, NEW n \in Names, Publish(x, n)
      PROVE  Composes
  BY <1>1, <1>2 DEF Publish, gatewayVars
<1>3. ASSUME NEW n \in Names, ResolveNothing(n)
      PROVE  Composes
  BY <1>1, <1>3 DEF ResolveNothing, gatewayVars
<1>4. ASSUME NEW r \in Relays, Exit(r)
      PROVE  Composes
  <2>1. UNCHANGED <<talk, sessions>>
    BY <1>4 DEF Exit, gatewayVars
  <2> QED
    BY <1>4, <2>1, StillMoves, ExitKeeps DEF Composed, Composes
<1>5. ASSUME NEW r \in Relays, Drain(r)
      PROVE  Composes
  <2>1. RelaysGood' /\ proc[r].name \in Names
    BY <1>5, DrainKeeps DEF Composed
  <2>2. Together' /\ TalkMoves
    BY <1>5, <2>1, StopRelayMoves DEF Composed, Drain
  <2> QED
    BY <2>1, <2>2 DEF Composes
<1> QED
  BY <1>2, <1>3, <1>4, <1>5, UnpublishComposes, ResolveCameraComposes DEF Ingest

LEMMA NextComposes ==
  ASSUME Composed, [Next]_vars
  PROVE  Composes
<1>1. CASE UNCHANGED vars
  BY <1>1, StillMoves, RelaysStay DEF Composed, Composes, vars
<1> QED
  BY <1>1, GatewayComposes, TimersCompose, IngestComposes DEF Next

(* A speaker command carries what the record says.                         *)
LEMMA SpeakerTyped ==
  ASSUME Together, Together', speaker \in [Cameras -> BOOLEAN],
         SendSpeaker \/ UNCHANGED speaker
  PROVE  speaker' \in [Cameras -> BOOLEAN]
<1>1. \A d \in Cameras : talk[d].speakerOn \in BOOLEAN /\ talk'[d].speakerOn \in BOOLEAN
  BY DEF Together, AllSound, CameraTalk
<1> QED
  BY <1>1 DEF SendSpeaker, Told

LEMMA EndedTyped ==
  ASSUME NEW p \in [Relays -> Processes], NEW r
  PROVE  Ended(p, r) \in [Relays -> Processes]
<1>1. \A q \in Processes :
        /\ [q EXCEPT !.phase = "ending"] \in Processes
        /\ [q EXCEPT !.phase = "exited"] \in Processes
  BY DEF Processes
<1>2. CASE r \in Relays
  BY <1>1, <1>2 DEF Ended
<1>3. CASE r \notin Relays
  BY <1>3 DEF Ended
<1> QED
  BY <1>2, <1>3

LEMMA IngestProcesses ==
  ASSUME Composed, Ingest
  PROVE  proc' \in [Relays -> Processes]
<1>0. proc \in [Relays -> Processes] /\ NoProc \in Processes
  BY DEF Composed, RestTyped, NoProc, Processes
<1>1. ASSUME NEW n, NEW p \in [Relays -> Processes], StopRelay(n, p)
      PROVE  proc' \in [Relays -> Processes]
  BY <1>1, EndedTyped DEF StopRelay
<1>2. ASSUME NEW x \in Conns, Unpublish(x)
      PROVE  proc' \in [Relays -> Processes]
  BY <1>0, <1>1, <1>2, EndedTyped DEF Unpublish
<1>3. ASSUME NEW n \in Names, NEW d \in Cameras, ResolveCamera(n, d)
      PROVE  proc' \in [Relays -> Processes]
  <2>1. PICK r \in Relays, ph \in {"live", "dud"} :
          proc' = [Ended(proc, relay[n]) EXCEPT
                     ![r] = [phase |-> ph, name |-> n, did |-> d]]
    BY <1>3 DEF ResolveCamera, StartRelay
  <2> DEFINE new == [phase |-> ph, name |-> n, did |-> d]
  <2>2. new \in Processes
    BY DEF Processes
  <2>3. Ended(proc, relay[n]) \in [Relays -> Processes]
    BY <1>0, EndedTyped
  <2>4. proc' = [Ended(proc, relay[n]) EXCEPT ![r] = new]
    BY <2>1
  <2> HIDE DEF new
  <2> QED
    BY <2>2, <2>3, <2>4
<1>4. ASSUME NEW r \in Relays, Exit(r)
      PROVE  proc' \in [Relays -> Processes]
  <2>1. [proc[r] EXCEPT !.phase = "exited"] \in Processes
    BY <1>0 DEF Processes
  <2>2. proc' = [proc EXCEPT ![r] = [proc[r] EXCEPT !.phase = "exited"]]
    BY <1>0, <1>4 DEF Exit
  <2> QED
    BY <1>0, <2>1, <2>2
<1>5. ASSUME NEW r \in Relays, Drain(r)
      PROVE  proc' \in [Relays -> Processes]
  <2>1. [proc EXCEPT ![r] = NoProc] \in [Relays -> Processes]
    BY <1>0
  <2> QED
    BY <1>1, <1>5, <2>1 DEF Drain
<1> QED
  BY <1>0, <1>2, <1>3, <1>4, <1>5 DEF Ingest, Publish, ResolveNothing

LEMMA GatewayRest ==
  ASSUME Composed, Gateway, Together'
  PROVE  RestTyped'
<1>1. UNCHANGED <<mqtt, conn, resolving, pending, proc>>
  BY DEF Gateway, Connect, StartTalk, StopTalk, Audio, Ghost, Disconnect, rtmpVars,
         Touch, Handle
<1>2. SendSpeaker \/ UNCHANGED speaker
  BY DEF Gateway, Connect, StartTalk, StopTalk, StopSession, Audio, Ghost, Disconnect,
         Touch, Handle
<1>3. client' \in [Clients -> {"open", "ghost", "closed"}]
  BY DEF Composed, RestTyped, Gateway, Connect, StartTalk, StopTalk, Audio, Ghost,
         Disconnect, gatewayVars
<1> QED
  BY <1>1, <1>2, <1>3, SpeakerTyped DEF Composed, RestTyped

LEMMA TimersRest ==
  ASSUME Composed, Timers, Together'
  PROVE  RestTyped'
<1>1. UNCHANGED <<client, conn, resolving, pending, proc>>
  BY DEF Timers, PacketsStop, BrowserTimesOut, GraceEnds, MqttTurns, gatewayVars, rtmpVars
<1>2. SendSpeaker \/ UNCHANGED speaker
  BY DEF Timers, PacketsStop, BrowserTimesOut, GraceEnds, MqttTurns,
         IdlePasses, IdleFires, GraceFires, MqttChanges, Handle
<1>3. mqtt' \in [Cameras -> BOOLEAN]
  BY DEF Composed, RestTyped, Timers, PacketsStop, BrowserTimesOut, GraceEnds, MqttTurns,
         IdlePasses, IdleFires, GraceFires, MqttChanges, Handle
<1> QED
  BY <1>1, <1>2, <1>3, SpeakerTyped DEF Composed, RestTyped

LEMMA IngestRest ==
  ASSUME Composed, Ingest, Together'
  PROVE  RestTyped'
<1>1. UNCHANGED <<mqtt, client>>
  <2>1. ASSUME NEW x \in Conns, Unpublish(x)
        PROVE  UNCHANGED <<mqtt, client>>
    BY <2>1 DEF Unpublish
  <2>2. ASSUME NEW x \in Conns, NEW n \in Names, Publish(x, n)
        PROVE  UNCHANGED <<mqtt, client>>
    BY <2>2 DEF Publish, gatewayVars
  <2>3. ASSUME NEW n \in Names, ResolveNothing(n)
        PROVE  UNCHANGED <<mqtt, client>>
    BY <2>3 DEF ResolveNothing, gatewayVars
  <2>4. ASSUME NEW n \in Names, NEW d \in Cameras, ResolveCamera(n, d)
        PROVE  UNCHANGED <<mqtt, client>>
    BY <2>4 DEF ResolveCamera
  <2>5. ASSUME NEW r \in Relays, Exit(r)
        PROVE  UNCHANGED <<mqtt, client>>
    BY <2>5 DEF Exit, gatewayVars
  <2>6. ASSUME NEW r \in Relays, Drain(r)
        PROVE  UNCHANGED <<mqtt, client>>
    BY <2>6 DEF Drain
  <2> QED
    BY <2>1, <2>2, <2>3, <2>4, <2>5, <2>6 DEF Ingest
<1>2. SendSpeaker \/ UNCHANGED speaker
  <2>1. ASSUME NEW x \in Conns, Unpublish(x)
        PROVE  SendSpeaker \/ UNCHANGED speaker
    BY <2>1 DEF Unpublish, StopRelay
  <2>2. ASSUME NEW x \in Conns, NEW n \in Names, Publish(x, n)
        PROVE  SendSpeaker \/ UNCHANGED speaker
    BY <2>2 DEF Publish
  <2>3. ASSUME NEW n \in Names, ResolveNothing(n)
        PROVE  SendSpeaker \/ UNCHANGED speaker
    BY <2>3 DEF ResolveNothing
  <2>4. ASSUME NEW n \in Names, NEW d \in Cameras, ResolveCamera(n, d)
        PROVE  SendSpeaker \/ UNCHANGED speaker
    BY <2>4 DEF ResolveCamera
  <2>5. ASSUME NEW r \in Relays, Exit(r)
        PROVE  SendSpeaker \/ UNCHANGED speaker
    BY <2>5 DEF Exit
  <2>6. ASSUME NEW r \in Relays, Drain(r)
        PROVE  SendSpeaker \/ UNCHANGED speaker
    BY <2>6 DEF Drain, StopRelay
  <2> QED
    BY <2>1, <2>2, <2>3, <2>4, <2>5, <2>6 DEF Ingest
<1>3. conn' \in [Conns -> Names \union {None}]
  BY DEF Composed, RestTyped, Ingest, Publish, Unpublish, ResolveNothing, ResolveCamera,
         Exit, Drain
<1>4. pending' \in SUBSET Names
  BY DEF Composed, RestTyped, Ingest, Publish, Unpublish, ResolveNothing, ResolveCamera,
         Exit, Drain
<1>5. resolving' \in [Names -> 0..MaxResolving]
  <2>0. resolving \in [Names -> 0..MaxResolving] /\ MaxResolving \in Nat
    BY TalkbackAssumption DEF Composed, RestTyped
  <2>1. ASSUME NEW n \in Names, resolving[n] > 0, resolving' = [resolving EXCEPT ![n] = @ - 1]
        PROVE  resolving' \in [Names -> 0..MaxResolving]
    BY <2>0, <2>1
  <2>2. ASSUME NEW n \in Names, resolving[n] < MaxResolving,
               resolving' = [resolving EXCEPT ![n] = @ + 1]
        PROVE  resolving' \in [Names -> 0..MaxResolving]
    BY <2>0, <2>2
  <2> QED
    BY <2>0, <2>1, <2>2
    DEF Ingest, Publish, Unpublish, ResolveNothing, ResolveCamera, Exit, Drain
<1> QED
  BY <1>1, <1>2, <1>3, <1>4, <1>5, SpeakerTyped, IngestProcesses DEF Composed, RestTyped

LEMMA NextRest ==
  ASSUME Composed, [Next]_vars, Together'
  PROVE  RestTyped'
<1>1. CASE UNCHANGED vars
  BY <1>1 DEF Composed, RestTyped, vars
<1> QED
  BY <1>1, GatewayRest, TimersRest, IngestRest DEF Next

LEMMA InitComposed == Init => Composed
<1> SUFFICES ASSUME Init PROVE Composed
  OBVIOUS
<1>1. AllSound
  BY InitSound DEF Init
<1>2. sessions \in SessionMap /\ \A k \in Clients : sessions[k] = None
  BY DEF Init, SessionMap
<1>3. \A d \in Cameras : talk[d].web = {}
  BY DEF Init, SessionInit, NoTalk
<1>4. SessionsOwn
  BY <1>2, <1>3, TalkbackAssumption DEF SessionsOwn
<1>5. RelaysGood
  BY DEF Init, RelaysGood, ProcsGood, KeptGood
<1>6. RestTyped
  BY TalkbackAssumption DEF Init, SessionInit, RestTyped, Processes, NoProc
<1> QED
  BY <1>1, <1>2, <1>4, <1>5, <1>6 DEF Composed, Together, SessionsTyped

(* In every reachable state the records are sound, the sessions are the    *)
(* browser owners, and a kept relay is a process of its name: the          *)
(* inductive invariant of the composition.                                 *)
THEOREM AlwaysComposed == Spec => []Composed
<1>1. Composed /\ [Next]_vars => Composed'
  BY NextComposes, NextRest DEF Composes, Composed
<1> QED
  BY <1>1, InitComposed, PTL DEF Spec


-----------------------------------------------------------------------------

(***************************************************************************)
(* The publishers.  Only the ingest changes who publishes to a camera: a   *)
(* claim comes with a relay and a release with the end of one.             *)
(***************************************************************************)
SamePublishers == \A d \in Cameras : talk'[d].rtmp = talk[d].rtmp

LEMMA OneKeepsPublishers ==
  ASSUME Together, NEW d \in Cameras, NEW e, talk' = [talk EXCEPT ![d] = e],
         e.rtmp = talk[d].rtmp
  PROVE  SamePublishers
BY DEF SamePublishers, Together, AllSound

LEMMA ReleaseKeepsPublishers ==
  ASSUME NEW t, Records(t), NEW d \in Cameras, NEW k
  PROVE  /\ Records(TalkReleased(t, d, k))
         /\ \A x \in Cameras : TalkReleased(t, d, k)[x].rtmp = t[x].rtmp
<1> DEFINE c == WebReleased(t[d], k)
<1>1. Sound(c) /\ c.rtmp = t[d].rtmp
  BY ReleaseWebSound DEF Records
<1>2. TalkReleased(t, d, k) = [t EXCEPT ![d] = c]
  BY DEF TalkReleased
<1> HIDE DEF c
<1>3. /\ TalkReleased(t, d, k)[d] = c
      /\ \A x \in Cameras : x # d => TalkReleased(t, d, k)[x] = t[x]
  BY <1>2 DEF Records
<1>4. TalkReleased(t, d, k) \in [Cameras -> CameraTalk]
  BY <1>1, <1>2 DEF Records, Sound, Settled
<1>5. ASSUME NEW x \in Cameras
      PROVE  Sound(TalkReleased(t, d, k)[x]) /\ TalkReleased(t, d, k)[x].rtmp = t[x].rtmp
  <2>1. CASE x = d
    BY <1>1, <1>3, <2>1, Zenon
  <2>2. CASE x # d
    BY <1>3, <2>2, Zenon DEF Records
  <2> QED
    BY <2>1, <2>2
<1> QED
  BY <1>4, <1>5 DEF Records

LEMMA ClaimKeepsPublishers ==
  ASSUME NEW t, Records(t), NEW d \in Cameras, NEW k \in Clients
  PROVE  \A x \in Cameras : TalkClaimed(t, d, k)[x].rtmp = t[x].rtmp
<1> DEFINE c == WebClaimed(t[d], k)
<1>1. c.rtmp = t[d].rtmp
  BY ClaimWebSound DEF Records
<1>2. TalkClaimed(t, d, k) = [t EXCEPT ![d] = c]
  BY DEF TalkClaimed
<1> HIDE DEF c
<1> QED
  BY <1>1, <1>2 DEF Records

LEMMA GatewayKeepsPublishers ==
  ASSUME Together, Gateway
  PROVE  SamePublishers
<1>t. Records(talk) /\ sessions \in SessionMap
  BY TogetherIs
<1>1. ASSUME UNCHANGED talk  PROVE SamePublishers
  BY <1>1 DEF SamePublishers
<1>2. ASSUME NEW k \in Clients, StopSession(k)  PROVE SamePublishers
  <2>1. CASE sessions[k] = None
    BY <1>1, <2>1, <1>2 DEF StopSession
  <2>2. CASE sessions[k] # None
    <3>1. sessions[k] \in Cameras /\ talk' = TalkReleased(talk, sessions[k], k)
      BY <1>2, <1>t, <2>2 DEF StopSession, SessionMap
    <3> QED
      BY <1>t, <3>1, ReleaseKeepsPublishers DEF SamePublishers
  <2> QED
    BY <2>1, <2>2
<1>3. ASSUME NEW k \in Clients, Audio(k)  PROVE SamePublishers
  <2>1. PICK d \in Cameras : d = sessions[k]
    BY <1>3, <1>t DEF Audio, SessionMap
  <2>2. talk' = [talk EXCEPT ![d] = Touched(talk[d], "web")]
    BY <1>3, <2>1 DEF Audio, Touch, Handle
  <2>3. Touched(talk[d], "web").rtmp = talk[d].rtmp
    BY <1>t, TouchSound DEF Records
  <2> QED
    BY <2>2, <2>3, OneKeepsPublishers
<1>4. ASSUME NEW k \in Clients, NEW d \in Cameras, StartTalk(k, d)  PROVE SamePublishers
  <2>1. CASE sessions[k] = None
    <3>1. talk' = TalkClaimed(talk, d, k)
      BY <1>4, <2>1 DEF StartTalk, TalkClaimed
    <3> QED
      BY <1>t, <3>1, ClaimKeepsPublishers DEF SamePublishers
  <2>2. CASE sessions[k] # None
    <3>1. PICK e \in Cameras : e = sessions[k]
      BY <1>t, <2>2 DEF SessionMap
    <3> DEFINE t1 == TalkReleased(talk, e, k)
    <3>2. talk' = TalkClaimed(t1, d, k)
      BY <1>4, <2>2, <3>1 DEF StartTalk, TalkClaimed
    <3>3. Records(t1) /\ \A x \in Cameras : t1[x].rtmp = talk[x].rtmp
      BY <1>t, ReleaseKeepsPublishers
    <3> HIDE DEF t1
    <3>4. \A x \in Cameras : TalkClaimed(t1, d, k)[x].rtmp = t1[x].rtmp
      BY <3>3, ClaimKeepsPublishers
    <3> QED
      BY <3>2, <3>3, <3>4 DEF SamePublishers
  <2> QED
    BY <2>1, <2>2
<1> QED
  BY <1>1, <1>2, <1>3, <1>4 DEF Gateway, Connect, Ghost, StopTalk, Disconnect

LEMMA TimersKeepPublishers ==
  ASSUME Together, Timers
  PROVE  SamePublishers
<1>s. \A d \in Cameras : Sound(talk[d])
  BY DEF Together, AllSound
<1>1. ASSUME NEW d \in Cameras, PacketsStop(d)  PROVE SamePublishers
  <2> DEFINE e == [talk[d] EXCEPT !.idle = "stale"]
  <2>1. talk' = [talk EXCEPT ![d] = e]
    BY <1>1 DEF PacketsStop, IdlePasses, Handle
  <2>2. e.rtmp = talk[d].rtmp
    BY <1>s DEF Sound, Settled, CameraTalk
  <2> HIDE DEF e
  <2> QED
    BY <2>1, <2>2, OneKeepsPublishers
<1>2. ASSUME NEW d \in Cameras, BrowserTimesOut(d)  PROVE SamePublishers
  <2>1. talk' = [talk EXCEPT ![d] = IdledOut(talk[d])]
    BY <1>2 DEF BrowserTimesOut, IdleFires, Handle
  <2>2. IdledOut(talk[d]).rtmp = talk[d].rtmp
    BY <1>s, IdledOutSound
  <2> QED
    BY <2>1, <2>2, OneKeepsPublishers
<1>3. ASSUME NEW d \in Cameras, GraceEnds(d)  PROVE SamePublishers
  <2>1. talk[d].offTimer /\ talk' = [talk EXCEPT ![d] = GraceOver(talk[d])]
    BY <1>3 DEF GraceEnds, GraceFires, Handle
  <2>2. GraceOver(talk[d]).rtmp = talk[d].rtmp
    BY <1>s, <2>1, GraceOverSound
  <2> QED
    BY <2>1, <2>2, OneKeepsPublishers
<1>4. ASSUME NEW d \in Cameras, MqttTurns(d)  PROVE SamePublishers
  BY <1>4 DEF MqttTurns, MqttChanges, SamePublishers
<1> QED
  BY <1>1, <1>2, <1>3, <1>4 DEF Timers

(***************************************************************************)
(* What a step does to the pairs of a name's owned cameras and its relay:  *)
(* nothing; the end of the name's relay, with the release of its camera;   *)
(* or a new relay, with the claim of its camera.                           *)
(***************************************************************************)
DidStays(n) ==
  relay'[n] = relay[n] /\ (relay[n] # 0 => proc'[relay[n]].did = proc[relay[n]].did)

Keeps == SamePublishers /\ \A n \in Names : DidStays(n)

Stops(n) ==
  /\ relay[n] # 0 /\ relay'[n] = 0
  /\ \A m \in Names : m # n => DidStays(m)
  /\ \A x \in Cameras :
       talk'[x].rtmp = IF x = proc[relay[n]].did THEN talk[x].rtmp \ {n} ELSE talk[x].rtmp

Starts(n, d) ==
  /\ relay'[n] # 0 /\ proc'[relay'[n]].did = d
  /\ \A m \in Names : m # n => DidStays(m)
  /\ \A x \in Cameras :
       talk'[x].rtmp = IF x = d THEN talk[x].rtmp \union {n} ELSE talk[x].rtmp

PublisherStep ==
  \/ Keeps
  \/ \E n \in Names : Stops(n) \/ \E d \in Match[n] : Starts(n, d)

LEMMA StopRelayPublishers ==
  ASSUME Composed, NEW n \in Names, NEW p, DOMAIN p = Relays,
         \A m \in Names : m # n /\ relay[m] # 0 => p[relay[m]] = proc[relay[m]],
         StopRelay(n, p)
  PROVE  PublisherStep
<1>t. /\ relay \in [Names -> Relays \union {0}]
      /\ \A m \in Names : relay[m] # 0 => Started(proc[relay[m]])
      /\ talk \in [Cameras -> CameraTalk] /\ \A d \in Cameras : Sound(talk[d])
  BY DEF Composed, RelaysGood, KeptGood, Together, AllSound
<1>1. CASE relay[n] = 0
  <2>1. talk' = talk /\ relay' = relay /\ proc' = p
    BY <1>1 DEF StopRelay
  <2>2. \A m \in Names : relay[m] # 0 => proc'[relay[m]].did = proc[relay[m]].did
    BY <1>1, <2>1
  <2> QED
    BY <2>1, <2>2 DEF PublisherStep, Keeps, DidStays, SamePublishers
<1>2. CASE relay[n] # 0
  <2>1. PICK d \in Cameras : d = proc[relay[n]].did
    BY <1>2, <1>t, TalkbackAssumption DEF Started
  <2> DEFINE e == RtmpReleased(talk[d], n)
  <2>2. /\ talk' = [talk EXCEPT ![d] = e] /\ relay' = [relay EXCEPT ![n] = 0]
        /\ proc' = Ended(p, relay[n])
    BY <1>2, <2>1 DEF StopRelay
  <2>3. e.rtmp = talk[d].rtmp \ {n}
    BY <1>t, ReleaseRtmpSound
  <2> HIDE DEF e
  <2>4. \A x \in Cameras : talk'[x].rtmp = IF x = d THEN talk[x].rtmp \ {n} ELSE talk[x].rtmp
    BY <1>t, <2>2, <2>3
  <2>5. relay'[n] = 0 /\ \A m \in Names : m # n => relay'[m] = relay[m]
    BY <1>t, <2>2
  <2>6. ASSUME NEW m \in Names, m # n, relay[m] # 0
        PROVE  proc'[relay[m]].did = proc[relay[m]].did
    <3>1. p[relay[m]] = proc[relay[m]] /\ relay[m] \in Relays
      BY <1>t, <2>6
    <3>2. Started(p[relay[m]])
      BY <1>t, <2>6, <3>1, Zenon
    <3> QED
      BY <2>2, <3>1, <3>2, EndedGood
  <2>7. Stops(n)
    BY <1>2, <2>1, <2>4, <2>5, <2>6 DEF Stops, DidStays
  <2> QED
    BY <2>7 DEF PublisherStep
<1> QED
  BY <1>1, <1>2

LEMMA ResolveCameraPublishers ==
  ASSUME Composed, NEW n \in Names, NEW d \in Cameras,
         ResolveCamera(n, d)
  PROVE  PublisherStep
<1>t. /\ relay \in [Names -> Relays \union {0}]
      /\ \A m \in Names : relay[m] # 0 => Started(proc[relay[m]]) /\ proc[relay[m]].name = m
      /\ talk \in [Cameras -> CameraTalk] /\ \A x \in Cameras : Sound(talk[x])
      /\ DOMAIN proc = Relays
  BY DEF Composed, RelaysGood, ProcsGood, KeptGood, Together, AllSound
<1>1. PICK r \in Relays, ph \in {"live", "dud"} :
        /\ Free(r)
        /\ proc' = [Ended(proc, relay[n]) EXCEPT
                      ![r] = [phase |-> ph, name |-> n, did |-> d]]
        /\ relay' = [relay EXCEPT ![n] = r]
  BY DEF ResolveCamera, StartRelay
<1> DEFINE e == RtmpClaimed(talk[d], n)
           new == [phase |-> ph, name |-> n, did |-> d]
<1>2. talk' = [talk EXCEPT ![d] = e] /\ d \in Match[n]
  BY DEF ResolveCamera
<1>3. e.rtmp = talk[d].rtmp \union {n}
  BY <1>t, ClaimRtmpSound
<1>4. new.did = d
  OBVIOUS
<1> HIDE DEF e, new
<1>5. \A x \in Cameras :
        talk'[x].rtmp = IF x = d THEN talk[x].rtmp \union {n} ELSE talk[x].rtmp
  BY <1>t, <1>2, <1>3
<1>6. /\ relay'[n] = r /\ r # 0 /\ r \in Relays
      /\ \A m \in Names : m # n => relay'[m] = relay[m]
  BY <1>t, <1>1 DEF Relays
<1>e. /\ DOMAIN Ended(proc, relay[n]) = Relays
      /\ \A q \in Relays : Started(proc[q]) => Ended(proc, relay[n])[q].did = proc[q].did
  BY <1>t, EndedGood
<1>7. proc'[r].did = d
  BY <1>1, <1>4, <1>e
<1>8. ASSUME NEW m \in Names, relay[m] # 0
      PROVE  proc'[relay[m]].did = proc[relay[m]].did
  <2>1. relay[m] \in Relays /\ Started(proc[relay[m]])
    BY <1>8, <1>t
  <2>2. relay[m] # r
    BY <1>1 DEF Free
  <2>3. proc'[relay[m]] = Ended(proc, relay[n])[relay[m]]
    BY <1>1, <1>e, <2>1, <2>2
  <2> QED
    BY <1>e, <2>1, <2>3
<1>9. Starts(n, d)
  BY <1>5, <1>6, <1>7, <1>8 DEF Starts, DidStays
<1> QED
  BY <1>2, <1>9 DEF PublisherStep

LEMMA IngestPublishers ==
  ASSUME Composed, Ingest
  PROVE  PublisherStep
<1>t. /\ relay \in [Names -> Relays \union {0}]
      /\ \A m \in Names : relay[m] # 0 => Started(proc[relay[m]]) /\ proc[relay[m]].name = m
      /\ DOMAIN proc = Relays
      /\ \A q \in Relays : proc[q] = NoProc \/ Started(proc[q])
  BY DEF Composed, RelaysGood, ProcsGood, KeptGood
<1>1. ASSUME UNCHANGED <<talk, relay, proc>>  PROVE PublisherStep
  BY <1>1 DEF PublisherStep, Keeps, DidStays, SamePublishers
<1>2. ASSUME NEW x \in Conns, NEW n \in Names, Publish(x, n)  PROVE PublisherStep
  BY <1>1, <1>2 DEF Publish
<1>3. ASSUME NEW n \in Names, ResolveNothing(n)  PROVE PublisherStep
  BY <1>1, <1>3 DEF ResolveNothing
<1>4. ASSUME NEW r \in Relays, Exit(r)  PROVE PublisherStep
  <2>1. talk' = talk /\ relay' = relay /\ proc' = [proc EXCEPT ![r].phase = "exited"]
    BY <1>4 DEF Exit
  <2>2. ASSUME NEW n \in Names, relay[n] # 0
        PROVE  proc'[relay[n]].did = proc[relay[n]].did
    <3>1. relay[n] \in Relays
      BY <1>t, <2>2
    <3>2. CASE relay[n] = r
      <4>1. proc'[r] = [proc[r] EXCEPT !.phase = "exited"]
        BY <1>t, <2>1
      <4>2. [proc[r] EXCEPT !.phase = "exited"].did = proc[r].did
        BY <1>t, <2>2, <3>2 DEF Started
      <4> QED
        BY <3>2, <4>1, <4>2
    <3>3. CASE relay[n] # r
      BY <1>t, <2>1, <3>1, <3>3
    <3> QED
      BY <3>2, <3>3
  <2> QED
    BY <2>1, <2>2 DEF PublisherStep, Keeps, DidStays, SamePublishers
<1>5. ASSUME NEW r \in Relays, Drain(r)  PROVE PublisherStep
  <2> DEFINE p == [proc EXCEPT ![r] = NoProc]
  <2>1. proc[r].name \in Names /\ StopRelay(proc[r].name, p)
    BY <1>5, DrainKeeps DEF Drain, Composed
  <2>2. DOMAIN p = Relays /\ \A q : q # r => p[q] = proc[q]
    BY <1>t
  <2> HIDE DEF p
  <2>3. \A m \in Names : m # proc[r].name /\ relay[m] # 0 => p[relay[m]] = proc[relay[m]]
    BY <1>t, <2>2
  <2> QED
    BY <2>1, <2>2, <2>3, StopRelayPublishers
<1>6. ASSUME NEW x \in Conns, Unpublish(x)  PROVE PublisherStep
  <2>1. PICK n \in Names : n = conn[x]
    BY <1>6 DEF Unpublish, Composed, RestTyped
  <2>2. CASE relay[n] # 0 /\ Writable(relay[n])
    <3>1. talk' = talk /\ relay' = relay /\ proc' = Ended(proc, relay[n])
      BY <1>6, <2>1, <2>2 DEF Unpublish
    <3>2. \A m \in Names : relay[m] # 0 => proc'[relay[m]].did = proc[relay[m]].did
      BY <1>t, <3>1, EndedGood
    <3> QED
      BY <3>1, <3>2 DEF PublisherStep, Keeps, DidStays, SamePublishers
  <2>3. CASE ~(relay[n] # 0 /\ Writable(relay[n]))
    <3>1. StopRelay(n, proc)
      BY <1>6, <2>1, <2>3 DEF Unpublish
    <3> QED
      BY <1>t, <3>1, StopRelayPublishers
  <2> QED
    BY <2>2, <2>3
<1> QED
  BY <1>2, <1>3, <1>4, <1>5, <1>6, ResolveCameraPublishers DEF Ingest

LEMMA NextPublishers ==
  ASSUME Composed, [Next]_vars
  PROVE  PublisherStep
<1>1. CASE Gateway
  <2>1. UNCHANGED <<relay, proc>>
    BY <1>1 DEF Gateway, Connect, StartTalk, StopTalk, Audio, Ghost, Disconnect, rtmpVars
  <2> QED
    BY <1>1, <2>1, GatewayKeepsPublishers
    DEF Composed, PublisherStep, Keeps, DidStays
<1>2. CASE Timers
  <2>1. UNCHANGED <<relay, proc>>
    BY <1>2 DEF Timers, PacketsStop, BrowserTimesOut, GraceEnds, MqttTurns, rtmpVars
  <2> QED
    BY <1>2, <2>1, TimersKeepPublishers
    DEF Composed, PublisherStep, Keeps, DidStays
<1>3. CASE Ingest
  BY <1>3, IngestPublishers
<1>4. CASE UNCHANGED vars
  BY <1>4 DEF PublisherStep, Keeps, DidStays, SamePublishers, vars
<1> QED
  BY <1>1, <1>2, <1>3, <1>4 DEF Next

(* A kept relay has the floor of its camera: the half of RelaysOwn that    *)
(* needs nothing of the look-up.                                           *)
RelaysOwnTheirs ==
  \A n \in Names, d \in Cameras :
    relay[n] # 0 /\ proc[relay[n]].did = d => n \in talk[d].rtmp

LEMMA RelaysOwnTheirsNext ==
  ASSUME RelaysOwnTheirs, PublisherStep
  PROVE  RelaysOwnTheirs'
<1> SUFFICES ASSUME NEW m \in Names, NEW x \in Cameras,
                    relay'[m] # 0, proc'[relay'[m]].did = x
             PROVE  m \in talk'[x].rtmp
  BY DEF RelaysOwnTheirs
<1>1. ASSUME DidStays(m)  PROVE m \in talk[x].rtmp
  BY <1>1 DEF DidStays, RelaysOwnTheirs
<1>2. CASE Keeps
  BY <1>1, <1>2 DEF Keeps, SamePublishers
<1>3. ASSUME NEW n \in Names, Stops(n)  PROVE m \in talk'[x].rtmp
  BY <1>1, <1>3 DEF Stops
<1>4. ASSUME NEW n \in Names, NEW d \in Match[n], Starts(n, d)  PROVE m \in talk'[x].rtmp
  BY <1>1, <1>4 DEF Starts
<1> QED
  BY <1>2, <1>3, <1>4 DEF PublisherStep

(* The look-up of a name returns the camera it returned before.            *)
OneCamera == \A n \in Names : \A c, d \in Match[n] : c = d

(* Then no claim leaves another camera of the name behind.                 *)
LEMMA RelaysOwnNext ==
  ASSUME Composed, RelaysOwn, OneCamera, PublisherStep
  PROVE  RelaysOwn'
<1> SUFFICES ASSUME NEW m \in Names, NEW x \in Cameras
             PROVE  m \in talk'[x].rtmp <=> relay'[m] # 0 /\ proc'[relay'[m]].did = x
  BY DEF RelaysOwn
<1>0. m \in talk[x].rtmp <=> relay[m] # 0 /\ proc[relay[m]].did = x
  BY DEF RelaysOwn
<1>1. CASE Keeps
  BY <1>0, <1>1 DEF Keeps, SamePublishers, DidStays
<1>2. ASSUME NEW n \in Names, Stops(n)
      PROVE  m \in talk'[x].rtmp <=> relay'[m] # 0 /\ proc'[relay'[m]].did = x
  <2>1. CASE m = n
    BY <1>0, <1>2, <2>1 DEF Stops
  <2>2. CASE m # n
    BY <1>0, <1>2, <2>2 DEF Stops, DidStays
  <2> QED
    BY <2>1, <2>2
<1>3. ASSUME NEW n \in Names, NEW d \in Match[n], Starts(n, d)
      PROVE  m \in talk'[x].rtmp <=> relay'[m] # 0 /\ proc'[relay'[m]].did = x
  <2>1. CASE m # n
    BY <1>0, <1>3, <2>1 DEF Starts, DidStays
  <2>2. CASE m = n /\ x = d
    BY <1>3, <2>2 DEF Starts
  <2>3. CASE m = n /\ x # d
    <3>1. relay[m] # 0 => proc[relay[m]].did \in Match[n]
      BY <2>3 DEF Composed, RelaysGood, KeptGood, Started
    <3>2. m \notin talk[x].rtmp
      BY <1>0, <2>3, <3>1 DEF OneCamera
    <3> QED
      BY <1>3, <2>3, <3>2 DEF Starts
  <2> QED
    BY <2>1, <2>2, <2>3
<1> QED
  BY <1>1, <1>2, <1>3 DEF PublisherStep


LEMMA PendingNext ==
  ASSUME Composed, PendingAudioTaken, [Next]_vars
  PROVE  PendingAudioTaken'
<1>0. /\ resolving \in [Names -> 0..MaxResolving] /\ MaxResolving \in Nat
      /\ pending \in SUBSET Names
  BY TalkbackAssumption DEF Composed, RestTyped
<1>1. ASSUME UNCHANGED <<resolving, pending>>
      PROVE  PendingAudioTaken'
  BY <1>1 DEF PendingAudioTaken
<1>2. ASSUME NEW n \in Names, resolving' = [resolving EXCEPT ![n] = @ + 1],
             pending' = pending \union {n}
      PROVE  PendingAudioTaken'
  BY <1>0, <1>2 DEF PendingAudioTaken
<1>3. ASSUME NEW n \in Names, resolving' = [resolving EXCEPT ![n] = @ - 1],
             pending' = pending \ {n}
      PROVE  PendingAudioTaken'
  BY <1>0, <1>3 DEF PendingAudioTaken
<1>4. ASSUME NEW n, UNCHANGED resolving, pending' = pending \ {n}
      PROVE  PendingAudioTaken'
  BY <1>4 DEF PendingAudioTaken
<1>5. CASE Gateway
  BY <1>1, <1>5
  DEF Gateway, Connect, StartTalk, StopTalk, Audio, Ghost, Disconnect, rtmpVars
<1>6. CASE Timers
  BY <1>1, <1>6 DEF Timers, PacketsStop, BrowserTimesOut, GraceEnds, MqttTurns, rtmpVars
<1>7. CASE Ingest
  <2>1. ASSUME NEW x \in Conns, NEW n \in Names, Publish(x, n)  PROVE PendingAudioTaken'
    BY <1>2, <2>1 DEF Publish
  <2>2. ASSUME NEW x \in Conns, Unpublish(x)  PROVE PendingAudioTaken'
    BY <1>4, <2>2 DEF Unpublish
  <2>3. ASSUME NEW n \in Names, ResolveNothing(n)  PROVE PendingAudioTaken'
    BY <1>3, <2>3 DEF ResolveNothing
  <2>4. ASSUME NEW n \in Names, NEW d \in Cameras, ResolveCamera(n, d)  PROVE PendingAudioTaken'
    BY <1>3, <2>4 DEF ResolveCamera
  <2>5. ASSUME NEW r \in Relays, Exit(r) \/ Drain(r)  PROVE PendingAudioTaken'
    BY <1>1, <2>5 DEF Exit, Drain
  <2> QED
    BY <1>7, <2>1, <2>2, <2>3, <2>4, <2>5 DEF Ingest
<1> QED
  BY <1>1, <1>5, <1>6, <1>7 DEF Next, vars

-----------------------------------------------------------------------------

(***************************************************************************)
(* The theorems of the composition.                                        *)
(***************************************************************************)

(* The types of Talkback hold.                                             *)
THEOREM CompositionTypeCorrect == Spec => []TypeOK
<1>1. Composed => TypeOK
  BY DEF Composed, Together, AllSound, SessionsTyped, SessionMap, RelaysGood, KeptGood,
         RestTyped, Processes, TypeOK, SessionTypeOK
<1> QED
  BY <1>1, AlwaysComposed, PTL

(* Whatever the order of tabs that start, stop, move to another camera or  *)
(* vanish, of publishers and of timers, the gateway's sessions and the     *)
(* service's browser owners are one relation.                              *)
THEOREM SessionsAreOwners == Spec => []SessionsOwn
<1>1. Composed => SessionsOwn
  BY DEF Composed, Together
<1> QED
  BY <1>1, AlwaysComposed, PTL

(* A relay kept under a name has the floor of the camera it was started    *)
(* for, whatever the look-up of the name returns from one time to the next.*)
THEOREM RelaysHaveTheFloor == Spec => []RelaysOwnTheirs
<1>1. Init => RelaysOwnTheirs
  BY DEF Init, RelaysOwnTheirs
<1>2. Composed /\ RelaysOwnTheirs /\ [Next]_vars => RelaysOwnTheirs'
  BY NextPublishers, RelaysOwnTheirsNext
<1> QED
  BY <1>1, <1>2, AlwaysComposed, PTL DEF Spec

(* When a name stays with its camera, a name owns a camera exactly while a *)
(* relay is kept under it.                                                 *)
THEOREM OwnersHaveRelays ==
  ASSUME OneCamera
  PROVE  Spec => []RelaysOwn
<1>1. Init => RelaysOwn
  BY DEF Init, SessionInit, NoTalk, RelaysOwn
<1>2. Composed /\ RelaysOwn /\ [Next]_vars => RelaysOwn'
  BY NextPublishers, RelaysOwnNext
<1> QED
  BY <1>1, <1>2, AlwaysComposed, PTL DEF Spec

(* Audio is buffered for a publisher only while a publish handler of its   *)
(* name is still to resume.                                                *)
THEOREM AudioIsTaken == Spec => []PendingAudioTaken
<1>1. Init => PendingAudioTaken
  BY DEF Init, PendingAudioTaken
<1>2. Composed /\ PendingAudioTaken /\ [Next]_vars => PendingAudioTaken'
  BY PendingNext
<1> QED
  BY <1>1, <1>2, AlwaysComposed, PTL DEF Spec

(* The service inside the composition, where one handler may make two      *)
(* calls: the speaker and the browser are watched as in the service alone. *)
THEOREM ComposedTalkIsWatched == Spec => [](SpeakerWatched /\ BrowserWatched)
<1>1. Composed => SpeakerWatched /\ BrowserWatched
  BY DEF Composed, Together, AllSound, Sound, Settled, SpeakerWatched, BrowserWatched
<1> QED
  BY <1>1, AlwaysComposed, PTL

(* The holder is never out of date and at most one browser owns a camera.  *)
THEOREM ComposedTalkIsCurrent == Spec => [](HolderCurrent /\ OneBrowser)
<1>1. Composed => HolderCurrent /\ OneBrowser
  BY DEF Composed, Together, AllSound, Sound, Settled, HolderCurrent, OneBrowser
<1> QED
  BY <1>1, AlwaysComposed, PTL

LEMMA NextTalkMoves ==
  ASSUME Composed, [Next]_vars
  PROVE  AllSound /\ AllSound' /\ TalkMoves
BY NextComposes DEF Composes, Composed, Together

(* A browser never takes a camera from anybody, also when it comes from    *)
(* another camera in the same handler.                                     *)
THEOREM ComposedWebYields == Spec => WebNeverTakes
<1>1. Composed /\ [Next]_vars =>
        [\A d \in Cameras : talk'[d].web \ talk[d].web # {}
            => talk[d].web = {} /\ talk[d].rtmp = {}]_sessionVars
  BY NextTalkMoves DEF TalkMoves
<1> QED
  BY <1>1, AlwaysComposed, PTL DEF Spec, WebNeverTakes

(* The speaker goes off only while nobody holds the floor.                 *)
THEOREM ComposedNeverClicks == Spec => NoClick
<1> DEFINE A == \A d \in Cameras :
                  talk[d].speakerOn /\ ~talk'[d].speakerOn =>
                    \/ talk[d].holder = "none" /\ talk'[d].holder = "none"
                    \/ \A e \in Cameras : talk'[e] = NoTalk
<1>1. Composed /\ [Next]_vars => A
  BY NextTalkMoves, MovesNeverClick DEF TalkMoves
<1> QED
  BY <1>1, AlwaysComposed, PTL DEF Spec, NoClick

(* The gateway, the ingest and the service together implement TalkFloor:   *)
(* a browser that moves between cameras is one step of the floor.          *)
THEOREM CompositionImplementsFloor == Spec => ImplementsFloor
<1>1. Init => Floor!Init
  BY DEF Init, SessionInit, Floor!Init, NoTalk
<1>2. Composed /\ [Next]_vars => [Floor!Next]_(Floor!floorVars)
  BY NextTalkMoves, MovesAreFloor DEF TalkMoves
<1> QED
  BY <1>1, <1>2, AlwaysComposed, PTL DEF Spec, ImplementsFloor, Floor!Spec
===============================================================================
