---------------------------- MODULE ViewersProofs ----------------------------
(***************************************************************************)
(* Proofs about Viewers for any number of attempts, losses and deaths of   *)
(* the engine: the state is well typed, what streams or stands in the      *)
(* engine belongs to a session of the server (Owned), and a session that   *)
(* no page watches is about to be stopped by one (LetsGo).                 *)
(*                                                                         *)
(* A peer is made by a start that the engine reads, so what must be known  *)
(* is about the starts on the way: one that is written has a session, or   *)
(* was overtaken, or has its stop written behind it (Follows); one that    *)
(* still waits for the engine to be ready has a session, or was overtaken  *)
(* (Has).  A stop that finds no process is lost, but then nothing is on    *)
(* the way and no peer stands (Alive).                                     *)
(*                                                                         *)
(* LetsGo is about the hand-over of a session's id from the server to the  *)
(* page: for each attempt, Sure says where its post, its answer and its    *)
(* session are, from the run of the effect to the delete (Handed).         *)
(***************************************************************************)
EXTENDS Viewers, TLAPS, SequenceTheorems

Has(s, c) == \E i \in 1..Len(s) : s[i] = c

Follows(s, ok) ==
  \A a \in Attempts : \A i \in 1..Len(s) :
    s[i] = Start(a) => a \in ok \/ \E j \in 1..Len(s) : j > i /\ s[j] = StopIt(a)

Excused == sessions \cup overtaken

PendingOwned == \A a \in Attempts : Has(pending, Start(a)) => a \in Excused

PeersOwned ==
  \A a \in Attempts : peer[a] # "none" => a \in Excused \/ Has(stdin, StopIt(a))

Alive ==
  /\ ~process => child = "none" /\ stdin = <<>> /\ ~isReady
  /\ \A a \in Attempts : peer[a] # "none" => child = "serving"

Quiet == ~process => out = <<>>

OwnInv ==
  /\ ffmpeg \subseteq sessions /\ Follows(stdin, Excused)
  /\ PendingOwned /\ PeersOwned /\ Alive

Inv == TypeOK /\ OwnInv /\ Quiet

(* Before the player was opened first, no attempt has a timer.             *)
Begun == viewerKey = 0 => ~isOpen /\ ~retry /\ ~media /\ strays = {}

(***************************************************************************)
(* Commands on their way.                                                  *)
(***************************************************************************)
LEMMA CommandFacts ==
  ASSUME NEW a \in Attempts
  PROVE  /\ Start(a) \in Commands /\ StopIt(a) \in Commands
         /\ \A b \in Attempts :
              /\ Start(a) # StopIt(b)
              /\ Start(a) = Start(b) => a = b
              /\ StopIt(a) = StopIt(b) => a = b
BY DEF Start, StopIt, Commands

LEMMA Appended ==
  ASSUME NEW s \in Seq(Commands), NEW c \in Commands
  PROVE  /\ Append(s, c) \in Seq(Commands) /\ Len(s) \in Nat
         /\ Len(Append(s, c)) = Len(s) + 1
         /\ Append(s, c)[Len(s) + 1] = c
         /\ \A i \in 1..Len(s) : Append(s, c)[i] = s[i]
BY AppendProperties, LenProperties

LEMMA AppendHas ==
  ASSUME NEW s \in Seq(Commands), NEW c \in Commands, NEW d
  PROVE  Has(Append(s, c), d) <=> Has(s, d) \/ c = d
<1> DEFINE t == Append(s, c)
<1>1. /\ Len(s) \in Nat /\ Len(t) = Len(s) + 1 /\ t[Len(s) + 1] = c
      /\ \A i \in 1..Len(s) : t[i] = s[i]
  BY Appended
<1> HIDE DEF t
<1>2. Has(t, d) <=> Has(s, d) \/ c = d
  BY <1>1 DEF Has
<1> QED
  BY <1>2 DEF t

(* A start that is written has a session.                                  *)
LEMMA AppendFollows ==
  ASSUME NEW s \in Seq(Commands), NEW c \in Commands, NEW ok, Follows(s, ok),
         \A a \in Attempts : c = Start(a) => a \in ok
  PROVE  Follows(Append(s, c), ok)
<1> DEFINE t == Append(s, c)
<1>1. /\ Len(s) \in Nat /\ Len(t) = Len(s) + 1 /\ t[Len(s) + 1] = c
      /\ \A i \in 1..Len(s) : t[i] = s[i]
  BY Appended
<1> HIDE DEF t
<1>2. Follows(t, ok)
  <2> SUFFICES ASSUME NEW a \in Attempts, NEW i \in 1..Len(t), t[i] = Start(a)
               PROVE  a \in ok \/ \E j \in 1..Len(t) : j > i /\ t[j] = StopIt(a)
    BY DEF Follows
  <2>1. CASE i \in 1..Len(s)
    <3>1. a \in ok \/ \E j \in 1..Len(s) : j > i /\ s[j] = StopIt(a)
      BY <1>1, <2>1 DEF Follows
    <3> QED
      BY <3>1, <1>1
  <2>2. CASE i = Len(s) + 1
    BY <1>1, <2>2
  <2> QED
    BY <2>1, <2>2, <1>1
<1> QED
  BY <1>2 DEF t

(* A stop that is written lets its session go.                             *)
LEMMA AppendStopFollows ==
  ASSUME NEW s \in Seq(Commands), NEW b \in Attempts, NEW ok, Follows(s, ok)
  PROVE  Follows(Append(s, StopIt(b)), ok \ {b})
<1> DEFINE t == Append(s, StopIt(b))
<1>1. /\ Len(s) \in Nat /\ Len(t) = Len(s) + 1 /\ t[Len(s) + 1] = StopIt(b)
      /\ \A i \in 1..Len(s) : t[i] = s[i]
  BY Appended, CommandFacts
<1> HIDE DEF t
<1>2. Follows(t, ok \ {b})
  <2> SUFFICES ASSUME NEW a \in Attempts, NEW i \in 1..Len(t), t[i] = Start(a)
               PROVE  a \in ok \ {b} \/ \E j \in 1..Len(t) : j > i /\ t[j] = StopIt(a)
    BY DEF Follows
  <2>1. i \in 1..Len(s)
    BY <1>1, CommandFacts
  <2>2. CASE a = b
    BY <1>1, <2>1, <2>2
  <2>3. CASE a # b
    <3>1. a \in ok \/ \E j \in 1..Len(s) : j > i /\ s[j] = StopIt(a)
      BY <1>1, <2>1 DEF Follows
    <3> QED
      BY <3>1, <2>3, <1>1
  <2> QED
    BY <2>2, <2>3
<1> QED
  BY <1>2 DEF t

LEMMA Tailed ==
  ASSUME NEW s \in Seq(Commands), s # <<>>
  PROVE  /\ Tail(s) \in Seq(Commands) /\ Len(Tail(s)) \in Nat
         /\ Len(s) = Len(Tail(s)) + 1 /\ s[1] = Head(s)
         /\ \A i \in 1..Len(Tail(s)) : Tail(s)[i] = s[i + 1]
<1>1. /\ Tail(s) \in Seq(Commands) /\ Len(Tail(s)) = Len(s) - 1
      /\ \A i \in 1..Len(Tail(s)) : Tail(s)[i] = s[i + 1]
  BY HeadTailProperties
<1>2. Len(s) \in Nat \ {0} /\ Head(s) = s[1]
  BY EmptySeq
<1> QED
  BY <1>1, <1>2

LEMMA TailHas ==
  ASSUME NEW s \in Seq(Commands), s # <<>>, NEW c
  PROVE  Has(s, c) <=> Head(s) = c \/ Has(Tail(s), c)
<1> DEFINE t == Tail(s)
<1>1. /\ Len(t) \in Nat /\ Len(s) = Len(t) + 1 /\ s[1] = Head(s)
      /\ \A i \in 1..Len(t) : t[i] = s[i + 1]
  BY Tailed
<1> HIDE DEF t
<1>2. ASSUME Has(s, c)  PROVE Head(s) = c \/ Has(t, c)
  <2>1. PICK i \in 1..Len(s) : s[i] = c
    BY <1>2 DEF Has
  <2>2. CASE i = 1
    BY <2>1, <2>2, <1>1
  <2>3. CASE i # 1
    <3>1. i - 1 \in 1..Len(t) /\ t[i - 1] = c
      BY <2>1, <2>3, <1>1
    <3> QED
      BY <3>1 DEF Has
  <2> QED
    BY <2>2, <2>3
<1>3. ASSUME Head(s) = c \/ Has(t, c)  PROVE Has(s, c)
  <2>1. CASE Head(s) = c
    BY <2>1, <1>1 DEF Has
  <2>2. CASE Has(t, c)
    <3>1. PICK i \in 1..Len(t) : t[i] = c
      BY <2>2 DEF Has
    <3>2. i + 1 \in 1..Len(s) /\ s[i + 1] = c
      BY <3>1, <1>1
    <3> QED
      BY <3>2 DEF Has
  <2> QED
    BY <1>3, <2>1, <2>2
<1> QED
  BY <1>2, <1>3 DEF t

(* The oldest command is read: a start that is has a session, or its stop  *)
(* is still to be read.                                                    *)
LEMMA TailFollows ==
  ASSUME NEW s \in Seq(Commands), s # <<>>, NEW ok, Follows(s, ok)
  PROVE  /\ Follows(Tail(s), ok)
         /\ \A a \in Attempts : Head(s) = Start(a) => a \in ok \/ Has(Tail(s), StopIt(a))
<1> DEFINE t == Tail(s)
<1>1. /\ Len(t) \in Nat /\ Len(s) = Len(t) + 1 /\ s[1] = Head(s)
      /\ \A i \in 1..Len(t) : t[i] = s[i + 1]
  BY Tailed
<1> HIDE DEF t
<1>2. ASSUME NEW a \in Attempts, NEW i \in 0..Len(t), s[i + 1] = Start(a), a \notin ok
      PROVE  \E j \in 1..Len(t) : j > i /\ t[j] = StopIt(a)
  <2>1. PICK j \in 1..Len(s) : j > i + 1 /\ s[j] = StopIt(a)
    BY <1>2, <1>1 DEF Follows
  <2>2. j - 1 \in 1..Len(t) /\ j - 1 > i /\ t[j - 1] = StopIt(a)
    BY <2>1, <1>1
  <2> QED
    BY <2>2
<1>3. Follows(t, ok)
  <2> SUFFICES ASSUME NEW a \in Attempts, NEW i \in 1..Len(t), t[i] = Start(a), a \notin ok
               PROVE  \E j \in 1..Len(t) : j > i /\ t[j] = StopIt(a)
    BY DEF Follows
  <2>1. i \in 0..Len(t) /\ s[i + 1] = Start(a)
    BY <1>1
  <2> QED
    BY <2>1, <1>2
<1>4. ASSUME NEW a \in Attempts, Head(s) = Start(a), a \notin ok
      PROVE  Has(t, StopIt(a))
  <2>1. 0 \in 0..Len(t) /\ s[0 + 1] = Start(a)
    BY <1>1, <1>4
  <2>2. \E j \in 1..Len(t) : j > 0 /\ t[j] = StopIt(a)
    BY <2>1, <1>2, <1>4
  <2> QED
    BY <2>2 DEF Has
<1> QED
  BY <1>3, <1>4 DEF t

(* The commands that waited are written behind the others.                 *)
LEMMA ConcatFollows ==
  ASSUME NEW s \in Seq(Commands), NEW u \in Seq(Commands), NEW ok, Follows(s, ok),
         \A a \in Attempts : Has(u, Start(a)) => a \in ok
  PROVE  /\ s \o u \in Seq(Commands) /\ Follows(s \o u, ok)
         /\ \A c : Has(s, c) => Has(s \o u, c)
<1> DEFINE t == s \o u
<1>1. /\ t \in Seq(Commands) /\ Len(t) = Len(s) + Len(u) /\ Len(s) \in Nat /\ Len(u) \in Nat
      /\ \A i \in 1..Len(s) : t[i] = s[i]
      /\ \A i \in 1..Len(t) : i \notin 1..Len(s) =>
           i - Len(s) \in 1..Len(u) /\ t[i] = u[i - Len(s)]
  BY ConcatProperties, LenProperties
<1> HIDE DEF t
<1>2. Follows(t, ok)
  <2> SUFFICES ASSUME NEW a \in Attempts, NEW i \in 1..Len(t), t[i] = Start(a)
               PROVE  a \in ok \/ \E j \in 1..Len(t) : j > i /\ t[j] = StopIt(a)
    BY DEF Follows
  <2>1. CASE i \in 1..Len(s)
    <3>1. a \in ok \/ \E j \in 1..Len(s) : j > i /\ s[j] = StopIt(a)
      BY <1>1, <2>1 DEF Follows
    <3> QED
      BY <3>1, <1>1
  <2>2. CASE i \notin 1..Len(s)
    <3>1. i - Len(s) \in 1..Len(u) /\ u[i - Len(s)] = Start(a)
      BY <1>1, <2>2
    <3> QED
      BY <3>1 DEF Has
  <2> QED
    BY <2>1, <2>2
<1>3. \A c : Has(s, c) => Has(t, c)
  BY <1>1 DEF Has
<1> QED
  BY <1>1, <1>2, <1>3 DEF t

LEMMA FollowsMore ==
  ASSUME NEW s, NEW ok, NEW more, Follows(s, ok), ok \subseteq more
  PROVE  Follows(s, more)
BY DEF Follows

LEMMA NothingFollows ==
  ASSUME NEW ok
  PROVE  Follows(<<>>, ok) /\ \A c : ~Has(<<>>, c)
<1>1. 1..Len(<<>>) = {}
  BY EmptySeq
<1> QED
  BY <1>1 DEF Follows, Has

(***************************************************************************)
(* The state's parts.                                                      *)
(***************************************************************************)
PageTyped ==
  /\ isOpen \in BOOLEAN /\ retry \in BOOLEAN /\ media \in BOOLEAN
  /\ viewerKey \in 0..MaxAttempts
  /\ page \in [Attempts -> Phases] /\ strays \subseteq Attempts

NetTyped ==
  /\ wire \subseteq [op : {"post", "delete"}, id : Attempts]
  /\ answers \subseteq [id : Attempts, ok : BOOLEAN]
  /\ lost \subseteq Attempts

ServerTyped ==
  /\ sessions \subseteq Attempts
  /\ create \in [Attempts -> {"no", "waiting", "offered", "done"}]
  /\ ffmpeg \subseteq Attempts /\ overtaken \subseteq Attempts

HandleTyped ==
  /\ process \in BOOLEAN /\ isReady \in BOOLEAN
  /\ pending \in Seq(Commands) /\ stdin \in Seq(Commands)

ChildTyped ==
  /\ out \in Seq(Events)
  /\ child \in {"none", "booting", "serving", "dead"}
  /\ deaths \in 0..MaxDeaths
  /\ peer \in [Attempts -> {"none", "gathering", "answered", "failed"}]

LEMMA Parts ==
  Inv <=> /\ PageTyped /\ NetTyped /\ ServerTyped /\ HandleTyped /\ ChildTyped
          /\ OwnInv /\ Quiet
BY DEF Inv, TypeOK, PageTyped, NetTyped, ServerTyped, HandleTyped, ChildTyped

LEMMA PartsNext ==
  ASSUME PageTyped', NetTyped', ServerTyped', HandleTyped', ChildTyped', OwnInv', Quiet'
  PROVE  Inv'
BY DEF Inv, TypeOK, PageTyped, NetTyped, ServerTyped, HandleTyped, ChildTyped

(* A step of the page, and of what it sends, leaves the rest alone.        *)
LEMMA PageStep ==
  ASSUME Inv, PageTyped', NetTyped', UNCHANGED <<serverVars, pipeVars, peer>>
  PROVE  Inv'
<1>1. UNCHANGED <<sessions, create, ffmpeg, overtaken, process, isReady, pending, child,
                  stdin, out, deaths, peer>>
  BY DEF serverVars, pipeVars
<1>2. ServerTyped' /\ HandleTyped' /\ ChildTyped' /\ Quiet'
  BY <1>1, Parts DEF ServerTyped, HandleTyped, ChildTyped, Quiet
<1>3. Excused' = Excused
  BY <1>1 DEF Excused
<1>4. OwnInv'
  BY <1>1, <1>3, Parts DEF OwnInv, Follows, PendingOwned, PeersOwned, Alive, Has
<1> QED
  BY <1>2, <1>4, PartsNext

LEMMA RetrySet ==
  ASSUME PageTyped, NEW a \in Attempts, SetRetry(a)
  PROVE  retry' \in BOOLEAN /\ strays' \subseteq Attempts
<1>1. retry' \in BOOLEAN
  BY DEF SetRetry, Current
<1>2. strays' \subseteq Attempts
  BY DEF SetRetry, PageTyped
<1> QED
  BY <1>1, <1>2

(* A session that is stopped takes its ffmpeg with it, and its peer by a   *)
(* stop that is written; a start that still waits is overtaken.            *)
LEMMA StopKeeps ==
  ASSUME Inv, NEW a \in Attempts, Stop(a),
         UNCHANGED <<process, isReady, pending, child, peer>>
  PROVE  /\ OwnInv' /\ HandleTyped'
         /\ sessions' \subseteq Attempts /\ ffmpeg' \subseteq Attempts
         /\ overtaken' \subseteq Attempts
<1>t. ServerTyped /\ HandleTyped /\ ChildTyped /\ OwnInv
  BY Parts
<1>1. CASE a \notin sessions
  <2>1. UNCHANGED <<sessions, ffmpeg, overtaken, stdin>>
    BY <1>1 DEF Stop
  <2>2. Excused' = Excused
    BY <2>1 DEF Excused
  <2>3. OwnInv'
    BY <2>1, <2>2, <1>t DEF OwnInv, Follows, PendingOwned, PeersOwned, Alive, Has
  <2> QED
    BY <2>1, <2>3, <1>t DEF HandleTyped, ServerTyped
<1>2. CASE a \in sessions
  <2>1. /\ sessions' = sessions \ {a} /\ ffmpeg' = ffmpeg \ {a}
        /\ overtaken' = IF IsPending(a) THEN overtaken \cup {a} ELSE overtaken
        /\ stdin' = IF process THEN Append(stdin, StopIt(a)) ELSE stdin
    BY <1>2 DEF Stop, SendLine
  <2>2. /\ sessions' \subseteq Attempts /\ ffmpeg' \subseteq Attempts
        /\ overtaken' \subseteq Attempts /\ ffmpeg' \subseteq sessions'
    BY <2>1, <1>t DEF ServerTyped, OwnInv
  <2>3. Excused \ {a} \subseteq Excused' /\ (IsPending(a) => a \in Excused')
    BY <2>1 DEF Excused
  <2>4. PendingOwned'
    <3> SUFFICES ASSUME NEW b \in Attempts, Has(pending, Start(b))  PROVE b \in Excused'
      BY DEF PendingOwned, Has
    <3>1. b \in Excused
      BY <1>t DEF OwnInv, PendingOwned
    <3>2. b = a => IsPending(a)
      BY DEF Has, IsPending
    <3> QED
      BY <3>1, <3>2, <2>3
  <2>5. StopIt(a) \in Commands /\ stdin \in Seq(Commands) /\ Follows(stdin, Excused)
    BY <1>t, CommandFacts DEF HandleTyped, OwnInv
  <2>6. CASE process
    <3>1. stdin' = Append(stdin, StopIt(a))
      BY <2>1, <2>6
    <3>2. stdin' \in Seq(Commands) /\ HandleTyped'
      BY <3>1, <2>5, <1>t, Appended DEF HandleTyped
    <3>3. Follows(stdin', Excused')
      <4>1. Follows(stdin', Excused \ {a})
        BY <3>1, <2>5, AppendStopFollows
      <4> QED
        BY <4>1, <2>3, FollowsMore
    <3>4. \A b \in Attempts : Has(stdin, StopIt(b)) \/ b = a => Has(stdin', StopIt(b))
      BY <3>1, <2>5, AppendHas
    <3>5. PeersOwned'
      <4> SUFFICES ASSUME NEW b \in Attempts, peer[b] # "none"
                   PROVE  b \in Excused' \/ Has(stdin', StopIt(b))
        BY DEF PeersOwned, Has
      <4>1. b \in Excused \/ Has(stdin, StopIt(b))
        BY <1>t DEF OwnInv, PeersOwned
      <4> QED
        BY <4>1, <3>4, <2>3
    <3>6. Alive'
      BY <2>6, <1>t DEF OwnInv, Alive
    <3> QED
      BY <2>2, <2>4, <3>2, <3>3, <3>5, <3>6 DEF OwnInv, Follows
  <2>7. CASE ~process
    <3>1. stdin' = <<>> /\ stdin = <<>> /\ child = "none"
      BY <2>1, <2>7, <1>t DEF OwnInv, Alive
    <3>2. HandleTyped' /\ Alive'
      BY <3>1, <1>t DEF HandleTyped, OwnInv, Alive
    <3>3. Follows(stdin', Excused')
      BY <3>1, NothingFollows
    <3>4. PeersOwned'
      BY <3>1, <1>t DEF OwnInv, Alive, PeersOwned
    <3> QED
      BY <2>2, <2>4, <3>2, <3>3, <3>4 DEF OwnInv, Follows
  <2> QED
    BY <2>6, <2>7
<1> QED
  BY <1>1, <1>2

(***************************************************************************)
(* The page's steps.                                                       *)
(***************************************************************************)
LEMMA Requests ==
  ASSUME NEW a \in Attempts
  PROVE  /\ Post(a) \in [op : {"post", "delete"}, id : Attempts]
         /\ Delete(a) \in [op : {"post", "delete"}, id : Attempts]
         /\ \A ok \in BOOLEAN : Answer(a, ok) \in [id : Attempts, ok : BOOLEAN]
BY DEF Post, Delete, Answer

LEMMA PageParts ==
  ASSUME isOpen' \in BOOLEAN, retry' \in BOOLEAN, media' \in BOOLEAN,
         viewerKey' \in 0..MaxAttempts, page' \in [Attempts -> Phases],
         strays' \subseteq Attempts
  PROVE  PageTyped'
BY DEF PageTyped

(* What a cleanup of the latest attempt leaves is typed.                   *)
LEMMA CleanupTyped ==
  ASSUME PageTyped, viewerKey \in Attempts
  PROVE  /\ CleanedUp \in Phases
         /\ CleanupStops \subseteq [op : {"post", "delete"}, id : Attempts]
<1>1. CleanedUp \in Phases
  BY DEF PageTyped, CleanedUp, Phases
<1>2. CleanupStops \subseteq [op : {"post", "delete"}, id : Attempts]
  BY Requests DEF CleanupStops
<1> QED
  BY <1>1, <1>2

LEMMA NextAttemptTyped ==
  ASSUME PageTyped, NetTyped, NextAttempt, viewerKey \in Attempts, strays' \subseteq Attempts
  PROVE  PageTyped' /\ NetTyped'
<1> USE ViewersAssumption
<1>1. CleanedUp \in Phases /\ CleanupStops \subseteq [op : {"post", "delete"}, id : Attempts]
  BY CleanupTyped
<1>2. viewerKey' = viewerKey + 1 /\ viewerKey < MaxAttempts /\ viewerKey \in 0..MaxAttempts
  BY DEF NextAttempt, PageTyped
<1>3. viewerKey' \in 0..MaxAttempts /\ viewerKey + 1 \in Attempts
  BY <1>2 DEF Attempts
<1>4. page' = [page EXCEPT ![viewerKey] = CleanedUp, ![viewerKey + 1] = "offering"]
  BY DEF NextAttempt
<1>5. page' \in [Attempts -> Phases]
  BY <1>1, <1>3, <1>4 DEF PageTyped, Phases
<1>6. isOpen' \in BOOLEAN /\ retry' \in BOOLEAN /\ media' \in BOOLEAN
  BY DEF NextAttempt, PageTyped
<1>7. NetTyped'
  BY <1>1 DEF NextAttempt, NetTyped
<1> QED
  BY <1>3, <1>5, <1>6, <1>7, PageParts

LEMMA PageKeeps ==
  ASSUME Inv, Begun, Page
  PROVE  Inv'
<1> USE ViewersAssumption
<1>t. /\ PageTyped /\ NetTyped
      /\ isOpen \/ retry \/ media \/ strays # {} => viewerKey \in Attempts
  BY Parts DEF Begun, PageTyped, Attempts
<1>1. ASSUME OpenPlayer  PROVE Inv'
  <2>1. viewerKey' = viewerKey + 1 /\ viewerKey < MaxAttempts /\ viewerKey \in 0..MaxAttempts
    BY <1>1, <1>t DEF OpenPlayer, PageTyped
  <2>2. viewerKey' \in 0..MaxAttempts /\ viewerKey + 1 \in Attempts
    BY <2>1 DEF Attempts
  <2>3. page' \in [Attempts -> Phases]
    BY <1>1, <1>t, <2>2 DEF OpenPlayer, PageTyped, Phases
  <2>4. isOpen' \in BOOLEAN /\ retry' \in BOOLEAN /\ media' \in BOOLEAN
        /\ strays' \subseteq Attempts
    BY <1>1, <1>t DEF OpenPlayer, PageTyped
  <2>5. NetTyped'
    BY <1>1, <1>t DEF OpenPlayer, NetTyped, netVars
  <2> QED
    BY <1>1, <2>2, <2>3, <2>4, <2>5, PageParts, PageStep DEF OpenPlayer
<1>2. ASSUME ClosePlayer  PROVE Inv'
  <2>1. viewerKey \in Attempts
    BY <1>2, <1>t DEF ClosePlayer
  <2>2. CleanedUp \in Phases
        /\ CleanupStops \subseteq [op : {"post", "delete"}, id : Attempts]
    BY <2>1, <1>t, CleanupTyped
  <2>3. page' \in [Attempts -> Phases]
    BY <1>2, <1>t, <2>2 DEF ClosePlayer, PageTyped
  <2>4. isOpen' \in BOOLEAN /\ retry' \in BOOLEAN /\ media' \in BOOLEAN
        /\ strays' \subseteq Attempts /\ viewerKey' \in 0..MaxAttempts
    BY <1>2, <1>t DEF ClosePlayer, PageTyped
  <2>5. NetTyped'
    BY <1>2, <1>t, <2>2 DEF ClosePlayer, NetTyped
  <2> QED
    BY <1>2, <2>3, <2>4, <2>5, PageParts, PageStep DEF ClosePlayer
<1>3. ASSUME LosePage  PROVE Inv'
  <2>1. viewerKey \in Attempts
    BY <1>3, <1>t DEF LosePage
  <2>2. page' \in [Attempts -> Phases]
    BY <1>3, <1>t DEF LosePage, PageTyped, Phases
  <2>3. isOpen' \in BOOLEAN /\ retry' \in BOOLEAN /\ media' \in BOOLEAN
        /\ strays' \subseteq Attempts /\ viewerKey' \in 0..MaxAttempts
    BY <1>3, <1>t DEF LosePage, PageTyped
  <2>4. NetTyped'
    BY <1>3, <1>t, <2>1 DEF LosePage, NetTyped
  <2> QED
    BY <1>3, <2>2, <2>3, <2>4, PageParts, PageStep DEF LosePage
<1>4. ASSUME RetryTimer  PROVE Inv'
  <2>1. NextAttempt /\ viewerKey \in Attempts /\ strays' \subseteq Attempts
    BY <1>4, <1>t DEF RetryTimer, PageTyped
  <2>2. UNCHANGED <<serverVars, pipeVars, peer>>
    BY <2>1 DEF NextAttempt
  <2> QED
    BY <2>1, <2>2, <1>t, NextAttemptTyped, PageStep
<1>5. ASSUME NEW a \in Attempts, StrayTimer(a)  PROVE Inv'
  <2>1. viewerKey \in Attempts /\ strays' \subseteq Attempts
    BY <1>5, <1>t DEF StrayTimer, PageTyped
  <2>2. CASE NextAttempt
    <3>1. UNCHANGED <<serverVars, pipeVars, peer>>
      BY <2>2 DEF NextAttempt
    <3> QED
      BY <2>1, <2>2, <3>1, <1>t, NextAttemptTyped, PageStep
  <2>3. CASE UNCHANGED <<isOpen, viewerKey, page, retry, media, netVars,
                         serverVars, pipeVars, peer>>
    <3>1. PageTyped'
      BY <2>1, <2>3, <1>t DEF PageTyped
    <3>2. NetTyped'
      BY <2>3, <1>t DEF NetTyped, netVars
    <3> QED
      BY <3>1, <3>2, <2>3, PageStep
  <2> QED
    BY <1>5, <2>2, <2>3 DEF StrayTimer
<1>6. ASSUME NEW a \in Attempts, SendPost(a)  PROVE Inv'
  <2>1. page' \in [Attempts -> Phases] /\ NetTyped'
    BY <1>6, <1>t, Requests DEF SendPost, PageTyped, NetTyped, Phases
  <2>2. PageTyped'
    BY <1>6, <1>t, <2>1 DEF SendPost, PageTyped
  <2> QED
    BY <1>6, <2>1, <2>2, PageStep DEF SendPost
<1>7. ASSUME NEW a \in Attempts, NoOffer(a)  PROVE Inv'
  <2>1. retry' \in BOOLEAN /\ strays' \subseteq Attempts
    BY <1>7, <1>t, RetrySet DEF NoOffer
  <2>2. page' \in [Attempts -> Phases] /\ NetTyped'
    BY <1>7, <1>t DEF NoOffer, PageTyped, NetTyped, netVars, Phases
  <2>3. PageTyped'
    BY <1>7, <1>t, <2>1, <2>2 DEF NoOffer, PageTyped
  <2> QED
    BY <1>7, <2>2, <2>3, PageStep DEF NoOffer
<1>8. ASSUME NEW a \in Attempts, Created(a)  PROVE Inv'
  <2>1. retry' \in BOOLEAN /\ strays' \subseteq Attempts
    BY <1>8, <1>t, RetrySet DEF Created, PageTyped
  <2>2. page' \in [Attempts -> Phases]
    BY <1>8, <1>t DEF Created, PageTyped, Phases
  <2>3. media' \in BOOLEAN
    BY <1>8, <1>t DEF Created, PageTyped
  <2>4. NetTyped'
    BY <1>8, <1>t, Requests DEF Created, NetTyped
  <2>5. PageTyped'
    BY <1>8, <1>t, <2>1, <2>2, <2>3 DEF Created, PageTyped
  <2> QED
    BY <1>8, <2>4, <2>5, PageStep DEF Created
<1>9. ASSUME NEW a \in Attempts, Refused(a)  PROVE Inv'
  <2>1. retry' \in BOOLEAN /\ strays' \subseteq Attempts
    BY <1>9, <1>t, RetrySet DEF Refused
  <2>2. page' \in [Attempts -> Phases] /\ NetTyped'
    BY <1>9, <1>t DEF Refused, PageTyped, NetTyped, Phases
  <2>3. PageTyped'
    BY <1>9, <1>t, <2>1, <2>2 DEF Refused, PageTyped
  <2> QED
    BY <1>9, <2>2, <2>3, PageStep DEF Refused
<1>10. ASSUME NEW a \in Attempts, Connects(a)  PROVE Inv'
  <2>1. page' \in [Attempts -> Phases] /\ NetTyped'
    BY <1>10, <1>t DEF Connects, PageTyped, NetTyped, netVars, Phases
  <2>2. PageTyped'
    BY <1>10, <1>t, <2>1 DEF Connects, PageTyped
  <2> QED
    BY <1>10, <2>1, <2>2, PageStep DEF Connects
<1>11. ASSUME NEW a \in Attempts, ConnectionFails(a)  PROVE Inv'
  <2>1. retry' \in BOOLEAN /\ strays' \subseteq Attempts
    BY <1>11, <1>t, RetrySet DEF ConnectionFails
  <2>2. page' \in [Attempts -> Phases] /\ NetTyped'
    BY <1>11, <1>t DEF ConnectionFails, PageTyped, NetTyped, netVars, Phases
  <2>3. PageTyped'
    BY <1>11, <1>t, <2>1, <2>2 DEF ConnectionFails, PageTyped
  <2> QED
    BY <1>11, <2>2, <2>3, PageStep DEF ConnectionFails
<1>12. ASSUME MediaTimer  PROVE Inv'
  <2>1. viewerKey \in Attempts
    BY <1>12, <1>t DEF MediaTimer
  <2>2. retry' \in BOOLEAN /\ strays' \subseteq Attempts
    BY <1>12, <2>1, <1>t, RetrySet DEF MediaTimer, PageTyped
  <2>3. page' \in [Attempts -> Phases] /\ NetTyped'
    BY <1>12, <1>t DEF MediaTimer, PageTyped, NetTyped, netVars, Phases
  <2>4. PageTyped'
    BY <1>12, <1>t, <2>2, <2>3 DEF MediaTimer, PageTyped
  <2> QED
    BY <1>12, <2>3, <2>4, PageStep DEF MediaTimer
<1>13. ASSUME NEW a \in Attempts, Lose(a)  PROVE Inv'
  <2>1. retry' \in BOOLEAN /\ strays' \subseteq Attempts
    BY <1>13, <1>t, RetrySet DEF Lose, PageTyped
  <2>2. page' \in [Attempts -> Phases] /\ NetTyped'
    BY <1>13, <1>t DEF Lose, PageTyped, NetTyped, Phases
  <2>3. PageTyped'
    BY <1>13, <1>t, <2>1, <2>2 DEF Lose, PageTyped
  <2> QED
    BY <1>13, <2>2, <2>3, PageStep DEF Lose
<1> QED
  BY <1>1, <1>2, <1>3, <1>4, <1>5, <1>6, <1>7, <1>8, <1>9, <1>10, <1>11, <1>12, <1>13
     DEF Page

LEMMA BegunKeeps ==
  ASSUME Inv, Begun, Page
  PROVE  Begun'
<1>t. viewerKey \in Nat
  BY Parts, ViewersAssumption DEF PageTyped
<1> SUFFICES ASSUME viewerKey' = 0  PROVE ~isOpen' /\ ~retry' /\ ~media' /\ strays' = {}
  BY DEF Begun
<1>1. ~NextAttempt /\ ~OpenPlayer
  BY <1>t DEF NextAttempt, OpenPlayer
<1>2. viewerKey' = viewerKey
  BY <1>1 DEF Page, ClosePlayer, LosePage, RetryTimer, MediaTimer, StrayTimer, SendPost,
     NoOffer, Created, Refused, Connects, ConnectionFails, Lose
<1>3. ~isOpen /\ ~retry /\ ~media /\ strays = {}
  BY <1>2 DEF Begun
<1>4. \A a \in Attempts : SetRetry(a) => ~retry' /\ strays' = {}
  BY <1>3 DEF SetRetry, Current
<1>5. ~ClosePlayer /\ ~LosePage /\ ~RetryTimer /\ ~MediaTimer
      /\ \A a \in Attempts : ~StrayTimer(a)
  BY <1>3 DEF ClosePlayer, LosePage, RetryTimer, MediaTimer, StrayTimer
<1>6. ASSUME NEW a \in Attempts,
             \/ SendPost(a) \/ NoOffer(a) \/ Refused(a) \/ Connects(a)
             \/ ConnectionFails(a) \/ Lose(a)
      PROVE  ~isOpen' /\ ~retry' /\ ~media' /\ strays' = {}
  <2>1. UNCHANGED <<isOpen, media>>
    BY <1>6 DEF SendPost, NoOffer, Refused, Connects, ConnectionFails, Lose
  <2>2. SetRetry(a) \/ UNCHANGED <<retry, strays>>
    BY <1>6 DEF SendPost, NoOffer, Refused, Connects, ConnectionFails, Lose
  <2> QED
    BY <2>1, <2>2, <1>3, <1>4
<1>7. ASSUME NEW a \in Attempts, Created(a)
      PROVE  ~isOpen' /\ ~retry' /\ ~media' /\ strays' = {}
  BY <1>3, <1>4, <1>7 DEF Created, Current
<1> QED
  BY <1>1, <1>5, <1>6, <1>7 DEF Page

(***************************************************************************)
(* The server's steps.                                                     *)
(***************************************************************************)
LEMMA Evented ==
  ASSUME ChildTyped, out # <<>>
  PROVE  Tail(out) \in Seq(Events)
BY HeadTailProperties DEF ChildTyped

(* A stop, with whatever else its caller does to requests and events.      *)
LEMMA StopStep ==
  ASSUME Inv, NEW a \in Attempts, Stop(a), NetTyped', PageTyped',
         create' \in [Attempts -> {"no", "waiting", "offered", "done"}],
         UNCHANGED <<process, isReady, pending, child, deaths, peer>>,
         out' = out \/ (out # <<>> /\ out' = Tail(out))
  PROVE  Inv'
<1>1. /\ OwnInv' /\ HandleTyped' /\ sessions' \subseteq Attempts
      /\ ffmpeg' \subseteq Attempts /\ overtaken' \subseteq Attempts
  BY StopKeeps
<1>2. ServerTyped'
  BY <1>1 DEF ServerTyped
<1>3. ChildTyped' /\ Quiet'
  BY Parts, Evented DEF ChildTyped, Quiet
<1> QED
  BY <1>1, <1>2, <1>3, PartsNext

(* A step of the server that neither stops nor writes.                     *)
LEMMA CalmStep ==
  ASSUME Inv, NetTyped', ServerTyped', ffmpeg' \subseteq sessions',
         UNCHANGED <<pageVars, sessions, overtaken, process, isReady, pending, child, stdin,
                     deaths, peer>>,
         out' = out \/ (out # <<>> /\ out' = Tail(out))
  PROVE  Inv'
<1>1. PageTyped'
  BY Parts DEF PageTyped, pageVars
<1>2. HandleTyped' /\ ChildTyped' /\ Quiet'
  BY Parts, Evented DEF HandleTyped, ChildTyped, Quiet
<1>3. Excused' = Excused
  BY DEF Excused
<1>4. OwnInv'
  BY <1>3, Parts DEF OwnInv, Follows, PendingOwned, PeersOwned, Alive, Has
<1> QED
  BY <1>1, <1>2, <1>4, PartsNext

LEMMA CreateKeeps ==
  ASSUME Inv, NEW a \in Attempts, Create(a)
  PROVE  Inv'
<1>t. PageTyped /\ NetTyped /\ ServerTyped /\ HandleTyped /\ ChildTyped /\ OwnInv /\ Quiet
  BY Parts
<1>1. /\ wire' = wire \ {Post(a)} /\ sessions' = sessions \cup {a}
      /\ create' = [create EXCEPT ![a] = "waiting"] /\ SendWhenReady(Start(a))
      /\ UNCHANGED <<pageVars, answers, lost, ffmpeg, overtaken, isReady, out, deaths, peer>>
  BY DEF Create
<1>2. PageTyped' /\ NetTyped' /\ ServerTyped'
  BY <1>1, <1>t DEF PageTyped, pageVars, NetTyped, ServerTyped
<1>3. Excused' = Excused \cup {a} /\ ffmpeg' \subseteq sessions'
  BY <1>1, <1>t DEF Excused, OwnInv
<1>4. Start(a) \in Commands /\ pending \in Seq(Commands) /\ stdin \in Seq(Commands)
  BY <1>t, CommandFacts DEF HandleTyped
<1>5. \A b \in Attempts : Start(a) = Start(b) => b \in Excused'
  BY <1>3, CommandFacts
<1>6. Follows(stdin, Excused') /\ \A b \in Attempts : Has(pending, Start(b)) => b \in Excused'
  BY <1>3, <1>t, FollowsMore DEF OwnInv, PendingOwned
<1>7. CASE isReady
  <2>1. process /\ stdin' = Append(stdin, Start(a)) /\ UNCHANGED <<pending, process, child>>
    BY <1>1, <1>7, <1>t DEF SendWhenReady, SendLine, OwnInv, Alive
  <2>2. HandleTyped' /\ ChildTyped' /\ Quiet'
    BY <2>1, <1>1, <1>4, <1>t, Appended DEF HandleTyped, ChildTyped, Quiet
  <2>3. Follows(stdin', Excused')
    BY <2>1, <1>4, <1>5, <1>6, AppendFollows
  <2>4. PendingOwned'
    BY <2>1, <1>6 DEF PendingOwned, Has
  <2>5. PeersOwned'
    <3> SUFFICES ASSUME NEW b \in Attempts, peer[b] # "none"
                 PROVE  b \in Excused' \/ Has(stdin', StopIt(b))
      BY <1>1 DEF PeersOwned, Has
    <3>1. b \in Excused \/ Has(stdin, StopIt(b))
      BY <1>t DEF OwnInv, PeersOwned
    <3> QED
      BY <3>1, <2>1, <1>3, <1>4, AppendHas
  <2>6. Alive'
    BY <2>1, <1>1, <1>t DEF OwnInv, Alive
  <2> QED
    BY <1>2, <1>3, <2>2, <2>3, <2>4, <2>5, <2>6, PartsNext DEF OwnInv, Follows
<1>8. CASE ~isReady
  <2>1. /\ pending' = Append(pending, Start(a)) /\ stdin' = stdin
        /\ \/ process' = process /\ child' = child
           \/ ~process /\ process' = TRUE /\ child' = "booting"
    BY <1>1, <1>8 DEF SendWhenReady, StartEngine
  <2>2. HandleTyped'
    BY <2>1, <1>1, <1>4, <1>t, Appended DEF HandleTyped
  <2>3. ChildTyped' /\ Quiet'
    BY <2>1, <1>1, <1>t DEF ChildTyped, Quiet
  <2>4. Follows(stdin', Excused')
    BY <2>1, <1>6
  <2>5. PendingOwned'
    <3>1. \A b \in Attempts : Has(pending', Start(b)) => b \in Excused'
      BY <2>1, <1>4, <1>5, <1>6, AppendHas
    <3> QED
      BY <3>1 DEF PendingOwned, Has
  <2>6. PeersOwned'
    BY <2>1, <1>1, <1>3, <1>t DEF OwnInv, PeersOwned, Has
  <2>7. Alive'
    BY <2>1, <1>1, <1>t DEF OwnInv, Alive
  <2> QED
    BY <1>2, <1>3, <2>2, <2>3, <2>4, <2>5, <2>6, <2>7, PartsNext DEF OwnInv, Follows
<1> QED
  BY <1>7, <1>8

LEMMA ReadyKeeps ==
  ASSUME Inv, HandleReady
  PROVE  Inv'
<1>t. PageTyped /\ NetTyped /\ ServerTyped /\ HandleTyped /\ ChildTyped /\ OwnInv /\ Quiet
  BY Parts
<1>1. /\ out # <<>> /\ out' = Tail(out) /\ isReady' = TRUE
      /\ stdin' = stdin \o pending /\ pending' = <<>>
      /\ UNCHANGED <<pageVars, netVars, serverVars, process, child, deaths, peer>>
  BY DEF HandleReady
<1>2. process
  BY <1>1, <1>t DEF Quiet
<1>3. PageTyped' /\ NetTyped' /\ ServerTyped'
  BY <1>1, <1>t DEF PageTyped, pageVars, NetTyped, netVars, ServerTyped, serverVars
<1>4. /\ stdin' \in Seq(Commands) /\ Follows(stdin', Excused)
      /\ \A c : Has(stdin, c) => Has(stdin', c)
  BY <1>1, <1>t, ConcatFollows DEF HandleTyped, OwnInv, PendingOwned
<1>5. HandleTyped' /\ ChildTyped' /\ Quiet'
  BY <1>1, <1>2, <1>4, <1>t, EmptySeq, Evented DEF HandleTyped, ChildTyped, Quiet
<1>6. Excused' = Excused /\ ffmpeg' \subseteq sessions'
  BY <1>1, <1>t DEF Excused, serverVars, OwnInv
<1>7. PendingOwned'
  <2>1. \A c : ~Has(pending', c)
    BY <1>1, NothingFollows
  <2> QED
    BY <2>1 DEF PendingOwned, Has
<1>8. PeersOwned'
  BY <1>1, <1>4, <1>6, <1>t DEF OwnInv, PeersOwned, Has
<1>9. Alive'
  BY <1>1, <1>2, <1>t DEF OwnInv, Alive
<1>10. Follows(stdin', Excused')
  BY <1>4, <1>6
<1> QED
  BY <1>3, <1>5, <1>6, <1>7, <1>8, <1>9, <1>10, PartsNext DEF OwnInv, Follows

LEMMA ExitKeeps ==
  ASSUME Inv, HandleExit
  PROVE  Inv'
<1>t. PageTyped /\ NetTyped /\ ServerTyped /\ HandleTyped /\ ChildTyped /\ OwnInv /\ Quiet
  BY Parts
<1>1. /\ child = "dead" /\ child' = "none" /\ process' = FALSE /\ isReady' = FALSE
      /\ stdin' = <<>> /\ out' = <<>>
      /\ UNCHANGED <<pageVars, netVars, serverVars, pending, deaths, peer>>
  BY DEF HandleExit
<1>2. PageTyped' /\ NetTyped' /\ ServerTyped'
  BY <1>1, <1>t DEF PageTyped, pageVars, NetTyped, netVars, ServerTyped, serverVars
<1>3. HandleTyped' /\ ChildTyped' /\ Quiet'
  BY <1>1, <1>t, EmptySeq DEF HandleTyped, ChildTyped, Quiet
<1>4. \A a \in Attempts : peer[a] = "none"
  BY <1>1, <1>t DEF OwnInv, Alive
<1>5. Excused' = Excused /\ ffmpeg' \subseteq sessions'
  BY <1>1, <1>t DEF Excused, serverVars, OwnInv
<1>6. Follows(stdin', Excused')
  BY <1>1, NothingFollows
<1>7. PendingOwned'
  BY <1>1, <1>5, <1>t DEF OwnInv, PendingOwned, Has
<1>8. PeersOwned' /\ Alive'
  BY <1>1, <1>4 DEF PeersOwned, Alive
<1> QED
  BY <1>2, <1>3, <1>5, <1>6, <1>7, <1>8, PartsNext DEF OwnInv, Follows

LEMMA ServerKeeps ==
  ASSUME Inv, Server
  PROVE  Inv'
<1>t. PageTyped /\ NetTyped /\ ServerTyped /\ HandleTyped /\ ChildTyped /\ OwnInv /\ Quiet
  BY Parts
<1>1. ASSUME NEW a \in Attempts, Refuse(a)  PROVE Inv'
  <2>1. NetTyped'
    BY <1>1, <1>t, Requests DEF Refuse, NetTyped
  <2>2. UNCHANGED <<pageVars, sessions, create, ffmpeg, overtaken, process, isReady, pending,
                    child, stdin, out, deaths, peer>>
    BY <1>1 DEF Refuse, serverVars, pipeVars
  <2>3. ServerTyped' /\ ffmpeg' \subseteq sessions'
    BY <2>2, <1>t DEF ServerTyped, OwnInv
  <2> QED
    BY <2>1, <2>2, <2>3, CalmStep
<1>2. ASSUME NEW a \in Attempts, OfferTimeout(a)  PROVE Inv'
  <2>1. NetTyped'
    BY <1>2, <1>t, Requests DEF OfferTimeout, NetTyped
  <2>2. PageTyped' /\ create' \in [Attempts -> {"no", "waiting", "offered", "done"}]
    BY <1>2, <1>t DEF OfferTimeout, PageTyped, pageVars, ServerTyped
  <2> QED
    BY <1>2, <2>1, <2>2, StopStep DEF OfferTimeout
<1>3. ASSUME NEW a \in Attempts, Stream(a)  PROVE Inv'
  <2>a. Answer(a, a \in sessions) \in [id : Attempts, ok : BOOLEAN]
    <3>1. (a \in sessions) \in BOOLEAN
      OBVIOUS
    <3> QED
      BY <3>1 DEF Answer
  <2>1. NetTyped'
    <3>1. /\ wire' = wire /\ lost' = lost
          /\ answers' = answers \cup {Answer(a, a \in sessions)}
      BY <1>3 DEF Stream
    <3> QED
      BY <3>1, <2>a, <1>t DEF NetTyped
  <2>2. UNCHANGED <<pageVars, sessions, overtaken, process, isReady, pending,
                    child, stdin, out, deaths, peer>>
    BY <1>3 DEF Stream, pipeVars
  <2>3. ServerTyped' /\ ffmpeg' \subseteq sessions'
    BY <1>3, <1>t DEF Stream, ServerTyped, OwnInv
  <2> QED
    BY <2>1, <2>2, <2>3, CalmStep
<1>4. ASSUME NEW a \in Attempts, StopRequest(a)  PROVE Inv'
  <2>1. NetTyped' /\ PageTyped'
    BY <1>4, <1>t DEF StopRequest, NetTyped, PageTyped, pageVars
  <2>2. create' \in [Attempts -> {"no", "waiting", "offered", "done"}]
    BY <1>4, <1>t DEF StopRequest, ServerTyped
  <2> QED
    BY <1>4, <2>1, <2>2, StopStep DEF StopRequest
<1>5. ASSUME NEW a \in Attempts, CleanupTimer(a) \/ FfmpegEnds(a)  PROVE Inv'
  <2>1. Stop(a) /\ UNCHANGED <<pageVars, netVars, create, process, isReady, pending, child,
                               out, deaths, peer>>
    BY <1>5 DEF CleanupTimer, FfmpegEnds
  <2>2. NetTyped' /\ PageTyped'
    BY <2>1, <1>t DEF NetTyped, netVars, PageTyped, pageVars
  <2>3. create' \in [Attempts -> {"no", "waiting", "offered", "done"}]
    BY <2>1, <1>t DEF ServerTyped
  <2> QED
    BY <2>1, <2>2, <2>3, StopStep
<1>6. ASSUME NEW a \in Attempts, HandleOffer(a)  PROVE Inv'
  <2>1. /\ UNCHANGED <<pageVars, netVars, sessions, ffmpeg, overtaken, process, isReady,
                       pending, child, stdin, deaths, peer>>
        /\ out # <<>> /\ out' = Tail(out)
    BY <1>6 DEF HandleOffer
  <2>2. NetTyped'
    BY <2>1, <1>t DEF NetTyped, netVars
  <2>3. ServerTyped' /\ ffmpeg' \subseteq sessions'
    BY <1>6, <2>1, <1>t DEF HandleOffer, ServerTyped, OwnInv
  <2> QED
    BY <2>1, <2>2, <2>3, CalmStep
<1>7. ASSUME NEW a \in Attempts, HandleClosed(a)  PROVE Inv'
  <2>1. /\ UNCHANGED <<pageVars, netVars, create, process, isReady, pending, child, deaths,
                       peer>>
        /\ out # <<>> /\ out' = Tail(out) /\ Stop(a)
    BY <1>7 DEF HandleClosed
  <2>2. NetTyped' /\ PageTyped'
    BY <2>1, <1>t DEF NetTyped, netVars, PageTyped, pageVars
  <2>3. create' \in [Attempts -> {"no", "waiting", "offered", "done"}]
    BY <2>1, <1>t DEF ServerTyped
  <2> QED
    BY <2>1, <2>2, <2>3, StopStep
<1> QED
  BY <1>1, <1>2, <1>3, <1>4, <1>5, <1>6, <1>7, CreateKeeps, ReadyKeeps, ExitKeeps DEF Server

(***************************************************************************)
(* The engine's steps.                                                     *)
(***************************************************************************)
LEMMA Reported ==
  ASSUME ChildTyped, NEW a \in Attempts
  PROVE  /\ Append(out, Ready) \in Seq(Events) /\ Append(out, Offer(a)) \in Seq(Events)
         /\ Append(out, Closed(a)) \in Seq(Events)
<1>1. Ready \in Events /\ Offer(a) \in Events /\ Closed(a) \in Events
  BY DEF Ready, Offer, Closed, Events
<1> QED
  BY <1>1, AppendProperties DEF ChildTyped

(* A step that leaves the page, the requests and the server alone.         *)
LEMMA EngineStep ==
  ASSUME Inv, UNCHANGED <<pageVars, netVars, serverVars, process, isReady, pending>>,
         stdin' \in Seq(Commands), ChildTyped', process,
         Follows(stdin', Excused),
         \A a \in Attempts : peer'[a] # "none" =>
           child' = "serving" /\ (a \in Excused \/ Has(stdin', StopIt(a)))
  PROVE  Inv'
<1>t. PageTyped /\ NetTyped /\ ServerTyped /\ HandleTyped /\ OwnInv
  BY Parts
<1>1. PageTyped' /\ NetTyped' /\ ServerTyped'
  BY <1>t DEF PageTyped, pageVars, NetTyped, netVars, ServerTyped, serverVars
<1>2. HandleTyped' /\ Quiet'
  BY <1>t DEF HandleTyped, Quiet
<1>3. Excused' = Excused /\ ffmpeg' \subseteq sessions'
  BY <1>t DEF Excused, serverVars, OwnInv
<1>4. Follows(stdin', Excused')
  BY <1>3
<1>5. PendingOwned'
  BY <1>3, <1>t DEF OwnInv, PendingOwned, Has
<1>6. PeersOwned'
  BY <1>3 DEF PeersOwned, Has
<1>7. Alive'
  BY DEF Alive
<1> QED
  BY <1>1, <1>2, <1>3, <1>4, <1>5, <1>6, <1>7, PartsNext DEF OwnInv, Follows

LEMMA EngineKeeps ==
  ASSUME Inv, Engine
  PROVE  Inv'
<1>t. HandleTyped /\ ChildTyped /\ Follows(stdin, Excused) /\ PeersOwned /\ Alive
  BY Parts DEF OwnInv
<1>s. stdin \in Seq(Commands)
  BY <1>t DEF HandleTyped
<1>p. child # "none" => process
  BY <1>t DEF Alive
<1>1. ASSUME Boot  PROVE Inv'
  <2>1. /\ child = "booting" /\ child' = "serving" /\ out' = Append(out, Ready)
        /\ UNCHANGED <<pageVars, netVars, serverVars, process, isReady, pending, stdin,
                       deaths, peer>>
    BY <1>1 DEF Boot
  <2>2. 1 \in Attempts
    BY ViewersAssumption DEF Attempts
  <2>3. ChildTyped'
    BY <2>1, <2>2, <1>t, Reported DEF ChildTyped
  <2>4. \A a \in Attempts : peer[a] = "none"
    BY <2>1, <1>t DEF Alive
  <2> QED
    BY <2>1, <2>3, <2>4, <1>t, <1>s, <1>p, EngineStep
<1>2. ASSUME Die  PROVE Inv'
  <2>1. /\ child \in {"booting", "serving"} /\ deaths < MaxDeaths
        /\ child' = "dead" /\ deaths' = deaths + 1
        /\ peer' = [a \in Attempts |-> "none"]
        /\ UNCHANGED <<pageVars, netVars, serverVars, process, isReady, pending, stdin, out>>
    BY <1>2 DEF Die
  <2>2. deaths' \in 0..MaxDeaths
    BY <2>1, <1>t, ViewersAssumption DEF ChildTyped
  <2>3. ChildTyped'
    BY <2>1, <2>2, <1>t DEF ChildTyped
  <2> QED
    BY <2>1, <2>3, <1>t, <1>s, <1>p, EngineStep
<1>3. ASSUME NEW a \in Attempts, HandleStart(a)  PROVE Inv'
  <2>1. /\ child = "serving" /\ stdin # <<>> /\ Head(stdin) = Start(a)
        /\ stdin' = Tail(stdin)
        /\ peer' \in {[peer EXCEPT ![a] = "gathering"], [peer EXCEPT ![a] = "none"]}
        /\ out' \in {out, Append(out, Closed(a))}
        /\ UNCHANGED <<pageVars, netVars, serverVars, process, isReady, pending, child, deaths>>
    BY <1>3 DEF HandleStart, Rejected
  <2>2. ChildTyped'
    BY <2>1, <1>t, Reported DEF ChildTyped
  <2>3. stdin' \in Seq(Commands) /\ Follows(stdin', Excused)
        /\ (a \in Excused \/ Has(stdin', StopIt(a)))
    BY <2>1, <1>t, <1>s, Tailed, TailFollows
  <2>4. \A b \in Attempts : Has(stdin, StopIt(b)) => Has(stdin', StopIt(b))
    BY <2>1, <1>s, TailHas, CommandFacts
  <2>5. \A b \in Attempts : b # a => peer'[b] = peer[b]
    BY <2>1, <1>t DEF ChildTyped
  <2>6. \A b \in Attempts : peer'[b] # "none" => b \in Excused \/ Has(stdin', StopIt(b))
    BY <2>3, <2>4, <2>5, <1>t DEF PeersOwned
  <2> QED
    BY <2>1, <2>2, <2>3, <2>6, <1>p, EngineStep
<1>4. ASSUME NEW a \in Attempts, HandleStop(a)  PROVE Inv'
  <2>1. /\ child = "serving" /\ stdin # <<>> /\ Head(stdin) = StopIt(a)
        /\ stdin' = Tail(stdin) /\ peer' = [peer EXCEPT ![a] = "none"]
        /\ out' \in {out, Append(out, Closed(a))}
        /\ UNCHANGED <<pageVars, netVars, serverVars, process, isReady, pending, child, deaths>>
    BY <1>4 DEF HandleStop
  <2>2. ChildTyped'
    BY <2>1, <1>t, Reported DEF ChildTyped
  <2>3. stdin' \in Seq(Commands) /\ Follows(stdin', Excused)
    BY <2>1, <1>t, <1>s, Tailed, TailFollows
  <2>4. \A b \in Attempts : b # a /\ Has(stdin, StopIt(b)) => Has(stdin', StopIt(b))
    BY <2>1, <1>s, TailHas, CommandFacts
  <2>5. peer'[a] = "none" /\ \A b \in Attempts : b # a => peer'[b] = peer[b]
    BY <2>1, <1>t DEF ChildTyped
  <2>6. \A b \in Attempts : peer'[b] # "none" => b \in Excused \/ Has(stdin', StopIt(b))
    BY <2>4, <2>5, <1>t DEF PeersOwned
  <2> QED
    BY <2>1, <2>2, <2>3, <2>6, <1>p, EngineStep
<1>5. ASSUME NEW a \in Attempts, PeerAnswers(a) \/ PeerFails(a)  PROVE Inv'
  <2>1. /\ peer[a] # "none"
        /\ peer' \in {[peer EXCEPT ![a] = "answered"], [peer EXCEPT ![a] = "failed"]}
        /\ out' \in {Append(out, Offer(a)), Append(out, Closed(a))}
        /\ UNCHANGED <<pageVars, netVars, serverVars, process, isReady, pending, child,
                       stdin, deaths>>
    BY <1>5 DEF PeerAnswers, PeerFails
  <2>2. ChildTyped'
    BY <2>1, <1>t, Reported DEF ChildTyped
  <2>3. child = "serving"
    BY <2>1, <1>t DEF Alive
  <2>4. \A b \in Attempts : peer'[b] # "none" => peer[b] # "none"
    BY <2>1, <1>t DEF ChildTyped
  <2>5. \A b \in Attempts : peer'[b] # "none" => b \in Excused \/ Has(stdin', StopIt(b))
    BY <2>1, <2>4, <1>t DEF PeersOwned
  <2> QED
    BY <2>1, <2>2, <2>3, <2>5, <1>t, <1>s, <1>p, EngineStep
<1> QED
  BY <1>1, <1>2, <1>3, <1>4, <1>5 DEF Engine

(***************************************************************************)
(* The invariant.                                                          *)
(***************************************************************************)
LEMMA InitInv ==
  ASSUME Init
  PROVE  Inv /\ Begun
<1>1. TypeOK
  <2>1. PageTyped
    <3>1. viewerKey \in 0..MaxAttempts
      BY ViewersAssumption DEF Init
    <3>2. page \in [Attempts -> Phases]
      BY DEF Init, Phases
    <3> QED
      BY <3>1, <3>2 DEF Init, PageTyped
  <2>2. NetTyped /\ ServerTyped
    BY DEF Init, NetTyped, ServerTyped
  <2>3. HandleTyped
    BY EmptySeq DEF Init, HandleTyped
  <2>4. deaths \in 0..MaxDeaths
    BY ViewersAssumption DEF Init
  <2>5. ChildTyped
    BY <2>4, EmptySeq DEF Init, ChildTyped
  <2> QED
    BY <2>1, <2>2, <2>3, <2>5
       DEF TypeOK, PageTyped, NetTyped, ServerTyped, HandleTyped, ChildTyped
<1>2. Follows(stdin, Excused)
  BY NothingFollows DEF Init
<1>3. PendingOwned /\ PeersOwned
  BY NothingFollows DEF Init, PendingOwned, PeersOwned
<1>4. Alive /\ Quiet /\ ffmpeg \subseteq sessions /\ Begun
  BY DEF Init, Alive, Quiet, Begun
<1> QED
  BY <1>1, <1>2, <1>3, <1>4 DEF Inv, OwnInv

LEMMA StepInv ==
  ASSUME Inv, Begun, [Next]_vars
  PROVE  Inv' /\ Begun'
<1>1. CASE Page
  BY <1>1, PageKeeps, BegunKeeps
<1>2. CASE Server \/ Engine
  <2>1. UNCHANGED pageVars
    BY <1>2 DEF Server, Engine, HandleReady, HandleExit, Create, Refuse, OfferTimeout, Stream,
       StopRequest, CleanupTimer, FfmpegEnds, HandleOffer, HandleClosed, Boot, Die,
       HandleStart, Rejected, HandleStop, PeerAnswers, PeerFails
  <2>2. Begun'
    BY <2>1 DEF Begun, pageVars
  <2> QED
    BY <1>2, <2>2, ServerKeeps, EngineKeeps
<1>3. CASE UNCHANGED vars
  <2>1. UNCHANGED <<pageVars, netVars, serverVars, pipeVars, peer>>
    BY <1>3 DEF vars
  <2>2. PageTyped' /\ NetTyped'
    BY <2>1, Parts DEF PageTyped, pageVars, NetTyped, netVars
  <2>3. Begun'
    BY <2>1 DEF Begun, pageVars
  <2> QED
    BY <2>1, <2>2, <2>3, PageStep
<1> QED
  BY <1>1, <1>2, <1>3 DEF Next

(* The inductive invariant holds in every state.                           *)
THEOREM ViewersInductive == Spec => [](Inv /\ Begun)
<1>1. Init => Inv /\ Begun
  BY InitInv
<1>2. Inv /\ Begun /\ [Next]_vars => (Inv /\ Begun)'
  BY StepInv
<1> QED
  BY <1>1, <1>2, PTL DEF Spec

(* The state of page, server, pipe and engine has its type: no request,    *)
(* event or command is of a session that no attempt made.                  *)
THEOREM ViewersTypeCorrect == Spec => []TypeOK
<1>1. Inv => TypeOK
  BY DEF Inv
<1> QED
  BY <1>1, ViewersInductive, PTL

(* Whatever timers, failures, deaths and orders: an ffmpeg that runs and a *)
(* peer that stands in the engine belong to a session of                   *)
(* browser-webrtc.service.ts, or their stop is written, or the session was *)
(* stopped while its start still waited in pendingCommands.                *)
THEOREM EverythingIsOwned == Spec => []Owned
<1>1. Inv => Owned
  <2> SUFFICES ASSUME Inv  PROVE Owned
    OBVIOUS
  <2>1. ffmpeg \subseteq sessions /\ PeersOwned
    BY Parts DEF OwnInv
  <2>2. ASSUME NEW a \in Attempts, peer[a] # "none"
        PROVE  a \in sessions \/ StopComing(a) \/ a \in overtaken
    BY <2>1, <2>2 DEF PeersOwned, Has, StopComing, Excused
  <2> QED
    BY <2>1, <2>2 DEF Owned
<1> QED
  BY <1>1, ViewersInductive, PTL

(***************************************************************************)
(* No session is left behind.  The page and the server agree on how far a  *)
(* post is: an attempt that has not posted has nothing at the server; a    *)
(* post under way has no session yet; an answer is the end of its post,    *)
(* and a refusal leaves no session.  The page knows a session only of its  *)
(* latest attempt while the player is open (Known), so a session that is   *)
(* neither asked for any more nor being stopped belongs to that attempt    *)
(* (Kept).                                                                 *)
(***************************************************************************)
Fresh(a) ==
  /\ viewerKey < a => page[a] = "unused"
  /\ page[a] \in {"unused", "offering"} =>
       /\ Post(a) \notin wire /\ create[a] = "no" /\ a \notin sessions
       /\ Answer(a, TRUE) \notin answers /\ Answer(a, FALSE) \notin answers

Asked(a) ==
  Post(a) \in wire =>
    create[a] = "no" /\ a \notin sessions /\ (page[a] = "posted" \/ a \in lost)

Told(a) ==
  /\ Answer(a, TRUE) \in answers => Post(a) \notin wire
  /\ Answer(a, FALSE) \in answers => Post(a) \notin wire /\ a \notin sessions

Known(a) == KnowsSession(a) => Current(a)

Kept(a) ==
  a \in sessions \ lost =>
    page[a] = "posted" \/ KnowsSession(a) \/ Delete(a) \in wire

Sure(a) == Fresh(a) /\ Asked(a) /\ Told(a) /\ Known(a) /\ Kept(a)

Handed ==
  /\ media => viewerKey \in Attempts /\ KnowsSession(viewerKey)
  /\ \A a \in Attempts : Sure(a)

LEMMA RequestFacts ==
  ASSUME NEW a \in Attempts, NEW b \in Attempts
  PROVE  /\ Post(a) # Delete(b) /\ Delete(b) # Post(a)
         /\ (Post(a) = Post(b) <=> a = b) /\ (Delete(a) = Delete(b) <=> a = b)
         /\ Answer(a, TRUE) # Answer(b, FALSE) /\ Answer(b, FALSE) # Answer(a, TRUE)
         /\ (Answer(a, TRUE) = Answer(b, TRUE) <=> a = b)
         /\ (Answer(a, FALSE) = Answer(b, FALSE) <=> a = b)
BY DEF Post, Delete, Answer

(* What a step leaves of an attempt that is not its own.                   *)
Same(b) ==
  /\ page'[b] = page[b] /\ create'[b] = create[b]
  /\ b \in sessions' <=> b \in sessions
  /\ b \in lost' <=> b \in lost
  /\ Post(b) \in wire' <=> Post(b) \in wire
  /\ Delete(b) \in wire' <=> Delete(b) \in wire
  /\ Answer(b, TRUE) \in answers' <=> Answer(b, TRUE) \in answers
  /\ Answer(b, FALSE) \in answers' <=> Answer(b, FALSE) \in answers
  /\ viewerKey' < b => viewerKey < b
  /\ Current(b) => Current(b)'

LEMMA SameSure ==
  ASSUME NEW b \in Attempts, Sure(b), Same(b)
  PROVE  Sure(b)'
BY DEF Sure, Fresh, Asked, Told, Known, Kept, KnowsSession, Same

(* A step that touches one attempt, and not the media timer.               *)
LEMMA OwnStep ==
  ASSUME Handed, NEW a \in Attempts, Sure(a)',
         \A b \in Attempts : b # a => Same(b),
         media' => viewerKey' \in Attempts /\ KnowsSession(viewerKey)'
  PROVE  Handed'
<1>1. \A b \in Attempts : Sure(b)'
  BY SameSure DEF Handed
<1> QED
  BY <1>1 DEF Handed

LEMMA StopLeaves ==
  ASSUME NEW a, Stop(a)
  PROVE  sessions' = sessions \ {a}
BY DEF Stop

(* A step of the server for one attempt.                                   *)
LEMMA ServerStep ==
  ASSUME Handed, UNCHANGED <<pageVars, lost>>, NEW a \in Attempts, Sure(a)',
         \A b \in Attempts : b # a =>
           /\ create'[b] = create[b] /\ (b \in sessions' <=> b \in sessions)
           /\ Post(b) \in wire' <=> Post(b) \in wire
           /\ Delete(b) \in wire' <=> Delete(b) \in wire
           /\ Answer(b, TRUE) \in answers' <=> Answer(b, TRUE) \in answers
           /\ Answer(b, FALSE) \in answers' <=> Answer(b, FALSE) \in answers
  PROVE  Handed'
<1>1. UNCHANGED <<isOpen, viewerKey, page, media, lost>>
  BY DEF pageVars
<1>2. \A b \in Attempts : b # a => Same(b)
  BY <1>1 DEF Same, Current
<1>3. media' => viewerKey' \in Attempts /\ KnowsSession(viewerKey)'
  BY <1>1 DEF Handed, KnowsSession
<1> QED
  BY <1>2, <1>3, OwnStep

(* A step of neither the page, nor the requests, nor the sessions.         *)
LEMMA NothingHands ==
  ASSUME Handed, UNCHANGED <<pageVars, netVars, serverVars>>
  PROVE  Handed'
<1>1. UNCHANGED <<isOpen, viewerKey, page, media, wire, answers, lost, sessions, create>>
  BY DEF pageVars, netVars, serverVars
<1>2. \A b \in Attempts : Same(b)
  BY <1>1 DEF Same, Current
<1>3. \A b \in Attempts : Sure(b)'
  BY <1>2, SameSure DEF Handed
<1> QED
  BY <1>1, <1>3 DEF Handed, KnowsSession

LEMMA ServerHands ==
  ASSUME Inv, Handed, Server
  PROVE  Handed'
<1>t. create \in [Attempts -> {"no", "waiting", "offered", "done"}]
  BY Parts DEF ServerTyped
<1>s. \A a \in Attempts : Sure(a)
  BY DEF Handed
<1>1. ASSUME NEW a \in Attempts, Create(a)  PROVE Handed'
  <2>1. /\ Post(a) \in wire /\ wire' = wire \ {Post(a)} /\ sessions' = sessions \cup {a}
        /\ create' = [create EXCEPT ![a] = "waiting"]
        /\ UNCHANGED <<pageVars, answers, lost>>
    BY <1>1 DEF Create
  <2>2. \A b \in Attempts : b # a => create'[b] = create[b]
    BY <2>1, <1>t
  <2>3. page' = page /\ viewerKey' = viewerKey /\ isOpen' = isOpen
    BY <2>1 DEF pageVars
  <2>4. Sure(a)'
    BY <2>1, <2>3, <1>s DEF Sure, Fresh, Asked, Told, Known, Kept, KnowsSession, Current
  <2> QED
    BY <2>1, <2>2, <2>4, RequestFacts, ServerStep
<1>2. ASSUME NEW a \in Attempts, Refuse(a)  PROVE Handed'
  <2>1. /\ Post(a) \in wire /\ wire' = wire \ {Post(a)}
        /\ answers' = answers \cup {Answer(a, FALSE)}
        /\ UNCHANGED <<pageVars, lost, sessions, create>>
    BY <1>2 DEF Refuse, serverVars
  <2>2. page' = page /\ viewerKey' = viewerKey /\ isOpen' = isOpen
    BY <2>1 DEF pageVars
  <2>3. Sure(a)'
    BY <2>1, <2>2, <1>s, RequestFacts
       DEF Sure, Fresh, Asked, Told, Known, Kept, KnowsSession, Current
  <2> QED
    BY <2>1, <2>3, RequestFacts, ServerStep
<1>3. ASSUME NEW a \in Attempts, OfferTimeout(a)  PROVE Handed'
  <2>1. /\ create[a] = "waiting" /\ create' = [create EXCEPT ![a] = "done"]
        /\ answers' = answers \cup {Answer(a, FALSE)}
        /\ sessions' = sessions \ {a}
        /\ UNCHANGED <<pageVars, wire, lost>>
    BY <1>3, StopLeaves DEF OfferTimeout
  <2>2. create'[a] = "done" /\ \A b \in Attempts : b # a => create'[b] = create[b]
    BY <2>1, <1>t
  <2>3. page' = page /\ viewerKey' = viewerKey /\ isOpen' = isOpen
    BY <2>1 DEF pageVars
  <2>4. Sure(a)'
    BY <2>1, <2>2, <2>3, <1>s, RequestFacts
       DEF Sure, Fresh, Asked, Told, Known, Kept, KnowsSession, Current
  <2> QED
    BY <2>1, <2>2, <2>4, RequestFacts, ServerStep
<1>4. ASSUME NEW a \in Attempts, Stream(a)  PROVE Handed'
  <2>1. /\ create[a] = "offered" /\ create' = [create EXCEPT ![a] = "done"]
        /\ answers' = answers \cup {Answer(a, a \in sessions)}
        /\ UNCHANGED <<pageVars, wire, lost, sessions>>
    BY <1>4 DEF Stream
  <2>2. create'[a] = "done" /\ \A b \in Attempts : b # a => create'[b] = create[b]
    BY <2>1, <1>t
  <2>3. page' = page /\ viewerKey' = viewerKey /\ isOpen' = isOpen
    BY <2>1 DEF pageVars
  <2>a. Answer(a, a \in sessions) = IF a \in sessions THEN Answer(a, TRUE) ELSE Answer(a, FALSE)
    <3>1. CASE a \in sessions
      <4>1. (a \in sessions) = TRUE
        BY <3>1
      <4> QED
        BY <4>1, <3>1 DEF Answer
    <3>2. CASE a \notin sessions
      <4>1. (a \in sessions) = FALSE
        BY <3>2
      <4> QED
        BY <4>1, <3>2 DEF Answer
    <3> QED
      BY <3>1, <3>2
  <2>4. Sure(a)'
    BY <2>1, <2>2, <2>3, <2>a, <1>s, RequestFacts
       DEF Sure, Fresh, Asked, Told, Known, Kept, KnowsSession, Current
  <2>5. \A b \in Attempts : b # a =>
          /\ Answer(b, TRUE) \in answers' <=> Answer(b, TRUE) \in answers
          /\ Answer(b, FALSE) \in answers' <=> Answer(b, FALSE) \in answers
    <3>1. CASE a \in sessions
      <4>1. answers' = answers \cup {Answer(a, TRUE)}
        BY <2>1, <2>a, <3>1
      <4> QED
        BY <4>1, RequestFacts
    <3>2. CASE a \notin sessions
      <4>1. answers' = answers \cup {Answer(a, FALSE)}
        BY <2>1, <2>a, <3>2
      <4> QED
        BY <4>1, RequestFacts
    <3> QED
      BY <3>1, <3>2
  <2> QED
    BY <2>1, <2>2, <2>4, <2>5, ServerStep
<1>5. ASSUME NEW a \in Attempts, StopRequest(a)  PROVE Handed'
  <2>1. /\ wire' = wire \ {Delete(a)} /\ sessions' = sessions \ {a}
        /\ UNCHANGED <<pageVars, answers, lost, create>>
    BY <1>5, StopLeaves DEF StopRequest
  <2>2. page' = page /\ viewerKey' = viewerKey /\ isOpen' = isOpen
    BY <2>1 DEF pageVars
  <2>3. Sure(a)'
    BY <2>1, <2>2, <1>s, RequestFacts
       DEF Sure, Fresh, Asked, Told, Known, Kept, KnowsSession, Current
  <2> QED
    BY <2>1, <2>3, RequestFacts, ServerStep
<1>6. ASSUME NEW a \in Attempts, CleanupTimer(a) \/ FfmpegEnds(a) \/ HandleClosed(a)
      PROVE  Handed'
  <2>1. sessions' = sessions \ {a} /\ UNCHANGED <<pageVars, wire, answers, lost, create>>
    BY <1>6, StopLeaves DEF CleanupTimer, FfmpegEnds, HandleClosed, netVars
  <2>2. page' = page /\ viewerKey' = viewerKey /\ isOpen' = isOpen
    BY <2>1 DEF pageVars
  <2>3. Sure(a)'
    BY <2>1, <2>2, <1>s DEF Sure, Fresh, Asked, Told, Known, Kept, KnowsSession, Current
  <2> QED
    BY <2>1, <2>3, ServerStep
<1>7. ASSUME NEW a \in Attempts, HandleOffer(a)  PROVE Handed'
  <2>1. /\ create' = [create EXCEPT ![a] = IF @ = "waiting" THEN "offered" ELSE @]
        /\ UNCHANGED <<pageVars, wire, answers, lost, sessions>>
    BY <1>7 DEF HandleOffer, netVars
  <2>2. /\ create'[a] = "no" <=> create[a] = "no"
        /\ \A b \in Attempts : b # a => create'[b] = create[b]
    BY <2>1, <1>t
  <2>3. page' = page /\ viewerKey' = viewerKey /\ isOpen' = isOpen
    BY <2>1 DEF pageVars
  <2>4. Sure(a)'
    BY <2>1, <2>2, <2>3, <1>s DEF Sure, Fresh, Asked, Told, Known, Kept, KnowsSession, Current
  <2> QED
    BY <2>1, <2>2, <2>4, ServerStep
<1>8. ASSUME HandleReady \/ HandleExit  PROVE Handed'
  BY <1>8, NothingHands DEF HandleReady, HandleExit
<1> QED
  BY <1>1, <1>2, <1>3, <1>4, <1>5, <1>6, <1>7, <1>8 DEF Server

(* A step of the page for one attempt, while the player stays as it is.    *)
LEMMA PlayerStep ==
  ASSUME Handed, UNCHANGED <<isOpen, viewerKey, sessions, create>>, NEW a \in Attempts, Sure(a)',
         media' => viewerKey' \in Attempts /\ KnowsSession(viewerKey)',
         \A b \in Attempts : b # a =>
           /\ page'[b] = page[b] /\ (b \in lost' <=> b \in lost)
           /\ Post(b) \in wire' <=> Post(b) \in wire
           /\ Delete(b) \in wire' <=> Delete(b) \in wire
           /\ Answer(b, TRUE) \in answers' <=> Answer(b, TRUE) \in answers
           /\ Answer(b, FALSE) \in answers' <=> Answer(b, FALSE) \in answers
  PROVE  Handed'
<1>1. \A b \in Attempts : b # a => Same(b)
  BY DEF Same, Current
<1> QED
  BY <1>1, OwnStep

(* What the cleanup of the latest attempt sends.                           *)
LEMMA CleanupSends ==
  ASSUME viewerKey \in Attempts
  PROVE  \A b \in Attempts :
           /\ Post(b) \in wire \cup CleanupStops <=> Post(b) \in wire
           /\ Delete(b) \in wire \cup CleanupStops <=>
                Delete(b) \in wire \/ (b = viewerKey /\ KnowsSession(b))
BY RequestFacts DEF CleanupStops

LEMMA OpenHands ==
  ASSUME Inv, Begun, Handed, OpenPlayer
  PROVE  Handed'
<1>t. page \in [Attempts -> Phases] /\ viewerKey \in 0..MaxAttempts
  BY Parts DEF PageTyped
<1>s. \A a \in Attempts : Sure(a)
  BY DEF Handed
<1>n. PICK n \in Attempts : n = viewerKey + 1
  BY <1>t, ViewersAssumption DEF OpenPlayer, Attempts
<1>1. /\ ~isOpen /\ isOpen' = TRUE /\ viewerKey' = n
      /\ page' = [page EXCEPT ![n] = "offering"]
      /\ UNCHANGED <<media, wire, answers, lost, sessions, create>>
  BY <1>n DEF OpenPlayer, netVars, serverVars
<1>2. viewerKey < n /\ ~(n < n) /\ \A b \in Attempts : n < b => viewerKey < b
  BY <1>n, <1>t DEF Attempts
<1>3. page'[n] = "offering" /\ \A b \in Attempts : b # n => page'[b] = page[b]
  BY <1>1, <1>t
<1>4. \A b \in Attempts : b # n => Same(b)
  BY <1>1, <1>2, <1>3 DEF Same, Current
<1>5. page[n] = "unused" /\ Sure(n)
  BY <1>2, <1>s DEF Sure, Fresh
<1>6. Sure(n)'
  BY <1>1, <1>2, <1>3, <1>5
     DEF Sure, Fresh, Asked, Told, Known, Kept, KnowsSession
<1>7. media' => viewerKey' \in Attempts /\ KnowsSession(viewerKey)'
  BY <1>1 DEF Handed, Sure, Known, Current
<1> QED
  BY <1>4, <1>6, <1>7, OwnStep

LEMMA CloseHands ==
  ASSUME Inv, Begun, Handed, ClosePlayer
  PROVE  Handed'
<1>t. page \in [Attempts -> Phases] /\ viewerKey \in Attempts
  BY Parts, ViewersAssumption DEF PageTyped, Begun, Attempts, ClosePlayer
<1>s. \A a \in Attempts : Sure(a)
  BY DEF Handed
<1>1. /\ isOpen /\ isOpen' = FALSE /\ media' = FALSE /\ viewerKey' = viewerKey
      /\ page' = [page EXCEPT ![viewerKey] = CleanedUp]
      /\ wire' = wire \cup CleanupStops
      /\ UNCHANGED <<answers, lost, sessions, create>>
  BY DEF ClosePlayer, serverVars
<1>2. \A b \in Attempts :
        /\ Post(b) \in wire' <=> Post(b) \in wire
        /\ Delete(b) \in wire' <=> Delete(b) \in wire \/ (b = viewerKey /\ KnowsSession(b))
  BY <1>1, <1>t, CleanupSends
<1>3. /\ page'[viewerKey] = IF KnowsSession(viewerKey) THEN "over" ELSE page[viewerKey]
      /\ \A b \in Attempts : b # viewerKey => page'[b] = page[b]
  BY <1>1, <1>t DEF CleanedUp
<1>4. \A b \in Attempts : b # viewerKey => Same(b)
  BY <1>1, <1>2, <1>3 DEF Same, Current
<1>5. Sure(viewerKey)'
  BY <1>1, <1>2, <1>3, <1>s, <1>t
     DEF Sure, Fresh, Asked, Told, Known, Kept, KnowsSession
<1> QED
  BY <1>1, <1>t, <1>4, <1>5, OwnStep

LEMMA NextAttemptHands ==
  ASSUME Inv, Begun, Handed, NextAttempt
  PROVE  Handed'
<1>t. page \in [Attempts -> Phases] /\ viewerKey \in Attempts
  BY Parts, ViewersAssumption DEF PageTyped, Begun, Attempts, NextAttempt
<1>s. \A a \in Attempts : Sure(a)
  BY DEF Handed
<1>k. PICK k \in Attempts : k = viewerKey
  BY <1>t
<1>n. PICK n \in Attempts : n = viewerKey + 1
  BY <1>t, ViewersAssumption DEF NextAttempt, Attempts
<1>1. /\ isOpen /\ isOpen' = TRUE /\ media' = FALSE /\ viewerKey' = n
      /\ page' = [page EXCEPT ![k] = CleanedUp, ![n] = "offering"]
      /\ wire' = wire \cup CleanupStops
      /\ UNCHANGED <<answers, lost, sessions, create>>
  BY <1>k, <1>n, Parts DEF NextAttempt, serverVars, PageTyped
<1>2. /\ n # k /\ ~(n < k) /\ ~(n < n) /\ k < n
      /\ \A b \in Attempts : n < b => viewerKey < b
  BY <1>k, <1>n DEF Attempts
<1>3. \A b \in Attempts :
        /\ Post(b) \in wire' <=> Post(b) \in wire
        /\ Delete(b) \in wire' <=> Delete(b) \in wire \/ (b = k /\ KnowsSession(b))
  BY <1>1, <1>t, <1>k, CleanupSends
<1>4. /\ page'[k] = IF KnowsSession(k) THEN "over" ELSE page[k]
      /\ page'[n] = "offering"
      /\ \A b \in Attempts : b # k /\ b # n => page'[b] = page[b]
  BY <1>1, <1>2, <1>k, <1>t DEF CleanedUp
<1>5. \A b \in Attempts : b # k /\ b # n => Same(b)
  BY <1>1, <1>2, <1>3, <1>4, <1>k DEF Same, Current
<1>6. Sure(k)'
  <2>1. Sure(k)
    BY <1>s
  <2>2. CASE KnowsSession(k)
    <3>1. page'[k] = "over" /\ Delete(k) \in wire'
      BY <1>3, <1>4, <2>2
    <3>2. Post(k) \in wire' => k \in lost
      BY <1>3, <2>1, <2>2 DEF Sure, Asked, KnowsSession
    <3> QED
      BY <1>1, <1>2, <1>3, <2>1, <3>1, <3>2
         DEF Sure, Fresh, Asked, Told, Known, Kept, KnowsSession
  <2>3. CASE ~KnowsSession(k)
    <3>1. page'[k] = page[k] /\ (Delete(k) \in wire' <=> Delete(k) \in wire)
      BY <1>3, <1>4, <2>3
    <3> QED
      BY <1>1, <1>2, <1>3, <2>1, <2>3, <3>1
         DEF Sure, Fresh, Asked, Told, Known, Kept, KnowsSession
  <2> QED
    BY <2>2, <2>3
<1>7. Sure(n)'
  <2>1. page[n] = "unused" /\ Sure(n)
    BY <1>2, <1>k, <1>s DEF Sure, Fresh
  <2> QED
    BY <1>1, <1>2, <1>3, <1>4, <2>1
       DEF Sure, Fresh, Asked, Told, Known, Kept, KnowsSession
<1>8. \A b \in Attempts : Sure(b)'
  <2> SUFFICES ASSUME NEW b \in Attempts, b # k, b # n  PROVE Sure(b)'
    BY <1>6, <1>7, Zenon
  <2> QED
    BY <1>5, <1>s, SameSure
<1> QED
  BY <1>1, <1>8 DEF Handed

LEMMA PageHands ==
  ASSUME Inv, Begun, Handed, Page
  PROVE  Handed'
<1>t. page \in [Attempts -> Phases] /\ viewerKey \in 0..MaxAttempts
  BY Parts DEF PageTyped
<1>s. /\ \A a \in Attempts : Sure(a)
      /\ media => viewerKey \in Attempts /\ KnowsSession(viewerKey)
  BY DEF Handed
<1>1. ASSUME LosePage  PROVE Handed'
  <2>1. /\ isOpen' = FALSE /\ media' = FALSE /\ page' = [page EXCEPT ![viewerKey] = "over"]
        /\ lost' = lost \cup {viewerKey}
        /\ UNCHANGED <<viewerKey, wire, answers, sessions, create>>
    BY <1>1 DEF LosePage, serverVars
  <2>2. viewerKey \in Attempts /\ isOpen
    BY <1>1, <1>t DEF LosePage, Begun, Attempts
  <2>3. page'[viewerKey] = "over" /\ \A b \in Attempts : b # viewerKey => page'[b] = page[b]
    BY <2>1, <2>2, <1>t
  <2>4. \A b \in Attempts : b # viewerKey => Same(b)
    BY <2>1, <2>3 DEF Same, Current
  <2>4a. ~(viewerKey < viewerKey) /\ Sure(viewerKey)
    BY <2>2, <1>s, <1>t
  <2>5. Sure(viewerKey)'
    BY <2>1, <2>2, <2>3, <2>4a
       DEF Sure, Fresh, Asked, Told, Known, Kept, KnowsSession
  <2> QED
    BY <2>1, <2>2, <2>4, <2>5, OwnStep
<1>2. ASSUME NEW a \in Attempts, SendPost(a)  PROVE Handed'
  <2>1. /\ page[a] = "offering" /\ page' = [page EXCEPT ![a] = "posted"]
        /\ wire' = wire \cup {Post(a)}
        /\ UNCHANGED <<isOpen, viewerKey, media, answers, lost, sessions, create>>
    BY <1>2 DEF SendPost, serverVars
  <2>2. page'[a] = "posted" /\ \A b \in Attempts : b # a => page'[b] = page[b]
    BY <2>1, <1>t
  <2>3. Sure(a)'
    BY <2>1, <2>2, <1>s, RequestFacts
       DEF Sure, Fresh, Asked, Told, Known, Kept, KnowsSession
  <2>4. media' => viewerKey' \in Attempts /\ KnowsSession(viewerKey)'
    BY <2>1, <2>2, <1>s DEF KnowsSession
  <2> QED
    BY <2>1, <2>2, <2>3, <2>4, RequestFacts, PlayerStep
<1>3. ASSUME NEW a \in Attempts, NoOffer(a)  PROVE Handed'
  <2>1. /\ page[a] = "offering" /\ page' = [page EXCEPT ![a] = "over"]
        /\ UNCHANGED <<isOpen, viewerKey, media, wire, answers, lost, sessions, create>>
    BY <1>3 DEF NoOffer, serverVars, netVars
  <2>2. page'[a] = "over" /\ \A b \in Attempts : b # a => page'[b] = page[b]
    BY <2>1, <1>t
  <2>3. Sure(a)'
    BY <2>1, <2>2, <1>s DEF Sure, Fresh, Asked, Told, Known, Kept, KnowsSession
  <2>4. media' => viewerKey' \in Attempts /\ KnowsSession(viewerKey)'
    BY <2>1, <2>2, <1>s DEF KnowsSession
  <2> QED
    BY <2>1, <2>2, <2>3, <2>4, PlayerStep
<1>4. ASSUME NEW a \in Attempts, Created(a)  PROVE Handed'
  <2>1. /\ Answer(a, TRUE) \in answers /\ page[a] = "posted"
        /\ answers' = answers \ {Answer(a, TRUE)}
        /\ UNCHANGED <<isOpen, viewerKey, lost, sessions, create>>
    BY <1>4 DEF Created, serverVars
  <2>2. \A b \in Attempts : b # a =>
          /\ Answer(b, TRUE) \in answers' <=> Answer(b, TRUE) \in answers
          /\ Answer(b, FALSE) \in answers' <=> Answer(b, FALSE) \in answers
    BY <2>1, RequestFacts
  <2>3. CASE /\ ~Current(a) /\ page' = [page EXCEPT ![a] = "over"]
             /\ wire' = wire \cup {Delete(a)} /\ media' = media
    <3>1. page'[a] = "over" /\ \A b \in Attempts : b # a => page'[b] = page[b]
      BY <2>3, <1>t
    <3>2. Sure(a)'
      BY <2>1, <2>3, <3>1, <1>s, RequestFacts
         DEF Sure, Fresh, Asked, Told, Known, Kept, KnowsSession
    <3>3. media' => viewerKey' \in Attempts /\ KnowsSession(viewerKey)'
      BY <2>1, <2>3, <3>1, <1>s DEF KnowsSession
    <3> QED
      BY <2>1, <2>2, <2>3, <3>1, <3>2, <3>3, RequestFacts, PlayerStep
  <2>4. CASE /\ Current(a) /\ wire' = wire
             /\ \/ page' = [page EXCEPT ![a] = "watching"]
                \/ page' = [page EXCEPT ![a] = "broken"]
    <3>1. /\ page'[a] \in {"watching", "broken"}
          /\ \A b \in Attempts : b # a => page'[b] = page[b]
      BY <2>4, <1>t
    <3>2. Current(a)' /\ a = viewerKey'
      BY <2>1, <2>4 DEF Current
    <3>3. Sure(a)'
      BY <2>1, <2>4, <3>1, <3>2, <1>s, RequestFacts
         DEF Sure, Fresh, Asked, Told, Known, Kept, KnowsSession
    <3>4. media' => viewerKey' \in Attempts /\ KnowsSession(viewerKey)'
      BY <3>1, <3>2 DEF KnowsSession
    <3> QED
      BY <2>1, <2>2, <2>4, <3>1, <3>3, <3>4, PlayerStep
  <2> QED
    BY <1>4, <2>3, <2>4 DEF Created
<1>5. ASSUME NEW a \in Attempts, Refused(a)  PROVE Handed'
  <2>1. /\ Answer(a, FALSE) \in answers /\ page[a] = "posted"
        /\ answers' = answers \ {Answer(a, FALSE)} /\ page' = [page EXCEPT ![a] = "over"]
        /\ UNCHANGED <<isOpen, viewerKey, media, wire, lost, sessions, create>>
    BY <1>5 DEF Refused, serverVars
  <2>2. page'[a] = "over" /\ \A b \in Attempts : b # a => page'[b] = page[b]
    BY <2>1, <1>t
  <2>3. Sure(a)'
    BY <2>1, <2>2, <1>s, RequestFacts
       DEF Sure, Fresh, Asked, Told, Known, Kept, KnowsSession
  <2>4. media' => viewerKey' \in Attempts /\ KnowsSession(viewerKey)'
    BY <2>1, <2>2, <1>s DEF KnowsSession
  <2> QED
    BY <2>1, <2>2, <2>3, <2>4, RequestFacts, PlayerStep
<1>6. ASSUME NEW a \in Attempts, UNCHANGED <<isOpen, viewerKey, netVars, serverVars>>,
             KnowsSession(a), media' => media,
             \/ page' = [page EXCEPT ![a] = "live"]
             \/ page' = [page EXCEPT ![a] = "broken"]
      PROVE  Handed'
  <2>1. UNCHANGED <<wire, answers, lost, sessions, create>>
    BY <1>6 DEF netVars, serverVars
  <2>2. page'[a] \in {"live", "broken"} /\ \A b \in Attempts : b # a => page'[b] = page[b]
    BY <1>6, <1>t
  <2>3. Current(a)'
    BY <1>6, <1>s DEF Sure, Known, Current
  <2>4. Sure(a)'
    BY <1>6, <2>1, <2>2, <2>3, <1>s DEF Sure, Fresh, Asked, Told, Known, Kept, KnowsSession
  <2>5. media' => viewerKey' \in Attempts /\ KnowsSession(viewerKey)'
    BY <1>6, <2>2, <1>s DEF KnowsSession
  <2> QED
    BY <1>6, <2>1, <2>2, <2>4, <2>5, PlayerStep
<1>7. ASSUME NEW a \in Attempts, Connects(a) \/ ConnectionFails(a)  PROVE Handed'
  <2>1. /\ UNCHANGED <<isOpen, viewerKey, netVars, serverVars, media>> /\ KnowsSession(a)
        /\ \/ page' = [page EXCEPT ![a] = "live"]
           \/ page' = [page EXCEPT ![a] = "broken"]
    BY <1>7 DEF Connects, ConnectionFails, KnowsSession
  <2> QED
    BY <2>1, <1>6
<1>8. ASSUME MediaTimer  PROVE Handed'
  <2>1. media /\ media' = FALSE /\ UNCHANGED <<isOpen, viewerKey, netVars, serverVars>>
    BY <1>8 DEF MediaTimer
  <2>2. viewerKey \in Attempts /\ KnowsSession(viewerKey)
    BY <2>1, <1>s
  <2>3. CASE page[viewerKey] = "live" /\ page' = page
    <3>1. page' = [page EXCEPT ![viewerKey] = "live"]
      BY <2>2, <2>3, <1>t
    <3> QED
      BY <2>1, <2>2, <3>1, <1>6
  <2>4. CASE page' = [page EXCEPT ![viewerKey] = "broken"]
    BY <2>1, <2>2, <2>4, <1>6
  <2> QED
    BY <1>8, <2>3, <2>4 DEF MediaTimer
<1>9. ASSUME NEW a \in Attempts, Lose(a)  PROVE Handed'
  <2>1. /\ lost' = lost \cup {a}
        /\ UNCHANGED <<isOpen, viewerKey, media, sessions, create>>
    BY <1>9 DEF Lose, serverVars
  <2>2. CASE wire' = wire \ {Delete(a)} /\ UNCHANGED <<answers, page>>
    <3>1. Sure(a)'
      BY <2>1, <2>2, <1>s, RequestFacts
         DEF Sure, Fresh, Asked, Told, Known, Kept, KnowsSession, Current
    <3>2. media' => viewerKey' \in Attempts /\ KnowsSession(viewerKey)'
      BY <2>1, <2>2, <1>s DEF KnowsSession
    <3> QED
      BY <2>1, <2>2, <3>1, <3>2, RequestFacts, PlayerStep
  <2>3. CASE /\ page[a] = "posted" /\ wire' = wire \ {Post(a)}
             /\ page' = [page EXCEPT ![a] = "over"] /\ answers' = answers
    <3>1. page'[a] = "over" /\ \A b \in Attempts : b # a => page'[b] = page[b]
      BY <2>3, <1>t
    <3>2. Sure(a)'
      BY <2>1, <2>3, <3>1, <1>s, RequestFacts
         DEF Sure, Fresh, Asked, Told, Known, Kept, KnowsSession
    <3>3. media' => viewerKey' \in Attempts /\ KnowsSession(viewerKey)'
      BY <2>1, <2>3, <3>1, <1>s DEF KnowsSession
    <3> QED
      BY <2>1, <2>3, <3>1, <3>2, <3>3, RequestFacts, PlayerStep
  <2> QED
    BY <1>9, <2>2, <2>3 DEF Lose
<1>10. ASSUME NEW a \in Attempts, StrayTimer(a)  PROVE Handed'
  <2>1. CASE NextAttempt
    BY <2>1, NextAttemptHands
  <2>2. CASE UNCHANGED <<isOpen, viewerKey, page, media, netVars, serverVars>>
    <3>1. UNCHANGED <<wire, answers, lost, sessions, create>>
      BY <2>2 DEF netVars, serverVars
    <3>2. \A b \in Attempts : Same(b)
      BY <2>2, <3>1 DEF Same, Current
    <3>3. \A b \in Attempts : Sure(b)'
      BY <3>2, <1>s, SameSure
    <3> QED
      BY <2>2, <3>3, <1>s DEF Handed, KnowsSession
  <2> QED
    BY <1>10, <2>1, <2>2 DEF StrayTimer
<1> QED
  BY <1>1, <1>2, <1>3, <1>4, <1>5, <1>7, <1>8, <1>9, <1>10, OpenHands, CloseHands,
     NextAttemptHands DEF Page, RetryTimer

(* The hand-over between page and server is right in every state: the      *)
(* inductive invariant behind LetsGo.                                      *)
THEOREM AlwaysHanded == Spec => []Handed
<1>1. Init => Handed
  <2> SUFFICES ASSUME Init  PROVE Handed
    OBVIOUS
  <2>1. \A a \in Attempts : page[a] = "unused" /\ create[a] = "no"
    BY DEF Init
  <2>2. \A a \in Attempts : Sure(a)
    BY <2>1 DEF Init, Sure, Fresh, Asked, Told, Known, Kept, KnowsSession
  <2> QED
    BY <2>2 DEF Init, Handed
<1>2. Inv /\ Begun /\ Handed /\ [Next]_vars => Handed'
  <2> SUFFICES ASSUME Inv, Begun, Handed, [Next]_vars  PROVE Handed'
    OBVIOUS
  <2>1. CASE Engine
    <3>1. UNCHANGED <<pageVars, netVars, serverVars>>
      BY <2>1 DEF Engine, Boot, Die, HandleStart, Rejected, HandleStop, PeerAnswers, PeerFails
    <3> QED
      BY <3>1, NothingHands
  <2>2. CASE UNCHANGED vars
    BY <2>2, NothingHands DEF vars
  <2> QED
    BY <2>1, <2>2, PageHands, ServerHands DEF Next
<1> QED
  BY <1>1, <1>2, ViewersInductive, PTL DEF Spec

(* Whenever the player closes, reloads or retries around an answer         *)
(* (VideoPlayerModal.tsx), a session that no page watches is about to be   *)
(* stopped by the page, or its attempt lost a request: none is left to the *)
(* cleanup timer.                                                          *)
THEOREM NoSessionIsLeft == Spec => []LetsGo
<1>1. Inv /\ Handed => LetsGo
  <2> SUFFICES ASSUME Inv, Handed, NEW a \in sessions, a \notin lost, ~Current(a)
               PROVE  page[a] = "posted" \/ Delete(a) \in wire
    BY DEF LetsGo
  <2>1. a \in Attempts
    BY Parts DEF ServerTyped
  <2> QED
    BY <2>1 DEF Handed, Sure, Known, Kept
<1> QED
  BY <1>1, ViewersInductive, AlwaysHanded, PTL
===============================================================================
