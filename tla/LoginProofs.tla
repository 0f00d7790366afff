---------------------------- MODULE LoginProofs ----------------------------
(***************************************************************************)
(* Proofs about Login for any regions, users, cookies and bounds: the      *)
(* state is well typed, and the session in memory is the one stored, on    *)
(* the way to the database, due to be saved, or its last save failed.      *)
(*                                                                         *)
(* Saves are written in the order they began, so that the last one decides *)
(* what is stored in the end (LastWrite); a step that changes the session  *)
(* of somebody who stays logged in begins a save or sets the timer.        *)
(***************************************************************************)
EXTENDS Login, TLAPS, SequenceTheorems

MemTyped ==
  /\ host \in Regions /\ cookies \in Cookies \cup {None}
  /\ loginResult \in Users \cup {None} /\ currentQr \in Tokens \cup {None}
  /\ saveTimer \in BOOLEAN

DiskTyped ==
  /\ saves \in Seq(Save) /\ stored \in Session \cup {None}
  /\ failed \in BOOLEAN /\ (failed => saves = <<>>)

CallsTyped ==
  /\ calling \in BOOLEAN
  /\ starts \in [Starts -> StartCall \cup {Idle}]
  /\ polls \in [Polls -> PollCall \cup {Idle}]

RestTyped ==
  /\ tokens \in [Tokens -> [region : Regions \cup {None}, by : Users \cup {None}]]
  /\ modal \in [open : BOOLEAN, region : Regions, token : Tokens \cup {None}]
  /\ restarts \in 0..MaxRestarts

LEMMA Parts == TypeOK <=> MemTyped /\ DiskTyped /\ CallsTyped /\ RestTyped
BY DEF TypeOK, MemTyped, DiskTyped, CallsTyped, RestTyped

LEMMA PartsNext ==
  ASSUME MemTyped', DiskTyped', CallsTyped', RestTyped'
  PROVE  TypeOK'
BY DEF TypeOK, MemTyped, DiskTyped, CallsTyped, RestTyped

(* A save that begins is the last write.                                   *)
LEMMA BeganSave ==
  ASSUME MemTyped, DiskTyped, NEW u \in Users, NEW c \in Cookies \cup {None},
         NEW p \in Polls \cup {None}, BeginSave(u, c, p), stored' = stored
  PROVE  DiskTyped' /\ LastWrite' = Snapshot(u, c)
<1> DEFINE e == [session |-> Snapshot(u, c), poll |-> p]
<1>1. e \in Save
  BY DEF MemTyped, Snapshot, Session, Save
<1>2. saves' = Append(saves, e) /\ failed' = FALSE
  BY DEF BeginSave
<1>3. e.session = Snapshot(u, c)
  OBVIOUS
<1> HIDE DEF e
<1>4. /\ saves' \in Seq(Save) /\ saves' # <<>> /\ Len(saves') = Len(saves) + 1
      /\ saves'[Len(saves) + 1] = e
  BY <1>1, <1>2, AppendProperties DEF DiskTyped
<1>5. LastWrite' = Snapshot(u, c)
  BY <1>3, <1>4 DEF LastWrite
<1> QED
  BY <1>2, <1>4, <1>5 DEF DiskTyped

(* The oldest save is written: the last write stays what it was.           *)
LEMMA OldestWritten ==
  ASSUME DiskTyped, saves # <<>>, stored' = Head(saves).session, saves' = Tail(saves),
         failed' = failed
  PROVE  DiskTyped' /\ LastWrite' = LastWrite
<1>1. /\ Head(saves) \in Save /\ Tail(saves) \in Seq(Save)
      /\ Len(Tail(saves)) = Len(saves) - 1
      /\ \A i \in 1..Len(Tail(saves)) : Tail(saves)[i] = saves[i + 1]
  BY HeadTailProperties DEF DiskTyped
<1>2. Len(saves) \in Nat \ {0} /\ Head(saves) = saves[1]
  BY EmptySeq DEF DiskTyped
<1>3. stored' \in Session
  BY <1>1 DEF Save
<1>4. CASE Tail(saves) = <<>>
  <2>1. Len(saves) = 1
    BY <1>1, <1>2, <1>4, EmptySeq
  <2> QED
    BY <2>1, <1>1, <1>2, <1>3, <1>4 DEF LastWrite, DiskTyped
<1>5. CASE Tail(saves) # <<>>
  <2>1. Len(Tail(saves)) \in Nat \ {0}
    BY <1>1, <1>5, EmptySeq
  <2>2. Tail(saves)[Len(Tail(saves))] = saves[Len(saves)]
    BY <2>1, <1>1, <1>2
  <2> QED
    BY <2>2, <1>1, <1>3, <1>5 DEF LastWrite, DiskTyped
<1> QED
  BY <1>4, <1>5

(* The oldest save fails: the last write stays what it was, or is what     *)
(* failed.                                                                 *)
LEMMA OldestFailed ==
  ASSUME DiskTyped, saves # <<>>, saves' = Tail(saves), failed' = (Len(saves) = 1),
         stored' = stored
  PROVE  DiskTyped' /\ (LastWrite' = LastWrite \/ failed')
<1>1. /\ Tail(saves) \in Seq(Save)
      /\ Len(Tail(saves)) = Len(saves) - 1
      /\ \A i \in 1..Len(Tail(saves)) : Tail(saves)[i] = saves[i + 1]
  BY HeadTailProperties DEF DiskTyped
<1>2. Len(saves) \in Nat \ {0}
  BY EmptySeq DEF DiskTyped
<1>3. DiskTyped'
  BY <1>1, <1>2, EmptySeq DEF DiskTyped
<1>4. CASE Len(saves) = 1
  BY <1>3, <1>4
<1>5. CASE Len(saves) # 1
  <2>1. Len(Tail(saves)) \in Nat \ {0}
    BY <1>1, <1>2, <1>5
  <2>2. Tail(saves) # <<>>
    BY <2>1, EmptySeq
  <2>3. Tail(saves)[Len(Tail(saves))] = saves[Len(saves)]
    BY <2>1, <1>1, <1>2
  <2>4. LastWrite' = LastWrite
    BY <2>2, <2>3 DEF LastWrite
  <2> QED
    BY <2>4, <1>3
<1> QED
  BY <1>4, <1>5

(* An answer taken by the jar keeps the session of whoever is logged in,   *)
(* or sets the timer.                                                      *)
LEMMA CookieTaken ==
  ASSUME MemTyped, Persisted, NEW c \in AfterAnswer, TakeCookie(c),
         UNCHANGED <<host, loginResult>>
  PROVE  /\ cookies' \in Cookies \cup {None} /\ saveTimer' \in BOOLEAN
         /\ UNCHANGED diskVars => Persisted'
<1>1. cookies' = c /\ c \in Cookies \cup {None}
  BY DEF TakeCookie, AfterAnswer, MemTyped
<1>2. saveTimer' \in BOOLEAN
  BY DEF TakeCookie, MemTyped
<1>3. ASSUME UNCHANGED diskVars  PROVE Persisted'
  <2>1. LastWrite' = LastWrite /\ failed' = failed
    BY <1>3 DEF LastWrite, diskVars
  <2>2. CASE c = cookies
    <3>1. cookies' = cookies /\ saveTimer' = saveTimer
      BY <2>2 DEF TakeCookie, MemTyped
    <3> QED
      BY <3>1, <2>1 DEF Persisted, Snapshot
  <2>3. CASE c # cookies
    BY <2>3 DEF TakeCookie, Persisted
  <2> QED
    BY <2>2, <2>3
<1> QED
  BY <1>1, <1>2, <1>3

(* Nobody is logged in: nothing has to be stored.                          *)
LEMMA NobodyIn ==
  ASSUME loginResult' = None
  PROVE  Persisted'
BY DEF Persisted

(* Forgetting the session, and another region.                             *)
LEMMA ExpireKeeps ==
  ASSUME MemTyped, DiskTyped, Expire
  PROVE  MemTyped' /\ DiskTyped' /\ Persisted'
<1>1. saveTimer' \in BOOLEAN
  BY DEF Expire, MemTyped
<1>2. MemTyped' /\ DiskTyped'
  BY <1>1 DEF Expire, Forget, MemTyped, DiskTyped
<1> QED
  BY <1>2, NobodyIn DEF Expire, Forget

LEMMA SetRegionKeeps ==
  ASSUME MemTyped, Persisted, NEW r \in Regions, SetRegion(r),
         UNCHANGED <<saveTimer, diskVars>>
  PROVE  MemTyped' /\ Persisted'
<1>1. CASE r = host
  <2>1. UNCHANGED <<host, cookies, loginResult, currentQr>>
    BY <1>1 DEF SetRegion
  <2> QED
    BY <2>1 DEF MemTyped, Persisted, LastWrite, Snapshot, diskVars
<1>2. CASE r # host
  BY <1>2, NobodyIn DEF SetRegion, MemTyped
<1> QED
  BY <1>1, <1>2

(* A login begins the save of itself.                                      *)
LEMMA LogInKeeps ==
  ASSUME TypeOK, NEW p \in Polls, polls[p] \in PollCall, NEW u \in Users, LogIn(p, u)
  PROVE  TypeOK' /\ Persisted'
<1>1. PICK c \in AfterAnswer : TakeCookie(c) /\ BeginSave(u, c, p)
  BY DEF LogIn
<1>2. cookies' = c /\ c \in Cookies \cup {None} /\ saveTimer' \in BOOLEAN
  BY <1>1, Parts DEF TakeCookie, AfterAnswer, MemTyped
<1>3. host' = host /\ loginResult' = u /\ currentQr' = None /\ stored' = stored
      /\ polls' = [polls EXCEPT ![p].at = "saving"]
      /\ UNCHANGED <<starts, calling, tokens, modal, restarts>>
  BY DEF LogIn
<1>4. MemTyped'
  BY <1>2, <1>3, Parts DEF MemTyped
<1>5. DiskTyped' /\ LastWrite' = Snapshot(u, c)
  BY <1>1, <1>2, <1>3, Parts, BeganSave
<1>6. CallsTyped' /\ RestTyped'
  BY <1>3, Parts DEF CallsTyped, RestTyped, PollCall
<1>7. Persisted'
  BY <1>2, <1>3, <1>5 DEF Persisted, Snapshot
<1> QED
  BY <1>4, <1>5, <1>6, <1>7, PartsNext

(* The two facts about the specification.                                  *)
LEMMA InitSound == Init => TypeOK /\ Persisted
<1> SUFFICES ASSUME Init  PROVE TypeOK /\ Persisted
  OBVIOUS
<1>1. MemTyped /\ CallsTyped /\ Persisted
  BY DEF Init, MemTyped, CallsTyped, Persisted
<1>2. DiskTyped
  BY EmptySeq DEF Init, DiskTyped
<1>3. RestTyped
  BY LoginAssumption DEF Init, RestTyped
<1> QED
  BY <1>1, <1>2, <1>3, Parts

LEMMA StepSound ==
  ASSUME TypeOK, Persisted, [Next]_vars
  PROVE  TypeOK' /\ Persisted'
<1>t. MemTyped /\ DiskTyped /\ CallsTyped /\ RestTyped
  BY Parts
<1>1. ASSUME SaveTimer  PROVE TypeOK' /\ Persisted'
  <2>1. UNCHANGED <<host, cookies, loginResult, currentQr, stored>> /\ saveTimer' = FALSE
    BY <1>1 DEF SaveTimer
  <2>2. MemTyped'
    BY <2>1, <1>t DEF MemTyped
  <2>3. CallsTyped' /\ RestTyped'
    BY <1>1, <1>t DEF SaveTimer, CallsTyped, RestTyped, callVars
  <2>4. CASE loginResult = None
    <3>1. DiskTyped'
      BY <1>1, <2>1, <2>4, <1>t DEF SaveTimer, DiskTyped
    <3> QED
      BY <3>1, <2>1, <2>2, <2>3, <2>4, NobodyIn, PartsNext
  <2>5. CASE loginResult # None
    <3>1. BeginSave(loginResult, cookies, None) /\ loginResult \in Users
      BY <1>1, <2>5, <1>t DEF SaveTimer, MemTyped
    <3>2. DiskTyped' /\ LastWrite' = Snapshot(loginResult, cookies)
      BY <3>1, <2>1, <1>t, BeganSave DEF MemTyped
    <3>3. Persisted'
      BY <3>2, <2>1 DEF Persisted, Snapshot
    <3> QED
      BY <3>2, <3>3, <2>2, <2>3, PartsNext
  <2> QED
    BY <2>4, <2>5
<1>2. ASSUME Saved  PROVE TypeOK' /\ Persisted'
  <2>1. DiskTyped' /\ LastWrite' = LastWrite
    BY <1>2, <1>t, OldestWritten DEF Saved
  <2>2. MemTyped' /\ Persisted'
    BY <1>2, <1>t, <2>1 DEF Saved, MemTyped, memVars, Persisted, Snapshot
  <2>3. Head(saves) \in Save
    BY <1>2, <1>t, HeadTailProperties DEF Saved, DiskTyped
  <2>4. CallsTyped'
    BY <1>2, <1>t, <2>3 DEF Saved, CallsTyped, Save
  <2>5. RestTyped'
    BY <1>2, <1>t DEF Saved, RestTyped
  <2> QED
    BY <2>1, <2>2, <2>4, <2>5, PartsNext
<1>3. ASSUME NEW s \in Starts, NEW r \in Regions, FetchQr(s, r)  PROVE TypeOK' /\ Persisted'
  <2>1. SetRegion(r) /\ UNCHANGED <<saveTimer, diskVars>>
    BY <1>3 DEF FetchQr, StartFlow
  <2>2. MemTyped' /\ Persisted'
    BY <2>1, <1>t, SetRegionKeeps
  <2>3. DiskTyped' /\ CallsTyped' /\ RestTyped'
    BY <1>3, <2>1, <1>t DEF FetchQr, StartFlow, DiskTyped, CallsTyped, RestTyped, StartCall,
       diskVars
  <2> QED
    BY <2>2, <2>3, PartsNext
<1>4. ASSUME NEW s \in Starts, PageAnswered(s)  PROVE TypeOK' /\ Persisted'
  <2>1. PICK c \in AfterAnswer : TakeCookie(c)
    BY <1>4 DEF PageAnswered
  <2>2. UNCHANGED <<host, loginResult, currentQr, diskVars>>
    BY <1>4 DEF PageAnswered
  <2>3. MemTyped' /\ Persisted'
    BY <2>1, <2>2, <1>t, CookieTaken DEF MemTyped
  <2>4. DiskTyped' /\ CallsTyped' /\ RestTyped'
    BY <1>4, <2>2, <1>t DEF PageAnswered, DiskTyped, CallsTyped, RestTyped, StartCall, MemTyped,
       diskVars
  <2> QED
    BY <2>3, <2>4, PartsNext
<1>5. ASSUME NEW s \in Starts, TokenAnswered(s)  PROVE TypeOK' /\ Persisted'
  <2>1. PICK c \in AfterAnswer : TakeCookie(c)
    BY <1>5 DEF TokenAnswered
  <2>2. UNCHANGED <<host, loginResult, diskVars>>
    BY <1>5 DEF TokenAnswered
  <2>3. starts[s] \in StartCall
    BY <1>5, <1>t DEF TokenAnswered, CallsTyped, Idle
  <2>4. currentQr' \in Tokens \cup {None} /\ RestTyped'
    BY <1>5, <2>3, <1>t DEF TokenAnswered, RestTyped, MemTyped, StartCall
  <2>5. MemTyped' /\ Persisted'
    BY <2>1, <2>2, <2>4, <1>t, CookieTaken DEF MemTyped
  <2>6. DiskTyped' /\ CallsTyped'
    BY <1>5, <2>2, <1>t DEF TokenAnswered, DiskTyped, CallsTyped, diskVars
  <2> QED
    BY <2>4, <2>5, <2>6, PartsNext
<1>6. ASSUME NEW p \in Polls, Poll(p)  PROVE TypeOK' /\ Persisted'
  <2>1. MemTyped' /\ DiskTyped' /\ Persisted'
    BY <1>6, <1>t DEF Poll, MemTyped, DiskTyped, Persisted, LastWrite, Snapshot, memVars,
       diskVars
  <2>2. CallsTyped' /\ RestTyped'
    BY <1>6, <1>t DEF Poll, CallsTyped, RestTyped, PollCall, MemTyped
  <2> QED
    BY <2>1, <2>2, PartsNext
<1>7. ASSUME NEW p \in Polls, PollLogsIn(p)  PROVE TypeOK' /\ Persisted'
  <2>1. polls[p] \in PollCall
    BY <1>7, <1>t DEF PollLogsIn, CallsTyped, Idle
  <2>2. tokens[polls[p].token].by \in Users /\ LogIn(p, tokens[polls[p].token].by)
    BY <1>7, <1>t, <2>1 DEF PollLogsIn, RestTyped, PollCall
  <2> QED
    BY <2>1, <2>2, LogInKeeps
<1>8. ASSUME NEW p \in Polls, NEW u \in Users, InfoLogsIn(p, u)  PROVE TypeOK' /\ Persisted'
  <2>1. polls[p] \in PollCall
    BY <1>8, <1>t DEF InfoLogsIn, CallsTyped, Idle
  <2> QED
    BY <2>1, <1>8, LogInKeeps DEF InfoLogsIn
<1>9. ASSUME NEW p \in Polls, PollSucceeds(p) \/ PollFails(p)  PROVE TypeOK' /\ Persisted'
  <2>1. PICK c \in AfterAnswer : TakeCookie(c)
    BY <1>9 DEF PollSucceeds, PollFails
  <2>2. UNCHANGED <<host, loginResult, currentQr, diskVars>>
    BY <1>9 DEF PollSucceeds, PollFails
  <2>3. MemTyped' /\ Persisted'
    BY <2>1, <2>2, <1>t, CookieTaken DEF MemTyped
  <2>4. polls[p] \in PollCall
    BY <1>9, <1>t DEF PollSucceeds, PollFails, CallsTyped, Idle
  <2>5. CallsTyped'
    BY <1>9, <2>4, <1>t DEF PollSucceeds, PollFails, CallsTyped, PollCall, MemTyped
  <2>6. DiskTyped' /\ RestTyped'
    BY <1>9, <2>2, <1>t DEF PollSucceeds, PollFails, DiskTyped, RestTyped, diskVars
  <2> QED
    BY <2>3, <2>5, <2>6, PartsNext
<1>10. ASSUME NEW p \in Polls, InfoExpires(p)  PROVE TypeOK' /\ Persisted'
  <2>1. MemTyped' /\ DiskTyped' /\ Persisted'
    BY <1>10, <1>t, ExpireKeeps DEF InfoExpires
  <2>2. CallsTyped' /\ RestTyped'
    BY <1>10, <1>t DEF InfoExpires, CallsTyped, RestTyped, callVars
  <2> QED
    BY <2>1, <2>2, PartsNext
<1>11. ASSUME BeginCall  PROVE TypeOK' /\ Persisted'
  <2>1. MemTyped' /\ DiskTyped' /\ Persisted'
    BY <1>11, <1>t DEF BeginCall, MemTyped, DiskTyped, Persisted, LastWrite, Snapshot,
       memVars, diskVars
  <2>2. CallsTyped' /\ RestTyped'
    BY <1>11, <1>t DEF BeginCall, CallsTyped, RestTyped
  <2> QED
    BY <2>1, <2>2, PartsNext
<1>12. ASSUME CallAnswered  PROVE TypeOK' /\ Persisted'
  <2>1. CallsTyped' /\ RestTyped'
    BY <1>12, <1>t DEF CallAnswered, CallsTyped, RestTyped
  <2>2. CASE Expire
    BY <2>1, <2>2, <1>t, ExpireKeeps, PartsNext
  <2>3. CASE \E c \in AfterAnswer :
               TakeCookie(c) /\ UNCHANGED <<host, loginResult, currentQr, diskVars>>
    <3>1. PICK c \in AfterAnswer :
            TakeCookie(c) /\ UNCHANGED <<host, loginResult, currentQr, diskVars>>
      BY <2>3
    <3>2. MemTyped' /\ Persisted'
      BY <3>1, <1>t, CookieTaken DEF MemTyped
    <3>3. DiskTyped'
      BY <3>1, <1>t DEF DiskTyped, diskVars
    <3> QED
      BY <3>2, <3>3, <2>1, PartsNext
  <2> QED
    BY <1>12, <2>2, <2>3 DEF CallAnswered
<1>13. ASSUME Logout  PROVE TypeOK' /\ Persisted'
  <2>1. MemTyped' /\ DiskTyped' /\ Persisted'
    BY <1>13, <1>t, NobodyIn DEF Logout, Forget, MemTyped, DiskTyped
  <2>2. CallsTyped' /\ RestTyped'
    BY <1>13, <1>t DEF Logout, CallsTyped, RestTyped, callVars
  <2> QED
    BY <2>1, <2>2, PartsNext
<1>14. ASSUME Restart  PROVE TypeOK' /\ Persisted'
  <2>1. stored' = stored /\ saves' = <<>> /\ saveTimer' = FALSE /\ currentQr' = None
        /\ failed' = FALSE
    BY <1>14 DEF Restart, LoadStoredSession
  <2>2. DiskTyped'
    BY <2>1, <1>t, EmptySeq DEF DiskTyped
  <2>3. CallsTyped' /\ RestTyped'
    BY <1>14, <1>t, LoginAssumption DEF Restart, LoadStoredSession, CallsTyped, RestTyped
  <2>4. MemTyped'
    BY <1>14, <1>t DEF Restart, LoadStoredSession, MemTyped, DiskTyped, Session
  <2>5. Persisted'
    <3>1. CASE stored = None
      BY <1>14, <3>1, NobodyIn DEF Restart, LoadStoredSession
    <3>2. CASE stored # None
      <4>1. host' = stored.region /\ loginResult' = stored.user /\ cookies' = stored.cookies
        BY <1>14, <3>2 DEF Restart, LoadStoredSession
      <4>2. stored \in Session /\ LastWrite' = stored
        BY <2>1, <3>2, <1>t DEF DiskTyped, LastWrite
      <4>3. stored = [region |-> host', user |-> loginResult', cookies |-> cookies']
        BY <4>1, <4>2 DEF Session
      <4> QED
        BY <4>2, <4>3 DEF Persisted, Snapshot
    <3> QED
      BY <3>1, <3>2
  <2> QED
    BY <2>2, <2>3, <2>4, <2>5, PartsNext
<1>15. ASSUME CloseModal \/ \E u \in Users : Scan(u)  PROVE TypeOK' /\ Persisted'
  <2>0. UNCHANGED <<memVars, diskVars>>
    BY <1>15 DEF CloseModal, Scan
  <2>1. MemTyped' /\ DiskTyped' /\ Persisted'
    BY <2>0, <1>t DEF MemTyped, DiskTyped, Persisted, LastWrite, Snapshot, memVars, diskVars
  <2>2. CallsTyped'
    BY <1>15, <1>t DEF CloseModal, Scan, CallsTyped, callVars
  <2>3. RestTyped'
    BY <1>15, <1>t DEF CloseModal, Scan, RestTyped
  <2> QED
    BY <2>1, <2>2, <2>3, PartsNext
<1>16. ASSUME UNCHANGED vars  PROVE TypeOK' /\ Persisted'
  <2>1. MemTyped' /\ DiskTyped' /\ Persisted'
    BY <1>16, <1>t DEF vars, MemTyped, DiskTyped, Persisted, LastWrite, Snapshot, memVars,
       diskVars
  <2>2. CallsTyped' /\ RestTyped'
    BY <1>16, <1>t DEF vars, CallsTyped, RestTyped, callVars
  <2> QED
    BY <2>1, <2>2, PartsNext
<1>17. ASSUME SaveFails  PROVE TypeOK' /\ Persisted'
  <2>1. DiskTyped' /\ (LastWrite' = LastWrite \/ failed')
    BY <1>17, <1>t, OldestFailed DEF SaveFails
  <2>2. MemTyped' /\ UNCHANGED <<host, cookies, loginResult, saveTimer>>
    BY <1>17, <1>t DEF SaveFails, MemTyped, memVars
  <2>3. ~failed
    BY <1>17, <1>t DEF SaveFails, DiskTyped
  <2>4. Persisted'
    BY <2>1, <2>2, <2>3 DEF Persisted, Snapshot
  <2>5. CallsTyped' /\ RestTyped'
    BY <1>17, <1>t DEF SaveFails, CallsTyped, RestTyped
  <2> QED
    BY <2>1, <2>2, <2>4, <2>5, PartsNext
<1> QED
  BY <1>1, <1>2, <1>3, <1>4, <1>5, <1>6, <1>7, <1>8, <1>9, <1>10, <1>11, <1>12, <1>13,
     <1>14, <1>15, <1>16, <1>17 DEF Next, KeepAlive, DiscoverCameras, MovePtz, GetCameraConfig,
     GetMqttCredentials

(* The session, the calls under way and the dialog keep their types.       *)
THEOREM SessionTypeCorrect == Spec => []TypeOK
<1>1. Init => TypeOK /\ Persisted
  BY InitSound
<1>2. (TypeOK /\ Persisted) /\ [Next]_vars => (TypeOK /\ Persisted)'
  BY StepSound
<1> QED
  BY <1>1, <1>2, PTL DEF Spec

(* Whatever logins, cookies, expiries, changes of region and restarts      *)
(* interleave: the session of whoever is logged in is stored, being        *)
(* stored, or due to be saved, or its last save failed                     *)
(* (tuya-protect.service.ts:208, 443).                                     *)
THEOREM SessionIsPersisted == Spec => []Persisted
<1>1. Init => TypeOK /\ Persisted
  BY InitSound
<1>2. (TypeOK /\ Persisted) /\ [Next]_vars => (TypeOK /\ Persisted)'
  BY StepSound
<1> QED
  BY <1>1, <1>2, PTL DEF Spec

=============================================================================
