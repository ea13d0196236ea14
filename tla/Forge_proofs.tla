---------------------------- MODULE Forge_proofs ----------------------------
(***************************************************************************)
(* Proofs about the forge clients: over restarts and reordered replies no  *)
(* thread is announced twice, and none is missed once the service says     *)
(* that there is nothing new; for this nothing is needed of the login but   *)
(* that an object that is gone has no reply on its way.  And the keychain   *)
(* ends up with the token of the session.                                  *)
(***************************************************************************)
EXTENDS Forge, SequenceTheorems, TLAPS

Settings == [seenIds : SUBSET Thread, etag : Nat]

(* The types of what is announced and of what is known about the service.   *)
Shape ==
  /\ log \in Seq(SUBSET Thread) /\ Len(log) > 0
  /\ settings \in Settings /\ settings.etag <= Len(log)
  /\ seenIds \in SUBSET Thread
  /\ etag \in Nat /\ etag <= Len(log)
  /\ replies \in SUBSET [at : Nat, same : BOOLEAN]
  /\ \A r \in replies : 0 < r.at /\ r.at <= Len(log)
  /\ announced \in [Thread -> 0..2]

(* The settings name exactly the threads announced.                         *)
Remembered ==
  \A t \in Thread : announced[t] <= 1 /\ (announced[t] = 1 <=> t \in settings.seenIds)

(* An object works with what the settings hold.                             *)
Loaded ==
  session # Off \/ replies # {} =>
    seenIds = settings.seenIds /\ (etag > 0 => log[etag] \subseteq seenIds)

(* Validators stand for versions whose threads are announced: those of the  *)
(* settings and those of the polls that were answered with nothing new.     *)
Stands ==
  /\ settings.etag > 0 => log[settings.etag] \subseteq settings.seenIds
  /\ \A r \in replies : r.same => log[r.at] \subseteq settings.seenIds

IInv == Shape /\ (~torn => Remembered /\ Loaded /\ Stands)

LEMMA InitIInv == Init => IInv
<1> SUFFICES ASSUME Init PROVE IInv
  OBVIOUS
<1>1. log \in Seq(SUBSET Thread) /\ Len(log) = 1
  BY DEF Init
<1>2. Shape
  BY <1>1 DEF Init, Shape, Settings
<1>3. Remembered /\ Loaded /\ Stands
  BY DEF Init, Remembered, Loaded, Stands
<1> QED BY <1>2, <1>3 DEF IInv

(* Updates of the settings, field by field.                                 *)
LEMMA SettingsSeen ==
  ASSUME NEW s \in Settings, NEW S \in SUBSET Thread
  PROVE  [s EXCEPT !.seenIds = S] = [seenIds |-> S, etag |-> s.etag]
  BY DEF Settings

LEMMA SettingsEtag ==
  ASSUME NEW s \in Settings, NEW e \in Nat
  PROVE  [s EXCEPT !.etag = e] = [seenIds |-> s.seenIds, etag |-> e]
  BY DEF Settings

-----------------------------------------------------------------------------
(* A step of an object that is there and touches the login only: it may     *)
(* send one poll.                                                           *)
LEMMA SessionStep ==
  ASSUME IInv, session # Off \/ replies # {},
         replies' \in {replies, replies \cup {Answer(etag)}},
         UNCHANGED <<seenIds, etag, settings, log, announced, torn>>
  PROVE  IInv'
<1>1. Answer(etag) \in [at : Nat, same : BOOLEAN] /\ Answer(etag).at = Len(log)
      /\ (Answer(etag).same => etag = Len(log))
  <2> DEFINE same == service = "github" /\ etag = Len(log)
  <2>1. Len(log) \in Nat
    BY DEF IInv, Shape
  <2>2. Answer(etag) = [at |-> Len(log), same |-> same]
    BY DEF Answer, Version
  <2>3. same \in BOOLEAN /\ (same => etag = Len(log))
    OBVIOUS
  <2> HIDE DEF same
  <2> QED BY <2>1, <2>2, <2>3
<1>2. Shape'
  BY <1>1 DEF IInv, Shape
<1>3. ASSUME ~torn PROVE Remembered' /\ Loaded' /\ Stands'
  <2>1. Remembered /\ Loaded /\ Stands
    BY <1>3 DEF IInv
  <2>2. seenIds = settings.seenIds /\ (etag > 0 => log[etag] \subseteq seenIds)
    BY <2>1 DEF Loaded
  <2>3. Remembered' /\ Loaded'
    BY <2>1, <2>2 DEF Remembered, Loaded
  <2>4. Stands'
    BY <1>1, <2>1, <2>2 DEF Stands, IInv, Shape
  <2> QED BY <2>3, <2>4
<1> QED BY <1>2, <1>3 DEF IInv

(* A reply that is dropped: the validators may move with it only when the   *)
(* list they stand for was announced.                                       *)
LEMMA ReplyDropped ==
  ASSUME IInv, NEW r \in replies, replies' = replies \ {r},
         etag' \in {etag, r.at, 0},
         ~torn' => ~torn /\ (etag' \in {etag, 0} \/ r.same),
         UNCHANGED <<seenIds, settings, log, announced>>
  PROVE  IInv'
<1>1. r.at \in Nat /\ 0 < r.at /\ r.at <= Len(log)
  BY DEF IInv, Shape
<1>2. Shape'
  BY <1>1 DEF IInv, Shape
<1>3. ASSUME ~torn' PROVE Remembered' /\ Loaded' /\ Stands'
  <2>1. Remembered /\ Loaded /\ Stands /\ (etag' \in {etag, 0} \/ r.same)
    BY <1>3 DEF IInv
  <2>2. seenIds = settings.seenIds /\ (etag > 0 => log[etag] \subseteq seenIds)
    BY <2>1 DEF Loaded
  <2>3. etag' > 0 => log[etag'] \subseteq seenIds
    BY <2>1, <2>2 DEF Stands
  <2>4. Remembered' /\ Loaded'
    BY <2>1, <2>2, <2>3 DEF Remembered, Loaded
  <2>5. Stands'
    BY <2>1 DEF Stands
  <2> QED BY <2>4, <2>5
<1> QED BY <1>2, <1>3 DEF IInv

(* A list that is handled: its new threads are announced and written.       *)
LEMMA ListHandled ==
  ASSUME IInv, NEW r \in replies, ~r.same, handleNotificationsReply(r)
  PROVE  IInv'
<1>1. r.at \in Nat /\ 0 < r.at /\ r.at <= Len(log) /\ log[r.at] \subseteq Thread
  BY DEF IInv, Shape
<1>2. UNCHANGED <<session, log, torn>> /\ replies' = replies \ {r} /\ etag' \in {etag, r.at}
  BY DEF handleNotificationsReply, TakeHeaders
<1>3. seenIds' = seenIds \cup log[r.at] /\ seenIds' \in SUBSET Thread
  BY <1>1 DEF handleNotificationsReply, Takes, News, IInv, Shape
<1>4. LastPoll(r) \in Settings /\ LastPoll(r).seenIds = settings.seenIds
      /\ LastPoll(r).etag \in {settings.etag, r.at}
  BY <1>1, SettingsEtag DEF LastPoll, Settings, IInv, Shape
<1>5. settings' \in Settings /\ settings'.etag \in {settings.etag, r.at}
      /\ (seenIds = settings.seenIds => settings'.seenIds = seenIds')
  <2>1. CASE News(r) = {}
    <3>1. settings' = LastPoll(r) /\ seenIds' = seenIds
      BY <2>1 DEF handleNotificationsReply, Persisted, Takes
    <3> QED BY <3>1, <1>4
  <2>2. CASE News(r) # {}
    <3>1. settings' = [LastPoll(r) EXCEPT !.seenIds = seenIds \cup News(r)]
      BY <2>2 DEF handleNotificationsReply, Persisted
    <3>2. seenIds \cup News(r) = seenIds'
      BY DEF handleNotificationsReply, Takes
    <3>3. settings' = [seenIds |-> seenIds', etag |-> LastPoll(r).etag]
      BY <3>1, <3>2, <1>3, <1>4, SettingsSeen
    <3> QED BY <3>3, <1>3, <1>4 DEF Settings
  <2> QED BY <2>1, <2>2
<1>6. announced' = [t \in Thread |->
         IF t \in News(r) /\ announced[t] < 2 THEN announced[t] + 1 ELSE announced[t]]
  BY DEF handleNotificationsReply, Takes, Announce
<1>7. announced' \in [Thread -> 0..2]
  BY <1>6 DEF IInv, Shape
<1>8. Shape'
  BY <1>1, <1>2, <1>3, <1>5, <1>7 DEF IInv, Shape
<1>9. ASSUME ~torn' PROVE Remembered' /\ Loaded' /\ Stands'
  <2>1. Remembered /\ Loaded /\ Stands /\ seenIds = settings.seenIds
        /\ (etag > 0 => log[etag] \subseteq seenIds)
    BY <1>2, <1>9 DEF IInv, Loaded
  <2>2. settings'.seenIds = seenIds' /\ seenIds' = seenIds \cup log[r.at]
    BY <2>1, <1>3, <1>5
  <2>3. Loaded'
    BY <1>2, <2>1, <2>2 DEF Loaded
  <2>4. Stands'
    BY <1>2, <1>5, <2>1, <2>2 DEF Stands
  <2>5. Remembered'
    <3> SUFFICES ASSUME NEW t \in Thread
                 PROVE  announced'[t] <= 1 /\ (announced'[t] = 1 <=> t \in settings'.seenIds)
      BY DEF Remembered
    <3>1. announced[t] \in 0..2 /\ announced[t] <= 1 /\ (announced[t] = 1 <=> t \in seenIds)
      BY <2>1 DEF Remembered, IInv, Shape
    <3>2. CASE t \in News(r)
      <4>1. t \notin seenIds /\ t \in log[r.at] /\ announced'[t] = announced[t] + 1
        BY <1>6, <3>1, <3>2 DEF News
      <4> QED BY <2>2, <3>1, <4>1
    <3>3. CASE t \notin News(r)
      <4>1. announced'[t] = announced[t] /\ (t \in seenIds' <=> t \in seenIds)
        BY <1>6, <2>2, <3>3 DEF News
      <4> QED BY <2>2, <3>1, <4>1
    <3> QED BY <3>2, <3>3
  <2> QED BY <2>3, <2>4, <2>5
<1> QED BY <1>8, <1>9 DEF IInv

(* The object goes: with its memory, in order or not.                       *)
LEMMA ObjectGone ==
  ASSUME IInv, Gone, UNCHANGED <<log, announced, torn>>,
         settings' \in Settings, settings'.etag = settings.etag,
         ~torn => settings'.seenIds = settings.seenIds
  PROVE  IInv'
<1>1. session' = Off /\ replies' = {} /\ seenIds' = {} /\ etag' = 0
  BY DEF Gone
<1>2. Shape'
  BY <1>1 DEF IInv, Shape
<1>3. ASSUME ~torn PROVE Remembered' /\ Loaded' /\ Stands'
  <2>1. Remembered /\ Stands /\ settings'.seenIds = settings.seenIds
    BY <1>3 DEF IInv
  <2> QED BY <1>1, <2>1 DEF Remembered, Loaded, Stands
<1> QED BY <1>2, <1>3 DEF IInv

(* A version is added; what the old ones hold stays.                        *)
LEMMA AccountChanges ==
  ASSUME IInv, NEW unread \in SUBSET Thread, Changed(unread)
  PROVE  IInv'
<1>1. log' \in Seq(SUBSET Thread) /\ Len(log') = Len(log) + 1
      /\ \A i \in 1..Len(log) : log'[i] = log[i]
  BY DEF Changed, IInv, Shape
<1>2. UNCHANGED <<session, seenIds, etag, settings, replies, announced, torn>>
  BY DEF Changed, inbox
<1>3. Shape'
  BY <1>1, <1>2 DEF IInv, Shape, Settings
<1>4. ASSUME ~torn PROVE Remembered' /\ Loaded' /\ Stands'
  <2>1. Remembered /\ Loaded /\ Stands
    BY <1>4 DEF IInv
  <2>2. etag > 0 => log'[etag] = log[etag]
    BY <1>1 DEF IInv, Shape
  <2>3. settings.etag > 0 => log'[settings.etag] = log[settings.etag]
    BY <1>1 DEF IInv, Shape, Settings
  <2>4. \A r \in replies : log'[r.at] = log[r.at]
    BY <1>1 DEF IInv, Shape
  <2> QED BY <1>2, <2>1, <2>2, <2>3, <2>4 DEF Remembered, Loaded, Stands
<1> QED BY <1>2, <1>3, <1>4 DEF IInv

-----------------------------------------------------------------------------
LEMMA NextIInv == IInv /\ [Next]_vars => IInv'
<1> SUFFICES ASSUME IInv, [Next]_vars PROVE IInv'
  OBVIOUS
<1>1. CASE start
  <2>1. seenIds' = settings.seenIds /\ etag' = settings.etag /\ session' # Off
        /\ UNCHANGED <<settings, log, replies, announced, torn>>
    BY <1>1 DEF start, Off, history
  <2>2. Shape'
    BY <2>1 DEF IInv, Shape, Settings
  <2>3. ~torn => Remembered' /\ Loaded' /\ Stands'
    BY <2>1 DEF IInv, Remembered, Loaded, Stands
  <2> QED BY <2>1, <2>2, <2>3 DEF IInv
<1>2. CASE stop
  <2>1. session # Off
    BY <1>2 DEF stop, Off
  <2>2. settings' = [seenIds |-> seenIds, etag |-> settings.etag]
    BY <1>2, SettingsSeen DEF stop, IInv, Shape
  <2>3. settings' \in Settings /\ settings'.etag = settings.etag /\ settings'.seenIds = seenIds
    BY <2>2 DEF IInv, Shape, Settings
  <2>4. ~torn => seenIds = settings.seenIds
    BY <2>1 DEF IInv, Loaded
  <2> QED BY <1>2, <2>3, <2>4, ObjectGone DEF stop, history
<1>3. CASE Crash
  BY <1>3, ObjectGone DEF Crash, history, IInv, Shape
<1>4. ASSUME NEW ok \in BOOLEAN, JobFinished(ok) PROVE IInv'
  <2>1. session # Off
    BY <1>4 DEF JobFinished, Off
  <2>2. replies' \in {replies, replies \cup {Answer(etag)}}
    BY <1>4 DEF JobFinished, Becomes
  <2> QED BY <1>4, <2>1, <2>2, SessionStep DEF JobFinished
<1>5. CASE FlowEnds \/ AutoRefresh \/ RefreshEnds \/ logout
  <2>1. session # Off
    BY <1>5 DEF FlowEnds, AutoRefresh, RefreshEnds, logout, Off
  <2>2. replies' \in {replies, replies \cup {Answer(etag)}}
    BY <1>5 DEF FlowEnds, AutoRefresh, RefreshEnds, logout, Becomes
  <2>3. UNCHANGED <<seenIds, etag, settings, log, announced, torn>>
    BY <1>5 DEF FlowEnds, AutoRefresh, RefreshEnds, logout, inbox
  <2> QED BY <2>1, <2>2, <2>3, SessionStep
<1>6. CASE poll
  <2>1. session # Off
    BY <1>6 DEF poll, Off
  <2> QED BY <1>6, <2>1, SessionStep DEF poll, inbox
<1>7. ASSUME NEW r \in replies, handleNotificationsReply(r) PROVE IInv'
  <2>1. CASE ~r.same
    BY <1>7, <2>1, ListHandled
  <2>2. CASE r.same
    BY <1>7, <2>2, ReplyDropped DEF handleNotificationsReply, TakeHeaders
  <2> QED BY <2>1, <2>2
<1>8. ASSUME NEW r \in replies, Unreadable(r) PROVE IInv'
  BY <1>8, ReplyDropped DEF Unreadable, TakeHeaders
<1>9. ASSUME NEW r \in replies, Failed(r) \/ Unauthorized(r) PROVE IInv'
  BY <1>9, ReplyDropped DEF Failed, Unauthorized, ErrorHeaders
<1>10. ASSUME NEW r \in replies, CrashMidReply(r) PROVE IInv'
  <2>1. r.at \in Nat /\ r.at <= Len(log)
    BY DEF IInv, Shape
  <2>2. settings' \in Settings /\ settings'.etag \in {settings.etag, r.at}
    BY <1>10, <2>1, SettingsEtag DEF CrashMidReply, LastPoll, IInv, Shape, Settings
  <2>3. announced' \in [Thread -> 0..2]
    BY <1>10 DEF CrashMidReply, Announce, IInv, Shape
  <2>4. Shape' /\ torn'
    BY <1>10, <2>1, <2>2, <2>3 DEF CrashMidReply, Gone, IInv, Shape, Settings
  <2> QED BY <2>4 DEF IInv
<1>11. ASSUME NEW t \in Thread, Arrives(t) \/ markAsRead(t) \/ ReadElsewhere(t) PROVE IInv'
  <2>1. Unread \in SUBSET Thread
    BY DEF Unread, Version, IInv, Shape
  <2>2. PICK unread \in SUBSET Thread : Changed(unread)
    BY <1>11, <2>1 DEF Arrives, markAsRead, ReadElsewhere
  <2> QED BY <2>2, AccountChanges
<1>12. CASE UNCHANGED vars
  BY <1>12 DEF vars, history, IInv, Shape, Remembered, Loaded, Stands
<1> QED
  BY <1>1, <1>2, <1>3, <1>4, <1>5, <1>6, <1>7, <1>8, <1>9, <1>10, <1>11, <1>12 DEF Next, Reply

(* No thread is announced twice, whatever order replies come in and however *)
(* often the bar restarts between two of them.                              *)
THEOREM NeverAnnouncedTwice == Spec => []AnnouncedOnce
<1>1. IInv => AnnouncedOnce
  BY DEF IInv, Remembered, AnnouncedOnce
<1> QED BY InitIInv, NextIInv, <1>1, PTL DEF Spec

(* When the validators a client holds are the service's own, so that every  *)
(* poll brings nothing, each unread thread has been announced.              *)
THEOREM NothingIsMissed == Spec => []NothingMissed
<1>1. IInv => NothingMissed
  <2> SUFFICES ASSUME IInv, ~torn, session.alive, etag = Version, NEW t \in Unread
               PROVE  announced[t] > 0
    BY DEF NothingMissed
  <2>1. session # Off
    BY DEF Off
  <2>2. Remembered /\ log[etag] \subseteq seenIds /\ seenIds = settings.seenIds
    BY <2>1 DEF IInv, Loaded, Shape, Version
  <2>3. t \in Thread /\ t \in settings.seenIds
    BY <2>2 DEF Unread, Version, IInv, Shape, Settings
  <2>4. announced[t] = 1
    BY <2>2, <2>3 DEF Remembered
  <2> QED BY <2>4
<1> QED BY InitIInv, NextIInv, <1>1, PTL DEF Spec
-----------------------------------------------------------------------------
(* The keychain follows the session.  The jobs that write or delete the      *)
(* access token are the ones that decide, the last of them above all; until *)
(* a load is through the session may still be without a token.              *)
Decides(job) == job.do \in {"writeToken", "deleteToken"}

Loads(job) == job.do \in {"readToken", "readRefresh"}

Decided(jobs, t) ==
  \E i \in 1..Len(jobs) :
    /\ Decides(jobs[i]) /\ jobs[i].token = t
    /\ \A k \in 1..Len(jobs) : k > i => ~Decides(jobs[k])

Undecided(jobs) == \A i \in 1..Len(jobs) : ~Decides(jobs[i])

Loading(jobs) == \E i \in 1..Len(jobs) : Loads(jobs[i])

(* What the keychain ends up with when it has done its jobs.                *)
Leads(s, stored) ==
  \/ Decided(s.jobs, s.token)
  \/ Undecided(s.jobs) /\ Loading(s.jobs) /\ s.token = None
  \/ Undecided(s.jobs) /\ stored = s.token

(* The same, while the job that was loading is being finished.              *)
Within(s, stored) ==
  \/ Decided(s.jobs, s.token)
  \/ Undecided(s.jobs) /\ (s.token = None \/ stored = s.token)

Keychain == [token : Token \cup {None}, refresh : RefreshToken \cup {None}]

KInv ==
  /\ session \in Session /\ keychain \in Keychain
  /\ session.alive /\ ~refused => Leads(session, keychain.token)

(* The same object, tokens and jobs.                                        *)
Same(s, n) ==
  /\ n \in Session /\ n.alive = s.alive
  /\ n.token = s.token /\ n.refresh = s.refresh /\ n.jobs = s.jobs

LEMMA SameLeads ==
  ASSUME NEW s, NEW n, Same(s, n), NEW k
  PROVE  (Leads(s, k) => Leads(n, k)) /\ (Within(s, k) => Within(n, k))
  BY DEF Same, Leads, Within

LEMMA LoginSame == ASSUME NEW s \in Session PROVE Same(s, login(s))
  BY DEF Same, login, Session

LEMMA DeauthenticatedSame == ASSUME NEW s \in Session PROVE Same(s, onOAuthDeauthenticated(s))
  BY DEF Same, onOAuthDeauthenticated, Session

LEMMA OnGrantedSame == ASSUME NEW s \in Session PROVE Same(s, onOAuthGranted(s))
  BY DEF Same, onOAuthGranted, Session

LEMMA GrantedSame == ASSUME NEW s \in Session PROVE Same(s, Granted(s))
<1>1. Same(s, onOAuthGranted(s)) /\ onOAuthGranted(s) \in Session
  BY OnGrantedSame DEF Same
<1>2. Same(onOAuthGranted(s), login(onOAuthGranted(s)))
  BY <1>1, LoginSame
<1> QED BY <1>1, <1>2 DEF Granted, Same

(* A job that is queued comes last.                                         *)
LEMMA Enqueued ==
  ASSUME NEW s \in Session, NEW do, NEW t, [do |-> do, token |-> t] \in Job
  PROVE  /\ Enqueue(s, do, t) \in Session
         /\ Enqueue(s, do, t).alive = s.alive
         /\ Enqueue(s, do, t).token = s.token
         /\ Enqueue(s, do, t).refresh = s.refresh
         /\ Enqueue(s, do, t).jobs = Append(s.jobs, [do |-> do, token |-> t])
<1>1. Append(s.jobs, [do |-> do, token |-> t]) \in Seq(Job)
  BY DEF Session
<1>2. ASSUME NEW q \in Seq(Job)
      PROVE  [s EXCEPT !.jobs = q] \in Session /\ [s EXCEPT !.jobs = q].alive = s.alive
             /\ [s EXCEPT !.jobs = q].token = s.token /\ [s EXCEPT !.jobs = q].refresh = s.refresh
             /\ [s EXCEPT !.jobs = q].jobs = q
  BY DEF Session
<1> QED BY <1>1, <1>2 DEF Enqueue

LEMMA AppendDecides ==
  ASSUME NEW q \in Seq(Job), NEW job \in Job, Decides(job)
  PROVE  Decided(Append(q, job), job.token)
<1> DEFINE n == Len(q) + 1
<1>1. n \in 1..Len(Append(q, job)) /\ Append(q, job)[n] = job /\ Len(Append(q, job)) = n
  OBVIOUS
<1> HIDE DEF n
<1>2. \A k \in 1..Len(Append(q, job)) : ~(k > n)
  BY <1>1
<1> QED BY <1>1, <1>2 DEF Decided

LEMMA AppendOther ==
  ASSUME NEW q \in Seq(Job), NEW job \in Job, ~Decides(job), NEW t
  PROVE  /\ Decided(q, t) => Decided(Append(q, job), t)
         /\ Undecided(q) => Undecided(Append(q, job))
         /\ Loading(q) \/ Loads(job) => Loading(Append(q, job))
<1> DEFINE r == Append(q, job)
           n == Len(q)
<1>1. n \in Nat /\ Len(r) = n + 1 /\ r[n + 1] = job /\ \A i \in 1..n : r[i] = q[i]
  OBVIOUS
<1> HIDE DEF r
<1>2. \A i \in 1..Len(r) : i \in 1..n \/ i = n + 1
  BY <1>1
<1>3. ASSUME Decided(q, t) PROVE Decided(r, t)
  <2>1. PICK i \in 1..n : /\ Decides(q[i]) /\ q[i].token = t
                          /\ \A k \in 1..n : k > i => ~Decides(q[k])
    BY <1>3 DEF Decided
  <2>2. i \in 1..Len(r) /\ r[i] = q[i]
    BY <1>1
  <2>3. \A k \in 1..Len(r) : k > i => ~Decides(r[k])
    BY <1>1, <1>2, <2>1
  <2> QED BY <2>1, <2>2, <2>3 DEF Decided
<1>4. ASSUME Undecided(q) PROVE Undecided(r)
  BY <1>1, <1>2, <1>4 DEF Undecided
<1>5. ASSUME Loading(q) \/ Loads(job) PROVE Loading(r)
  <2>1. n + 1 \in 1..Len(r) /\ \A i \in 1..n : i \in 1..Len(r)
    BY <1>1
  <2> QED BY <1>1, <1>5, <2>1 DEF Loading
<1> QED BY <1>3, <1>4, <1>5 DEF r

LEMMA EnqueueOther ==
  ASSUME NEW s \in Session, NEW do, NEW t, [do |-> do, token |-> t] \in Job,
         ~Decides([do |-> do, token |-> t]), NEW k
  PROVE  /\ Leads(s, k) => Leads(Enqueue(s, do, t), k)
         /\ Within(s, k) => Within(Enqueue(s, do, t), k)
         /\ Within(s, k) /\ Loads([do |-> do, token |-> t]) => Leads(Enqueue(s, do, t), k)
<1>1. s.jobs \in Seq(Job)
  BY DEF Session
<1> DEFINE n == Enqueue(s, do, t)
           job == [do |-> do, token |-> t]
<1>2. n.token = s.token /\ n.jobs = Append(s.jobs, job)
  BY Enqueued
<1> HIDE DEF n, job
<1>3. /\ Decided(s.jobs, s.token) => Decided(n.jobs, n.token)
      /\ Undecided(s.jobs) => Undecided(n.jobs)
      /\ Loading(s.jobs) \/ Loads(job) => Loading(n.jobs)
  BY <1>1, <1>2, AppendOther DEF job
<1>4. (Leads(s, k) => Leads(n, k)) /\ (Within(s, k) => Within(n, k))
      /\ (Within(s, k) /\ Loads(job) => Leads(n, k))
  BY <1>2, <1>3 DEF Leads, Within
<1> QED BY <1>4 DEF n, job

LEMMA SetTokenLeads ==
  ASSUME NEW s \in Session, NEW t \in Token, NEW k, s.token = t => Leads(s, k)
  PROVE  setToken(s, t) \in Session /\ setToken(s, t).alive = s.alive /\ Leads(setToken(s, t), k)
<1> DEFINE new == [s EXCEPT !.token = t]
           job == [do |-> "writeToken", token |-> t]
<1>1. /\ new \in Session /\ new.alive = s.alive /\ new.token = t /\ new.refresh = s.refresh
      /\ new.jobs = s.jobs /\ new.jobs \in Seq(Job)
  BY DEF Session
<1>2. job \in Job /\ Decides(job) /\ job.token = t /\ t # None
  BY ForgeAssumption DEF Job, Decides
<1> HIDE DEF new
<1>3. CASE s.token = t
  <2>1. setToken(s, t) = new
    BY <1>3 DEF setToken, new
  <2> QED BY <1>1, <1>3, <2>1, SameLeads DEF Same
<1>4. CASE s.token # t
  <2>1. setToken(s, t) = Enqueue(new, "writeToken", t)
    BY <1>2, <1>4 DEF setToken, new
  <2>2. Enqueue(new, "writeToken", t) \in Session /\ Enqueue(new, "writeToken", t).alive = s.alive
        /\ Enqueue(new, "writeToken", t).token = t
        /\ Enqueue(new, "writeToken", t).jobs = Append(new.jobs, job)
    BY <1>1, <1>2, Enqueued
  <2>3. Decided(Append(new.jobs, job), t)
    BY <1>1, <1>2, AppendDecides
  <2> QED BY <2>1, <2>2, <2>3 DEF Leads
<1> QED BY <1>3, <1>4

LEMMA SetRefreshLeads ==
  ASSUME NEW s \in Session, NEW r \in RefreshToken \cup {None}, NEW k
  PROVE  /\ setRefreshToken(s, r) \in Session /\ setRefreshToken(s, r).alive = s.alive
         /\ setRefreshToken(s, r).token = s.token
         /\ Leads(s, k) => Leads(setRefreshToken(s, r), k)
         /\ Within(s, k) => Within(setRefreshToken(s, r), k)
<1> DEFINE new == [s EXCEPT !.refresh = r]
           job == [do |-> "writeRefresh", token |-> r]
<1>1. new \in Session /\ new.alive = s.alive /\ new.token = s.token /\ new.jobs = s.jobs
  BY DEF Session
<1>2. setRefreshToken(s, r) = IF r \in {None, s.refresh} THEN new ELSE Enqueue(new, "writeRefresh", r)
  BY DEF setRefreshToken
<1> HIDE DEF new
<1>3. (Leads(s, k) => Leads(new, k)) /\ (Within(s, k) => Within(new, k))
  BY <1>1 DEF Leads, Within
<1>4. CASE r \in {None, s.refresh}
  <2>1. setRefreshToken(s, r) = new
    BY <1>2, <1>4
  <2> QED BY <1>1, <1>3, <2>1
<1>5. CASE r \notin {None, s.refresh}
  <2>1. setRefreshToken(s, r) = Enqueue(new, "writeRefresh", r)
    BY <1>2, <1>5
  <2>2. job \in Job /\ ~Decides(job)
    BY <1>5 DEF Job, Decides
  <2> QED BY <1>1, <1>3, <2>1, <2>2, Enqueued, EnqueueOther
<1> QED BY <1>4, <1>5

LEMMA LoggedOutLeads ==
  ASSUME NEW s \in Session, NEW k
  PROVE  loggedOut(s) \in Session /\ loggedOut(s).alive = s.alive /\ Leads(loggedOut(s), k)
<1> DEFINE out == [s EXCEPT !.polling = FALSE, !.authenticated = FALSE, !.token = None,
                            !.refresh = None, !.flow = service # "github" /\ s.flow]
           one == [do |-> "deleteToken", token |-> None]
           two == [do |-> "deleteRefresh", token |-> None]
           mid == Enqueue(out, "deleteToken", None)
<1>1. out \in Session /\ out.alive = s.alive /\ out.token = None /\ out.jobs \in Seq(Job)
  <2> DEFINE flow == service # "github" /\ s.flow
  <2>1. flow \in BOOLEAN
    OBVIOUS
  <2> HIDE DEF flow
  <2>2. ASSUME NEW f \in BOOLEAN
        PROVE  LET o == [s EXCEPT !.polling = FALSE, !.authenticated = FALSE, !.token = None,
                                  !.refresh = None, !.flow = f]
               IN  o \in Session /\ o.alive = s.alive /\ o.token = None /\ o.jobs \in Seq(Job)
    BY DEF Session
  <2> QED BY <2>1, <2>2 DEF flow
<1>2. one \in Job /\ two \in Job /\ Decides(one) /\ ~Decides(two) /\ one.token = None
  BY DEF Job, Decides
<1> HIDE DEF out
<1>3. mid \in Session /\ mid.alive = s.alive /\ mid.token = None /\ mid.jobs = Append(out.jobs, one)
  BY <1>1, <1>2, Enqueued
<1>4. Leads(mid, k)
  BY <1>1, <1>2, <1>3, AppendDecides DEF Leads
<1>5. loggedOut(s) = Enqueue(mid, "deleteRefresh", None)
  BY DEF loggedOut, out
<1> HIDE DEF mid
<1> QED BY <1>2, <1>3, <1>4, <1>5, Enqueued, EnqueueOther

(* The first job is taken off the queue.                                    *)
LEMMA TakenOff ==
  ASSUME NEW s \in Session, s.jobs # <<>>, NEW k, Leads(s, k)
  PROVE  LET job == Head(s.jobs)
             n   == [s EXCEPT !.jobs = Tail(@)]
         IN  /\ job \in Job /\ n \in Session /\ n.alive = s.alive /\ n.token = s.token
             /\ Decides(job) => Leads(n, job.token)
             /\ ~Decides(job) => Within(n, k)
             /\ ~Decides(job) /\ ~Loads(job) => Leads(n, k)
<1> DEFINE q == s.jobs
           job == Head(q)
           rest == Tail(q)
           n == [s EXCEPT !.jobs = Tail(@)]
<1>1. q \in Seq(Job) /\ q # <<>>
  BY DEF Session
<1>2. job \in Job /\ rest \in Seq(Job) /\ Len(rest) = Len(q) - 1 /\ Len(q) \in Nat /\ q[1] = job
      /\ \A i \in 1..Len(rest) : rest[i] = q[i + 1]
  BY <1>1, HeadTailProperties
<1>3. n \in Session /\ n.alive = s.alive /\ n.token = s.token /\ n.jobs = rest
  <2>1. ASSUME NEW r \in Seq(Job)
        PROVE  [s EXCEPT !.jobs = r] \in Session /\ [s EXCEPT !.jobs = r].alive = s.alive
               /\ [s EXCEPT !.jobs = r].token = s.token /\ [s EXCEPT !.jobs = r].jobs = r
    BY DEF Session
  <2> QED BY <1>2, <2>1
<1> HIDE DEF n, q, job, rest
<1>4. ASSUME Undecided(q) PROVE Undecided(rest) /\ ~Decides(job)
  <2>1. \A i \in 1..Len(rest) : i + 1 \in 1..Len(q)
    BY <1>2
  <2>2. 1 \in 1..Len(q)
    BY <1>1, <1>2, EmptySeq
  <2> QED BY <1>2, <1>4, <2>1, <2>2 DEF Undecided
<1>5. ASSUME Loading(q), ~Loads(job) PROVE Loading(rest)
  <2>1. PICK i \in 1..Len(q) : Loads(q[i])
    BY <1>5 DEF Loading
  <2>2. i # 1
    BY <1>2, <1>5, <2>1
  <2>3. i - 1 \in 1..Len(rest) /\ rest[i - 1] = q[i]
    BY <1>2, <2>2
  <2> QED BY <2>1, <2>3 DEF Loading
<1>6. ASSUME Decided(q, s.token)
      PROVE  \/ Decided(rest, s.token)
             \/ Decides(job) /\ job.token = s.token /\ Undecided(rest)
  <2>1. PICK i \in 1..Len(q) : /\ Decides(q[i]) /\ q[i].token = s.token
                               /\ \A j \in 1..Len(q) : j > i => ~Decides(q[j])
    BY <1>6 DEF Decided
  <2>2. \A j \in 1..Len(rest) : j + 1 \in 1..Len(q) /\ rest[j] = q[j + 1]
    BY <1>2
  <2>3. CASE i = 1
    <3>1. \A j \in 1..Len(rest) : j + 1 > i
      BY <2>3
    <3> QED BY <1>2, <2>1, <2>2, <2>3, <3>1 DEF Undecided
  <2>4. CASE i # 1
    <3>1. i - 1 \in 1..Len(rest) /\ rest[i - 1] = q[i]
      BY <1>2, <2>4
    <3>2. \A j \in 1..Len(rest) : j > i - 1 => ~Decides(rest[j])
      BY <1>2, <2>1, <2>2
    <3> QED BY <2>1, <3>1, <3>2 DEF Decided
  <2> QED BY <2>3, <2>4
<1>7. Leads(s, k) => \/ Decided(q, s.token)
                     \/ Undecided(q) /\ Loading(q) /\ s.token = None
                     \/ Undecided(q) /\ k = s.token
  BY DEF Leads, q
<1>8. Decides(job) => Leads(n, job.token)
  BY <1>3, <1>4, <1>6, <1>7 DEF Leads
<1>9. ~Decides(job) => Within(n, k)
  BY <1>3, <1>4, <1>6, <1>7 DEF Within
<1>10. ~Decides(job) /\ ~Loads(job) => Leads(n, k)
  BY <1>3, <1>4, <1>5, <1>6, <1>7 DEF Leads
<1> QED BY <1>2, <1>3, <1>8, <1>9, <1>10 DEF n, job, q

(* The keychain after a job.                                                *)
LEMMA KeptToken ==
  ASSUME keychain \in Keychain, NEW job \in Job
  PROVE  /\ Kept(job) \in Keychain
         /\ Decides(job) => Kept(job).token = job.token
         /\ ~Decides(job) => Kept(job).token = keychain.token
<1>1. CASE job.do = "writeToken"
  BY <1>1 DEF Kept, Decides, Keychain, Job
<1>2. CASE job.do = "deleteToken"
  BY <1>2 DEF Kept, Decides, Keychain, Job
<1>3. CASE job.do = "writeRefresh" \/ job.do = "deleteRefresh"
  BY <1>3 DEF Kept, Decides, Keychain, Job
<1>4. CASE Loads(job)
  BY <1>4 DEF Kept, Loads, Decides
<1> QED BY <1>1, <1>2, <1>3, <1>4 DEF Job, Loads

(* What a finished job does to the session, by the job.                     *)
LEMMA FinishedSession ==
  ASSUME NEW s \in Session, NEW job \in Job, NEW ok \in BOOLEAN, keychain \in Keychain
  PROVE  /\ Finished(s, job, ok) \in Session /\ Finished(s, job, ok).alive = s.alive
         /\ ~Loads(job) => Finished(s, job, ok) = s
         /\ Loads(job) /\ ok /\ Within(s, keychain.token) => Leads(Finished(s, job, ok), keychain.token)
<1> DEFINE k == keychain.token
<1>1. k \in Token \cup {None}
  BY DEF Keychain
<1> HIDE DEF k
<1>2. CASE job.do = "readToken" /\ ok /\ k # None
  <2> DEFINE read == [do |-> "readRefresh", token |-> k]
  <2>1. read \in Job /\ ~Decides(read) /\ Loads(read)
    BY <1>1, <1>2 DEF Job, Decides, Loads
  <2>2. Finished(s, job, ok) = Enqueue(s, "readRefresh", k)
    BY <1>2 DEF Finished, k
  <2>3. Loads(job)
    BY <1>2 DEF Loads
  <2> QED BY <2>1, <2>2, <2>3, Enqueued, EnqueueOther DEF k
<1>3. CASE job.do = "readToken" /\ ~(ok /\ k # None)
  <2>1. Finished(s, job, ok) = login(s) /\ Loads(job)
    BY <1>3 DEF Finished, k, Loads
  <2>2. Same(s, login(s))
    BY LoginSame
  <2>3. ok /\ Within(s, k) => Leads(s, k)
    BY <1>3 DEF Within, Leads
  <2> QED BY <2>1, <2>2, <2>3, SameLeads DEF Same, k
<1>4. CASE job.do = "readRefresh"
  <2> DEFINE r == IF ok /\ keychain.refresh # None THEN setRefreshToken(s, keychain.refresh) ELSE s
  <2>1. Finished(s, job, ok) = onOAuthGranted(setToken(r, job.token)) /\ Loads(job)
        /\ job.token \in Token /\ job.token # None
    BY <1>4, ForgeAssumption DEF Finished, Loads, Job
  <2>2. r \in Session /\ r.alive = s.alive /\ (Within(s, k) => Within(r, k))
    BY SetRefreshLeads DEF Keychain
  <2> HIDE DEF r
  <2>3. ASSUME NEW t \in Token PROVE setToken(r, t) \in Session /\ setToken(r, t).alive = s.alive
    <3>1. CASE r.token = t
      <4>1. setToken(r, t) = [r EXCEPT !.token = t]
        BY <3>1 DEF setToken
      <4> QED BY <2>2, <4>1 DEF Session
    <3>2. CASE r.token # t
      BY <2>2, <3>2, SetTokenLeads
    <3> QED BY <3>1, <3>2
  <2>4. Within(r, k) => (r.token = job.token => Leads(r, k))
    BY <2>1 DEF Within, Leads
  <2>5. Within(r, k) => Leads(setToken(r, job.token), k)
    BY <2>1, <2>2, <2>4, SetTokenLeads
  <2> DEFINE n == setToken(r, job.token)
  <2>6. n \in Session /\ n.alive = s.alive /\ (Within(s, k) => Leads(n, k))
    BY <2>1, <2>2, <2>3, <2>5
  <2> HIDE DEF n
  <2>7. Same(n, onOAuthGranted(n))
    BY <2>6, OnGrantedSame
  <2>8. onOAuthGranted(n) \in Session /\ onOAuthGranted(n).alive = s.alive
        /\ (Within(s, k) => Leads(onOAuthGranted(n), k))
    BY <2>6, <2>7, SameLeads DEF Same
  <2> QED BY <2>1, <2>8 DEF n, k
<1>5. CASE ~Loads(job)
  BY <1>5 DEF Finished, Loads
<1> QED BY <1>2, <1>3, <1>4, <1>5 DEF Loads

-----------------------------------------------------------------------------
LEMMA InitKInv == Init => KInv
<1> SUFFICES ASSUME Init PROVE KInv
  OBVIOUS
<1>1. session \in Session /\ ~session.alive
  BY DEF Init, Off, Session
<1> QED BY <1>1 DEF Init, KInv, Keychain

(* The session moves to one that leads to its own token.                    *)
LEMMA SessionMoves ==
  ASSUME KInv, UNCHANGED <<keychain, refused>>,
         session' \in Session, session'.alive = session.alive,
         Leads(session, keychain.token) => Leads(session', keychain.token)
  PROVE  KInv'
  BY DEF KInv, Leads

LEMMA OffSession == Off \in Session /\ Off.alive = FALSE
  BY DEF Off, Session

LEMMA NextKInv == KInv /\ [Next]_vars => KInv'
<1> SUFFICES ASSUME KInv, [Next]_vars PROVE KInv'
  OBVIOUS
<1> DEFINE k == keychain.token
<1>1. session \in Session /\ keychain \in Keychain
  BY DEF KInv
<1>2. CASE start
  <2> DEFINE load == [do |-> "readToken", token |-> None]
             new == [Off EXCEPT !.alive = TRUE, !.jobs = <<load>>]
  <2>1. load \in Job /\ ~Decides(load) /\ Loads(load)
    BY DEF Job, Decides, Loads
  <2>2. <<load>> \in Seq(Job) /\ Len(<<load>>) = 1 /\ <<load>>[1] = load
    BY <2>1
  <2> HIDE DEF load
  <2>3. new \in Session /\ new.token = None /\ new.jobs = <<load>>
    BY <2>2 DEF Off, Session
  <2>4. Undecided(<<load>>) /\ Loading(<<load>>)
    BY <2>1, <2>2 DEF Undecided, Loading
  <2>5. session' = new /\ keychain' = keychain
    BY <1>2 DEF start, load
  <2> HIDE DEF new
  <2>6. Leads(session', keychain'.token)
    BY <2>3, <2>4, <2>5 DEF Leads
  <2> QED BY <1>1, <2>3, <2>5, <2>6 DEF KInv
<1>3. ASSUME Gone, UNCHANGED keychain PROVE KInv'
  BY <1>1, <1>3, OffSession DEF Gone, KInv
<1>4. ASSUME NEW ok \in BOOLEAN, JobFinished(ok) PROVE KInv'
  <2> DEFINE job == Head(session.jobs)
             n == [session EXCEPT !.jobs = Tail(@)]
  <2>1. session.jobs # <<>> /\ session' = Finished(n, job, ok)
        /\ keychain' = (IF ok THEN Kept(job) ELSE keychain) /\ refused' = (refused \/ ~ok)
    BY <1>4 DEF JobFinished, Becomes
  <2>2. job \in Job /\ n \in Session /\ n.alive = session.alive
    <3>1. session.jobs \in Seq(Job) /\ session.jobs # <<>>
      BY <1>1, <2>1 DEF Session
    <3>2. job \in Job /\ Tail(session.jobs) \in Seq(Job)
      BY <3>1, HeadTailProperties
    <3> QED BY <1>1, <3>2 DEF Session
  <2>3. Leads(session, k) =>
          /\ Decides(job) => Leads(n, job.token)
          /\ ~Decides(job) => Within(n, k)
          /\ ~Decides(job) /\ ~Loads(job) => Leads(n, k)
    BY <1>1, <2>1, TakenOff
  <2> HIDE DEF job, n
  <2>4. session' \in Session /\ session'.alive = session.alive
        /\ (~Loads(job) => session' = n)
        /\ (Loads(job) /\ ok /\ Within(n, k) => Leads(session', k))
    BY <1>1, <2>1, <2>2, FinishedSession
  <2>5. /\ Kept(job) \in Keychain
        /\ Decides(job) => Kept(job).token = job.token
        /\ ~Decides(job) => Kept(job).token = k
    BY <1>1, <2>2, KeptToken
  <2>6. Loads(job) => ~Decides(job)
    BY DEF Loads, Decides
  <2>7. ASSUME session'.alive, ~refused' PROVE Leads(session', keychain'.token)
    <3>1. ok /\ Leads(session, k) /\ keychain' = Kept(job)
      BY <2>1, <2>4, <2>7 DEF KInv
    <3>2. CASE Decides(job)
      BY <2>3, <2>4, <2>5, <2>6, <3>1, <3>2
    <3>3. CASE Loads(job)
      BY <2>3, <2>4, <2>5, <2>6, <3>1, <3>3
    <3>4. CASE ~Decides(job) /\ ~Loads(job)
      BY <2>3, <2>4, <2>5, <3>1, <3>4
    <3> QED BY <3>2, <3>3, <3>4
  <2>8. keychain' \in Keychain
    BY <1>1, <2>1, <2>5
  <2> QED BY <2>4, <2>7, <2>8 DEF KInv
<1>5. CASE FlowEnds \/ RefreshEnds
  <2>1. UNCHANGED <<keychain, refused>>
    BY <1>5 DEF FlowEnds, RefreshEnds
  <2>2. PICK s \in Session :
          /\ Same(session, s)
          /\ \/ \E t \in Token \ {session.token}, r \in RefreshToken \cup {None} : session' = Acquires(s, t, r)
             \/ session' \in {Granted(s), onOAuthDeauthenticated(s), s}
    <3>1. Same(session, [session EXCEPT !.flow = FALSE]) /\ Same(session, [session EXCEPT !.refreshing = FALSE])
      BY <1>1 DEF Same, Session
    <3>2. CASE FlowEnds
      BY <3>1, <3>2 DEF FlowEnds, Becomes, Same
    <3>3. CASE RefreshEnds
      <4>1. RefreshToken \cup {session.refresh} \subseteq RefreshToken \cup {None}
        BY <1>1 DEF Session
      <4> QED BY <3>1, <3>3, <4>1 DEF RefreshEnds, Becomes, Same
    <3> QED BY <1>5, <3>2, <3>3
  <2>3. s.alive = session.alive /\ s.token = session.token /\ (Leads(session, k) => Leads(s, k))
    BY <2>2, SameLeads DEF Same
  <2>4. ASSUME NEW t \in Token \ {session.token}, NEW r \in RefreshToken \cup {None},
             session' = Acquires(s, t, r)
       PROVE KInv'
    <3> DEFINE a == setRefreshToken(s, r)
               b == setToken(a, t)
    <3>1. a \in Session /\ a.alive = session.alive /\ a.token # t
      BY <2>3, SetRefreshLeads
    <3> HIDE DEF a
    <3>2. b \in Session /\ b.alive = session.alive /\ Leads(b, k)
      BY <3>1, SetTokenLeads
    <3> HIDE DEF b
    <3>3. session' = Granted(b)
      BY <2>4 DEF Acquires, a, b
    <3>4. Same(b, session')
      BY <3>2, <3>3, GrantedSame
    <3> QED BY <2>1, <3>2, <3>4, SameLeads, SessionMoves DEF Same
  <2>5. ASSUME session' \in {Granted(s), onOAuthDeauthenticated(s), s} PROVE KInv'
    <3>1. Same(s, session')
      BY <2>2, <2>5, GrantedSame, DeauthenticatedSame DEF Same
    <3> QED BY <2>1, <2>3, <3>1, SameLeads, SessionMoves DEF Same
  <2> QED BY <2>2, <2>4, <2>5
<1>6. CASE AutoRefresh
  <2>1. UNCHANGED <<keychain, refused>> /\ session' = [session EXCEPT !.refreshing = TRUE]
    BY <1>6 DEF AutoRefresh, Becomes
  <2>2. Same(session, session')
    BY <1>1, <2>1 DEF Same, Session
  <2> QED BY <2>1, <2>2, SameLeads, SessionMoves DEF Same
<1>7. CASE logout
  <2>1. UNCHANGED <<keychain, refused>> /\ session' = loggedOut(session)
    BY <1>7 DEF logout, Becomes
  <2> QED BY <1>1, <2>1, LoggedOutLeads, SessionMoves
<1>8. ASSUME NEW r \in replies, Unauthorized(r) PROVE KInv'
  <2>1. UNCHANGED <<keychain, refused>> /\ session' = Rejected(session)
    BY <1>8 DEF Unauthorized
  <2>2. CASE session.refresh # None
    <3>1. session' = [session EXCEPT !.refreshing = TRUE]
      BY <2>1, <2>2 DEF Rejected
    <3>2. Same(session, session')
      BY <1>1, <3>1 DEF Same, Session
    <3> QED BY <2>1, <3>2, SameLeads, SessionMoves DEF Same
  <2>3. CASE session.refresh = None /\ service = "github"
    <3> DEFINE b == loggedOut(session)
    <3>1. b \in Session /\ b.alive = session.alive /\ Leads(b, k)
      BY <1>1, LoggedOutLeads
    <3>2. session' = login(b)
      BY <2>1, <2>3 DEF Rejected
    <3> HIDE DEF b
    <3>3. Same(b, session')
      BY <3>1, <3>2, LoginSame
    <3> QED BY <2>1, <3>1, <3>3, SameLeads, SessionMoves DEF Same
  <2>4. CASE session.refresh = None /\ service # "github"
    <3> DEFINE b == onOAuthDeauthenticated(session)
    <3>1. Same(session, b) /\ b \in Session
      BY <1>1, DeauthenticatedSame DEF Same
    <3>2. session' = login(b)
      BY <2>1, <2>4 DEF Rejected
    <3> HIDE DEF b
    <3>3. Same(b, session')
      BY <3>1, <3>2, LoginSame
    <3>4. Same(session, session')
      BY <3>1, <3>3 DEF Same
    <3> QED BY <2>1, <3>4, SameLeads, SessionMoves DEF Same
  <2> QED BY <2>2, <2>3, <2>4
<1>9. ASSUME UNCHANGED <<session, keychain, refused>> PROVE KInv'
  BY <1>9 DEF KInv
<1>10. CASE poll
  BY <1>9, <1>10 DEF poll
<1>11. ASSUME NEW r \in replies, handleNotificationsReply(r) \/ Unreadable(r) \/ Failed(r) PROVE KInv'
  BY <1>9, <1>11 DEF handleNotificationsReply, Unreadable, Failed
<1>12. ASSUME NEW t \in Thread, Arrives(t) \/ markAsRead(t) \/ ReadElsewhere(t) PROVE KInv'
  BY <1>9, <1>12 DEF Arrives, markAsRead, ReadElsewhere, Changed
<1>13. CASE stop \/ Crash
  BY <1>3, <1>13 DEF stop, Crash
<1>14. ASSUME NEW r \in replies, CrashMidReply(r) PROVE KInv'
  BY <1>3, <1>14 DEF CrashMidReply
<1>15. CASE UNCHANGED vars
  BY <1>9, <1>15 DEF vars, history
<1> QED
  BY <1>2, <1>4, <1>5, <1>6, <1>7, <1>8, <1>10, <1>11, <1>12, <1>13, <1>14, <1>15 DEF Next, Reply

-----------------------------------------------------------------------------
(* The refresh token.  What is queued ends with it in the keychain: the      *)
(* last job about refresh tokens writes it, or none is queued and it is     *)
(* there.                                                                   *)
Settles(job) == job.do \in {"writeRefresh", "deleteRefresh"}

EndsStored(jobs, r, stored) ==
  \/ \E i \in 1..Len(jobs) :
       /\ jobs[i].do = "writeRefresh" /\ jobs[i].token = r
       /\ \A k \in 1..Len(jobs) : k > i => ~Settles(jobs[k])
  \/ stored = r /\ \A k \in 1..Len(jobs) : ~Settles(jobs[k])

Backed(s, stored) == s.refresh # None => EndsStored(s.jobs, s.refresh, stored)

(* A session with a refresh token will find it when it is started again.    *)
RInv == ~refused => Backed(session, keychain.refresh)

LEMMA SameBacked ==
  ASSUME NEW s, NEW n, Same(s, n), NEW k, Backed(s, k)
  PROVE  Backed(n, k)
  BY DEF Same, Backed

(* A job that is queued is not about refresh tokens, or writes this one.    *)
LEMMA AppendStored ==
  ASSUME NEW q \in Seq(Job), NEW job \in Job, NEW t, NEW k,
         \/ job.do = "writeRefresh" /\ job.token = t
         \/ ~Settles(job) /\ EndsStored(q, t, k)
  PROVE  EndsStored(Append(q, job), t, k)
<1> DEFINE r == Append(q, job)
           n == Len(q)
<1>1. n \in Nat /\ Len(r) = n + 1 /\ r[n + 1] = job /\ \A i \in 1..n : r[i] = q[i]
  OBVIOUS
<1> HIDE DEF r
<1>2. \A i \in 1..Len(r) : i \in 1..n \/ i = n + 1
  BY <1>1
<1>3. n + 1 \in 1..Len(r) /\ \A j \in 1..Len(r) : ~(j > n + 1)
  BY <1>1
<1>4. CASE job.do = "writeRefresh" /\ job.token = t
  BY <1>1, <1>3, <1>4 DEF EndsStored, r
<1>5. CASE ~Settles(job) /\ EndsStored(q, t, k)
  <2>1. ASSUME NEW i \in 1..n, q[i].do = "writeRefresh", q[i].token = t,
               \A j \in 1..n : j > i => ~Settles(q[j])
        PROVE  EndsStored(r, t, k)
    <3>1. i \in 1..Len(r) /\ r[i].do = "writeRefresh" /\ r[i].token = t
      BY <1>1, <2>1
    <3>2. \A j \in 1..Len(r) : j > i => ~Settles(r[j])
      BY <1>1, <1>2, <1>5, <2>1
    <3> QED BY <3>1, <3>2 DEF EndsStored
  <2>2. ASSUME k = t, \A j \in 1..n : ~Settles(q[j]) PROVE EndsStored(r, t, k)
    <3>1. \A j \in 1..Len(r) : ~Settles(r[j])
      BY <1>1, <1>2, <1>5, <2>2
    <3> QED BY <2>2, <3>1 DEF EndsStored
  <2> QED BY <1>5, <2>1, <2>2 DEF EndsStored, r
<1> QED BY <1>4, <1>5

(* The first job of the queue is done.                                      *)
LEMMA HeadStored ==
  ASSUME NEW q \in Seq(Job), q # <<>>, NEW t, NEW k, EndsStored(q, t, k), NEW l,
         Head(q).do = "writeRefresh" => l = Head(q).token,
         ~Settles(Head(q)) => l = k
  PROVE  EndsStored(Tail(q), t, l)
<1> DEFINE rest == Tail(q)
<1>1. rest \in Seq(Job) /\ Len(rest) = Len(q) - 1 /\ Len(q) \in Nat /\ q[1] = Head(q)
      /\ \A i \in 1..Len(rest) : rest[i] = q[i + 1]
  BY HeadTailProperties
<1>2. Len(q) > 0
  BY <1>1, EmptySeq
<1> HIDE DEF rest
<1>3. \A i \in 1..Len(rest) : i + 1 \in 1..Len(q)
  BY <1>1
<1>4. ASSUME NEW i \in 1..Len(q), q[i].do = "writeRefresh", q[i].token = t,
             \A j \in 1..Len(q) : j > i => ~Settles(q[j])
      PROVE  EndsStored(rest, t, l)
  <2>1. CASE i = 1
    <3>1. \A j \in 1..Len(rest) : ~Settles(rest[j])
      BY <1>1, <1>3, <1>4, <2>1
    <3> QED BY <1>1, <1>4, <2>1, <3>1 DEF EndsStored
  <2>2. CASE i # 1
    <3>1. i - 1 \in 1..Len(rest) /\ rest[i - 1] = q[i]
      BY <1>1, <2>2
    <3>2. \A j \in 1..Len(rest) : j > i - 1 => ~Settles(rest[j])
      BY <1>1, <1>3, <1>4
    <3> QED BY <1>4, <3>1, <3>2 DEF EndsStored
  <2> QED BY <2>1, <2>2
<1>5. ASSUME k = t, \A j \in 1..Len(q) : ~Settles(q[j]) PROVE EndsStored(rest, t, l)
  <2>1. \A j \in 1..Len(rest) : ~Settles(rest[j])
    BY <1>1, <1>3, <1>5
  <2>2. ~Settles(Head(q))
    BY <1>1, <1>2, <1>5
  <2> QED BY <1>5, <2>1, <2>2 DEF EndsStored
<1> QED BY <1>4, <1>5 DEF EndsStored, rest

LEMMA SetTokenTyped ==
  ASSUME NEW s \in Session, NEW t \in Token
  PROVE  setToken(s, t) \in Session
<1> DEFINE new == [s EXCEPT !.token = t]
<1>1. new \in Session
  BY DEF Session
<1>2. [do |-> "writeToken", token |-> t] \in Job
  BY DEF Job
<1>3. setToken(s, t) \in {new, Enqueue(new, "writeToken", t)}
  BY DEF setToken
<1> HIDE DEF new
<1> QED BY <1>1, <1>2, <1>3, Enqueued

(* A logout clears everything and queues both deletions.                    *)
LEMMA LoggedOutPlain ==
  ASSUME NEW s \in Session
  PROVE  /\ loggedOut(s).refresh = None
         /\ loggedOut(s).polling = FALSE /\ loggedOut(s).authenticated = FALSE
  BY DEF loggedOut, Enqueue, Session

LEMMA SetTokenBacked ==
  ASSUME NEW s \in Session, NEW t \in Token, NEW k, Backed(s, k)
  PROVE  setToken(s, t) \in Session /\ Backed(setToken(s, t), k)
<1> DEFINE new == [s EXCEPT !.token = t]
           job == [do |-> "writeToken", token |-> t]
<1>1. new \in Session /\ new.refresh = s.refresh /\ new.jobs = s.jobs /\ new.jobs \in Seq(Job)
  BY DEF Session
<1>2. job \in Job /\ job.do = "writeToken"
  BY DEF Job
<1>3. Backed(new, k)
  BY <1>1 DEF Backed
<1>4. setToken(s, t) \in {new, Enqueue(new, "writeToken", t)}
  BY DEF setToken
<1> HIDE DEF new
<1>5. /\ Enqueue(new, "writeToken", t) \in Session /\ Enqueue(new, "writeToken", t).refresh = new.refresh
      /\ Enqueue(new, "writeToken", t).jobs = Append(new.jobs, job)
  BY <1>1, <1>2, Enqueued
<1>6. Backed(Enqueue(new, "writeToken", t), k)
  BY <1>1, <1>2, <1>3, <1>5, AppendStored DEF Backed, Settles
<1> QED BY <1>1, <1>3, <1>4, <1>5, <1>6

(* A refresh token that is new is written.                                  *)
LEMMA SetRefreshBacked ==
  ASSUME NEW s \in Session, NEW r \in RefreshToken \cup {None}, NEW k, Backed(s, k)
  PROVE  setRefreshToken(s, r) \in Session /\ Backed(setRefreshToken(s, r), k)
<1> DEFINE new == [s EXCEPT !.refresh = r]
           job == [do |-> "writeRefresh", token |-> r]
<1>1. new \in Session /\ new.refresh = r /\ new.jobs = s.jobs /\ new.jobs \in Seq(Job)
  BY DEF Session
<1>2. setRefreshToken(s, r) = IF r \in {None, s.refresh} THEN new ELSE Enqueue(new, "writeRefresh", r)
  BY DEF setRefreshToken
<1> HIDE DEF new
<1>3. CASE r \notin {None, s.refresh}
  <2>1. job \in Job /\ job.do = "writeRefresh" /\ job.token = r
    BY <1>3 DEF Job
  <2>2. /\ Enqueue(new, "writeRefresh", r) \in Session /\ Enqueue(new, "writeRefresh", r).refresh = r
        /\ Enqueue(new, "writeRefresh", r).jobs = Append(new.jobs, job)
    BY <1>1, <2>1, Enqueued
  <2>3. EndsStored(Append(new.jobs, job), r, k)
    BY <1>1, <2>1, AppendStored
  <2>4. setRefreshToken(s, r) = Enqueue(new, "writeRefresh", r)
    BY <1>2, <1>3
  <2> HIDE DEF job
  <2> QED BY <2>2, <2>3, <2>4 DEF Backed
<1>4. CASE r \in {None, s.refresh}
  BY <1>1, <1>2, <1>4 DEF Backed
<1> QED BY <1>3, <1>4

LEMMA FinishedBacked ==
  ASSUME NEW s \in Session, NEW job \in Job, NEW ok \in BOOLEAN, keychain \in Keychain,
         NEW k, Backed(s, k)
  PROVE  Backed(Finished(s, job, ok), k)
<1>1. CASE job.do = "readToken"
  <2> DEFINE t == keychain.token
             read == [do |-> "readRefresh", token |-> t]
  <2>1. Finished(s, job, ok) = IF ok /\ t # None THEN Enqueue(s, "readRefresh", t) ELSE login(s)
    BY <1>1 DEF Finished
  <2>2. t \in Token \cup {None} /\ s.jobs \in Seq(Job)
    BY DEF Keychain, Session
  <2> HIDE DEF t
  <2>3. ASSUME t # None PROVE Backed(Enqueue(s, "readRefresh", t), k)
    <3>1. read \in Job /\ read.do = "readRefresh"
      BY <2>2, <2>3 DEF Job
    <3>2. /\ Enqueue(s, "readRefresh", t).refresh = s.refresh
          /\ Enqueue(s, "readRefresh", t).jobs = Append(s.jobs, read)
      BY <3>1, Enqueued
    <3> QED BY <2>2, <3>1, <3>2, AppendStored DEF Backed, Settles
  <2>4. Backed(login(s), k)
    BY LoginSame, SameBacked
  <2> QED BY <2>1, <2>3, <2>4
<1>2. CASE job.do = "readRefresh"
  <2> DEFINE r == IF ok /\ keychain.refresh # None THEN setRefreshToken(s, keychain.refresh) ELSE s
             n == setToken(r, job.token)
  <2>1. Finished(s, job, ok) = onOAuthGranted(n) /\ job.token \in Token
    BY <1>2 DEF Finished, Job
  <2>2. r \in Session /\ Backed(r, k)
    BY SetRefreshBacked DEF Keychain
  <2> HIDE DEF r
  <2>3. n \in Session /\ Backed(n, k)
    BY <2>1, <2>2, SetTokenBacked
  <2> HIDE DEF n
  <2>4. Same(n, onOAuthGranted(n))
    BY <2>3, OnGrantedSame
  <2> QED BY <2>1, <2>3, <2>4, SameBacked
<1>3. CASE job.do \notin {"readToken", "readRefresh"}
  <2>1. Finished(s, job, ok) = s
    BY <1>3 DEF Finished
  <2> QED BY <2>1
<1> QED BY <1>1, <1>2, <1>3

LEMMA NextRInv == ASSUME KInv, RInv, [Next]_vars PROVE RInv'
<1> DEFINE k == keychain.refresh
<1>1. session \in Session /\ keychain \in Keychain
  BY DEF KInv
<1>2. ASSUME session'.refresh = None PROVE RInv'
  BY <1>2 DEF RInv, Backed
<1>3. CASE start
  <2>1. session'.refresh = None
    BY <1>3 DEF start, Off
  <2> QED BY <1>2, <2>1
<1>4. CASE Gone
  BY <1>2, <1>4 DEF Gone, Off
<1>5. ASSUME NEW ok \in BOOLEAN, JobFinished(ok) PROVE RInv'
  <2> DEFINE q == session.jobs
             job == Head(q)
             n == [session EXCEPT !.jobs = Tail(@)]
             after == IF ok THEN Kept(job) ELSE keychain
  <2>1. q # <<>> /\ session' = Finished(n, job, ok) /\ keychain' = after /\ refused' = (refused \/ ~ok)
    BY <1>5 DEF JobFinished, Becomes
  <2>2. q \in Seq(Job) /\ job \in Job /\ Tail(q) \in Seq(Job)
    BY <1>1, <2>1, HeadTailProperties DEF Session
  <2>3. n \in Session /\ n.alive = session.alive /\ n.refresh = session.refresh /\ n.jobs = Tail(q)
    BY <1>1, <2>2 DEF Session
  <2>5. ASSUME ok PROVE /\ job.do = "writeRefresh" => after.refresh = job.token
                        /\ ~Settles(job) => after.refresh = k
    BY <1>1, <2>5 DEF Kept, Keychain, Settles
  <2> HIDE DEF n, job, after, q
  <2>6. ASSUME ~refused, ok PROVE Backed(n, after.refresh)
    <3>1. n.refresh # None => EndsStored(q, n.refresh, k)
      BY <2>3, <2>6 DEF RInv, Backed, q
    <3>2. EndsStored(q, n.refresh, k) => EndsStored(Tail(q), n.refresh, after.refresh)
      BY <2>1, <2>2, <2>5, <2>6, HeadStored DEF job
    <3> QED BY <2>3, <3>1, <3>2 DEF Backed
  <2>7. ASSUME ~refused, ok PROVE Backed(session', keychain'.refresh)
    BY <1>1, <2>1, <2>2, <2>3, <2>6, <2>7, FinishedBacked
  <2> QED BY <2>1, <2>7 DEF RInv
<1>6. ASSUME UNCHANGED <<keychain, refused>>,
             Backed(session, k) => Backed(session', k)
      PROVE  RInv'
  BY <1>6 DEF RInv
<1>7. ASSUME UNCHANGED <<keychain, refused>>, Same(session, session') PROVE RInv'
  BY <1>6, <1>7, SameBacked DEF Same
<1>8. CASE FlowEnds \/ RefreshEnds
  <2>1. UNCHANGED <<keychain, refused>>
    BY <1>8 DEF FlowEnds, RefreshEnds
  <2>2. PICK s \in Session :
          /\ Same(session, s)
          /\ \/ \E t \in Token, r \in RefreshToken \cup {None} : session' = Acquires(s, t, r)
             \/ session' \in {Granted(s), onOAuthDeauthenticated(s), s}
    <3>1. Same(session, [session EXCEPT !.flow = FALSE]) /\ Same(session, [session EXCEPT !.refreshing = FALSE])
      BY <1>1 DEF Same, Session
    <3>2. CASE FlowEnds
      BY <3>1, <3>2 DEF FlowEnds, Becomes, Same
    <3>3. CASE RefreshEnds
      <4>1. RefreshToken \cup {session.refresh} \subseteq RefreshToken \cup {None}
        BY <1>1 DEF Session
      <4> QED BY <3>1, <3>3, <4>1 DEF RefreshEnds, Becomes, Same
    <3> QED BY <1>8, <3>2, <3>3
  <2>3. Backed(session, k) => Backed(s, k)
    BY <2>2, SameBacked
  <2>4. ASSUME NEW t \in Token, NEW r \in RefreshToken \cup {None}, session' = Acquires(s, t, r) PROVE RInv'
    <3> DEFINE a == setRefreshToken(s, r)
               b == setToken(a, t)
    <3>1. a \in Session /\ (Backed(session, k) => Backed(a, k))
      BY <2>3, SetRefreshBacked, SetRefreshLeads
    <3> HIDE DEF a
    <3>2. b \in Session
      BY <3>1, SetTokenTyped
    <3>3. Backed(session, k) => Backed(b, k)
      BY <3>1, SetTokenBacked
    <3> HIDE DEF b
    <3>4. Same(b, session')
      BY <2>4, <3>2, GrantedSame DEF Acquires, a, b
    <3> QED BY <1>6, <2>1, <3>3, <3>4, SameBacked
  <2>5. ASSUME session' \in {Granted(s), onOAuthDeauthenticated(s), s} PROVE RInv'
    <3>1. Same(s, session')
      BY <2>2, <2>5, GrantedSame, DeauthenticatedSame DEF Same
    <3> QED BY <1>6, <2>1, <2>3, <3>1, SameBacked
  <2> QED BY <2>2, <2>4, <2>5
<1>9. CASE AutoRefresh
  <2>1. UNCHANGED <<keychain, refused>> /\ session' = [session EXCEPT !.refreshing = TRUE]
    BY <1>9 DEF AutoRefresh, Becomes
  <2>2. Same(session, session')
    BY <1>1, <2>1 DEF Same, Session
  <2> QED BY <1>7, <2>1, <2>2
<1>10. loggedOut(session).refresh = None /\ loggedOut(session) \in Session
  <2>1. loggedOut(session) \in Session
    BY <1>1, LoggedOutLeads
  <2> QED BY <1>1, <2>1, LoggedOutPlain
<1>11. CASE logout
  BY <1>2, <1>10, <1>11 DEF logout, Becomes
<1>12. ASSUME NEW r \in replies, Unauthorized(r) PROVE RInv'
  <2>1. UNCHANGED <<keychain, refused>> /\ session' = Rejected(session)
    BY <1>12 DEF Unauthorized
  <2>2. CASE session.refresh # None
    <3>1. session' = [session EXCEPT !.refreshing = TRUE]
      BY <2>1, <2>2 DEF Rejected
    <3>2. Same(session, session')
      BY <1>1, <3>1 DEF Same, Session
    <3> QED BY <1>7, <2>1, <3>2
  <2>3. CASE session.refresh = None
    <3> DEFINE b == IF service = "github" THEN loggedOut(session) ELSE onOAuthDeauthenticated(session)
    <3>1. session' = login(b)
      BY <2>1, <2>3 DEF Rejected
    <3>2. b \in Session /\ b.refresh = None
      <4>1. onOAuthDeauthenticated(session) \in Session /\ onOAuthDeauthenticated(session).refresh = session.refresh
        BY <1>1, DeauthenticatedSame DEF Same
      <4> QED BY <1>10, <2>3, <4>1
    <3> HIDE DEF b
    <3>3. Same(b, session')
      BY <3>1, <3>2, LoginSame
    <3> QED BY <1>2, <3>2, <3>3 DEF Same
  <2> QED BY <2>2, <2>3
<1>13. ASSUME UNCHANGED <<session, keychain, refused>> PROVE RInv'
  BY <1>13 DEF RInv
<1>14. CASE poll
  BY <1>13, <1>14 DEF poll
<1>15. ASSUME NEW r \in replies, handleNotificationsReply(r) \/ Unreadable(r) \/ Failed(r) PROVE RInv'
  BY <1>13, <1>15 DEF handleNotificationsReply, Unreadable, Failed
<1>16. ASSUME NEW t \in Thread, Arrives(t) \/ markAsRead(t) \/ ReadElsewhere(t) PROVE RInv'
  BY <1>13, <1>16 DEF Arrives, markAsRead, ReadElsewhere, Changed
<1>17. CASE stop \/ Crash
  BY <1>4, <1>17 DEF stop, Crash
<1>18. ASSUME NEW r \in replies, CrashMidReply(r) PROVE RInv'
  BY <1>4, <1>18 DEF CrashMidReply
<1>19. CASE UNCHANGED vars
  BY <1>13, <1>19 DEF vars, history
<1> QED
  BY <1>3, <1>5, <1>8, <1>9, <1>11, <1>12, <1>14, <1>15, <1>16, <1>17, <1>18, <1>19 DEF Next, Reply

\* Unless a job was refused, the keychain ends with the token in use, and with
\* the refresh token when the session has one, the last of those that replaced
\* each other, however loads, grants, refreshes, rejections and logouts
\* interleave.
THEOREM KeychainFollows == Spec => []StoredFollows
<1>1. Init => KInv /\ RInv
  <2>1. Init => RInv
    BY DEF Init, Off, RInv, Backed
  <2> QED BY <2>1, InitKInv
<1>2. KInv /\ RInv /\ [Next]_vars => (KInv /\ RInv)'
  BY NextKInv, NextRInv
<1>3. KInv /\ RInv => StoredFollows
  <2> SUFFICES ASSUME KInv, RInv, session.alive, session.jobs = <<>>, ~refused
               PROVE  keychain.token = session.token /\ session.refresh \in {None, keychain.refresh}
    BY DEF StoredFollows
  <2>1. Leads(session, keychain.token) /\ Backed(session, keychain.refresh)
    BY DEF KInv, RInv
  <2>2. Len(session.jobs) = 0
    OBVIOUS
  <2> QED BY <2>1, <2>2 DEF Leads, Decided, Loading, Backed, EndsStored
<1> QED BY <1>1, <1>2, <1>3, PTL DEF Spec

-----------------------------------------------------------------------------
(* The timer runs exactly while the client is authenticated.  Both flags    *)
(* are members of their own, set by every path of login and logout.         *)
Polls(s) == s.polling = s.authenticated

LEMMA EnqueuePolls ==
  ASSUME NEW s \in Session, Polls(s), NEW do, NEW t
  PROVE  Polls(Enqueue(s, do, t))
  BY DEF Polls, Enqueue, Session

LEMMA SetTokenPolls ==
  ASSUME NEW s \in Session, Polls(s), NEW t \in Token
  PROVE  Polls(setToken(s, t))
<1> DEFINE new == [s EXCEPT !.token = t]
<1>1. new \in Session /\ Polls(new)
  BY DEF Session, Polls
<1>2. setToken(s, t) \in {new, Enqueue(new, "writeToken", t)}
  BY DEF setToken
<1> HIDE DEF new
<1> QED BY <1>1, <1>2, EnqueuePolls

LEMMA SetRefreshPolls ==
  ASSUME NEW s \in Session, Polls(s), NEW r \in RefreshToken \cup {None}
  PROVE  Polls(setRefreshToken(s, r)) /\ setRefreshToken(s, r) \in Session
<1> DEFINE new == [s EXCEPT !.refresh = r]
<1>1. new \in Session /\ Polls(new)
  BY DEF Session, Polls
<1>2. setRefreshToken(s, r) \in {new, Enqueue(new, "writeRefresh", r)}
  BY DEF setRefreshToken
<1> HIDE DEF new
<1>3. Polls(setRefreshToken(s, r))
  BY <1>1, <1>2, EnqueuePolls
<1> QED BY <1>3, SetRefreshLeads

LEMMA LoginPolls ==
  ASSUME NEW s \in Session, Polls(s)
  PROVE  Polls(login(s))
  BY DEF Polls, login, Session

LEMMA DeauthenticatedPolls ==
  ASSUME NEW s \in Session
  PROVE  Polls(onOAuthDeauthenticated(s))
  BY DEF Polls, onOAuthDeauthenticated, Session

LEMMA OnGrantedPolls ==
  ASSUME NEW s \in Session, Polls(s)
  PROVE  Polls(onOAuthGranted(s))
<1>1. (s.polling \/ ~s.authenticated) = TRUE
  BY DEF Polls, Session
<1> QED BY <1>1 DEF Polls, onOAuthGranted, Session

LEMMA GrantedPolls ==
  ASSUME NEW s \in Session, Polls(s)
  PROVE  Polls(Granted(s))
<1>1. onOAuthGranted(s) \in Session /\ Polls(onOAuthGranted(s))
  BY OnGrantedSame, OnGrantedPolls DEF Same
<1> QED BY <1>1, LoginPolls DEF Granted

LEMMA FinishedPolls ==
  ASSUME NEW s \in Session, Polls(s), NEW job \in Job, NEW ok \in BOOLEAN, keychain \in Keychain
  PROVE  Polls(Finished(s, job, ok))
<1>1. CASE job.do = "readToken"
  BY <1>1, EnqueuePolls, LoginPolls DEF Finished
<1>2. CASE job.do = "readRefresh"
  <2> DEFINE r == IF ok /\ keychain.refresh # None THEN setRefreshToken(s, keychain.refresh) ELSE s
             n == setToken(r, job.token)
  <2>1. Finished(s, job, ok) = onOAuthGranted(n) /\ job.token \in Token
    BY <1>2 DEF Finished, Job
  <2>2. r \in Session /\ Polls(r)
    BY SetRefreshPolls DEF Keychain
  <2> HIDE DEF r
  <2>3. n \in Session /\ Polls(n)
    BY <2>1, <2>2, SetTokenTyped, SetTokenPolls
  <2> HIDE DEF n
  <2> QED BY <2>1, <2>3, OnGrantedPolls
<1>3. CASE job.do \notin {"readToken", "readRefresh"}
  BY <1>3 DEF Finished
<1> QED BY <1>1, <1>2, <1>3

Flags ==
  /\ Polls(session)
  /\ service \in {"github", "codeberg"} /\ torn \in BOOLEAN /\ refused \in BOOLEAN

LEMMA NextPolls == ASSUME KInv, Polls(session), [Next]_vars PROVE Polls(session)'
<1>1. session \in Session /\ keychain \in Keychain
  BY DEF KInv
<1>2. CASE start
  BY <1>2 DEF start, Off, Polls
<1>3. CASE Gone
  BY <1>3 DEF Gone, Off, Polls
<1>4. ASSUME NEW ok \in BOOLEAN, JobFinished(ok) PROVE Polls(session)'
  <2> DEFINE n == [session EXCEPT !.jobs = Tail(@)]
  <2>1. session.jobs \in Seq(Job) /\ session.jobs # <<>>
    BY <1>1, <1>4 DEF JobFinished, Session
  <2>2. Head(session.jobs) \in Job /\ Tail(session.jobs) \in Seq(Job)
    BY <2>1, HeadTailProperties
  <2>3. n \in Session /\ Polls(n)
    BY <1>1, <2>2 DEF Session, Polls
  <2> HIDE DEF n
  <2>4. session' = Finished(n, Head(session.jobs), ok)
    BY <1>4 DEF JobFinished, Becomes, n
  <2>5. Polls(Finished(n, Head(session.jobs), ok))
    BY <1>1, <2>2, <2>3, FinishedPolls
  <2> QED BY <2>4, <2>5 DEF Polls
<1>5. CASE FlowEnds \/ RefreshEnds
  <2>1. PICK s \in Session :
          /\ Polls(s)
          /\ \/ \E t \in Token, r \in RefreshToken \cup {None} : session' = Acquires(s, t, r)
             \/ session' \in {Granted(s), onOAuthDeauthenticated(s), s}
    <3>1. /\ [session EXCEPT !.flow = FALSE] \in Session /\ Polls([session EXCEPT !.flow = FALSE])
          /\ [session EXCEPT !.refreshing = FALSE] \in Session /\ Polls([session EXCEPT !.refreshing = FALSE])
      BY <1>1 DEF Polls, Session
    <3>2. CASE FlowEnds
      BY <3>1, <3>2 DEF FlowEnds, Becomes
    <3>3. CASE RefreshEnds
      <4>1. RefreshToken \cup {session.refresh} \subseteq RefreshToken \cup {None}
        BY <1>1 DEF Session
      <4> QED BY <3>1, <3>3, <4>1 DEF RefreshEnds, Becomes
    <3> QED BY <1>5, <3>2, <3>3
  <2>2. ASSUME NEW t \in Token, NEW r \in RefreshToken \cup {None} PROVE Polls(Acquires(s, t, r))
    <3> DEFINE a == setRefreshToken(s, r)
    <3>1. a \in Session /\ Polls(a)
      BY <2>1, SetRefreshPolls
    <3> HIDE DEF a
    <3>2. setToken(a, t) \in Session /\ Polls(setToken(a, t))
      BY <3>1, SetTokenTyped, SetTokenPolls
    <3> QED BY <3>2, GrantedPolls DEF Acquires, a
  <2>3. Polls(Granted(s)) /\ Polls(onOAuthDeauthenticated(s))
    BY <2>1, GrantedPolls, DeauthenticatedPolls
  <2> QED BY <2>1, <2>2, <2>3 DEF Polls
<1>6. CASE AutoRefresh
  BY <1>1, <1>6 DEF AutoRefresh, Becomes, Session, Polls
<1>7. Polls(loggedOut(session)) /\ loggedOut(session) \in Session
  BY <1>1, LoggedOutPlain, LoggedOutLeads DEF Polls
<1>8. CASE logout
  BY <1>7, <1>8 DEF logout, Becomes, Polls
<1>9. ASSUME NEW r \in replies, Unauthorized(r) PROVE Polls(session)'
  <2>1. session' = Rejected(session)
    BY <1>9 DEF Unauthorized
  <2>2. CASE session.refresh # None
    BY <1>1, <2>1, <2>2 DEF Rejected, Session, Polls
  <2>3. CASE session.refresh = None
    <3> DEFINE b == IF service = "github" THEN loggedOut(session) ELSE onOAuthDeauthenticated(session)
    <3>1. b \in Session /\ Polls(b)
      BY <1>1, <1>7, DeauthenticatedSame, DeauthenticatedPolls DEF Same
    <3>2. session' = login(b)
      BY <2>1, <2>3 DEF Rejected
    <3> HIDE DEF b
    <3> QED BY <3>1, <3>2, LoginPolls DEF Polls
  <2> QED BY <2>2, <2>3
<1>10. CASE UNCHANGED session
  BY <1>10 DEF Polls
<1>11. CASE poll \/ UNCHANGED vars
  BY <1>10, <1>11 DEF poll, vars
<1>12. ASSUME NEW r \in replies, handleNotificationsReply(r) \/ Unreadable(r) \/ Failed(r) PROVE Polls(session)'
  BY <1>10, <1>12 DEF handleNotificationsReply, Unreadable, Failed
<1>13. ASSUME NEW t \in Thread, Arrives(t) \/ markAsRead(t) \/ ReadElsewhere(t) PROVE Polls(session)'
  BY <1>10, <1>13 DEF Arrives, markAsRead, ReadElsewhere, Changed
<1>14. CASE stop \/ Crash
  BY <1>3, <1>14 DEF stop, Crash
<1>15. ASSUME NEW r \in replies, CrashMidReply(r) PROVE Polls(session)'
  BY <1>3, <1>15 DEF CrashMidReply
<1> QED
  BY <1>2, <1>4, <1>5, <1>6, <1>8, <1>9, <1>11, <1>12, <1>13, <1>14, <1>15 DEF Next, Reply

LEMMA NextFlags == ASSUME KInv, Flags, [Next]_vars PROVE Flags'
<1>1. Polls(session)'
  BY NextPolls DEF Flags
<1>2. service' = service
  BY DEF Next, Reply, start, stop, Crash, JobFinished, FlowEnds, AutoRefresh, RefreshEnds, logout, poll,
         handleNotificationsReply, Unreadable, Failed, Unauthorized, CrashMidReply,
         Arrives, markAsRead, ReadElsewhere, Changed, vars
<1>3. torn' \in {torn, TRUE}
  BY DEF Next, Reply, start, stop, Crash, JobFinished, FlowEnds, AutoRefresh, RefreshEnds, logout, poll,
         handleNotificationsReply, Unreadable, Failed, Unauthorized, ErrorHeaders, CrashMidReply,
         Arrives, markAsRead, ReadElsewhere, Changed, vars, history, inbox
<1>4. refused' \in BOOLEAN
  <2>1. ASSUME NEW ok \in BOOLEAN, JobFinished(ok) PROVE refused' \in BOOLEAN
    BY <2>1 DEF JobFinished
  <2>2. refused' = refused \/ \E ok \in BOOLEAN : JobFinished(ok)
    BY DEF Next, Reply, start, stop, Crash, FlowEnds, AutoRefresh, RefreshEnds, logout, poll,
           handleNotificationsReply, Unreadable, Failed, Unauthorized, CrashMidReply,
           Arrives, markAsRead, ReadElsewhere, Changed, vars, history, inbox
  <2> QED BY <2>1, <2>2 DEF Flags
<1> QED BY <1>1, <1>2, <1>3, <1>4 DEF Flags

\* Types, for any threads and tokens: validators and replies never stand for a
\* version the service has not had, and the timer polls exactly while the
\* client is authenticated.
THEOREM TypeCorrect == Spec => []TypeOK
<1>1. Init => IInv /\ KInv /\ Flags
  <2>1. Polls(Off)
    BY DEF Off, Polls
  <2>2. Init => Flags
    BY <2>1 DEF Init, Flags
  <2> QED BY <2>2, InitIInv, InitKInv
<1>2. IInv /\ KInv /\ Flags /\ [Next]_vars => (IInv /\ KInv /\ Flags)'
  BY NextIInv, NextKInv, NextFlags
<1>3. IInv /\ KInv /\ Flags => TypeOK
  <2> SUFFICES ASSUME IInv, KInv, Flags PROVE TypeOK
    OBVIOUS
  <2>1. log \in Seq(SUBSET Thread) /\ log # <<>> /\ Version \in Nat
    BY DEF IInv, Shape, Version
  <2>2. etag \in 0..Version /\ settings \in [seenIds : SUBSET Thread, etag : 0..Version]
    BY <2>1 DEF IInv, Shape, Version, Settings
  <2>3. replies \subseteq [at : 1..Version, same : BOOLEAN]
    BY <2>1 DEF IInv, Shape, Version
  <2>4. seenIds \subseteq Thread /\ announced \in [Thread -> 0..2]
    BY DEF IInv, Shape
  <2> QED BY <2>1, <2>2, <2>3, <2>4 DEF TypeOK, KInv, Keychain, Flags, Polls
<1> QED BY <1>1, <1>2, <1>3, PTL DEF Spec
=============================================================================
