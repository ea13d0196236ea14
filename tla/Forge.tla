------------------------------- MODULE Forge -------------------------------
(***************************************************************************)
(* The clients of the code forges (plugin/src/clients, classes GitHub and  *)
(* Codeberg).  A client loads its tokens from the keychain, logs in when   *)
(* there are none, polls the unread threads of the account and announces   *)
(* each of them once, over restarts of the bar.  The keychain, the OAuth   *)
(* flows and the service answer when they like, while the user logs out,   *)
(* turns the integration off or the bar dies.                              *)
(*                                                                         *)
(* Both classes are one module; where they differ the actions say so.      *)
(* A poll meets the service when it is sent and its reply may come at any  *)
(* later time, in any order.  The list the class keeps for display, the    *)
(* poll interval and the desktop notices are left out.                     *)
(***************************************************************************)
EXTENDS Naturals, Sequences, FiniteSets

CONSTANTS
  Thread,        \* the threads of the account
  Token,         \* access tokens
  RefreshToken,  \* refresh tokens
  None,          \* no token
  MaxVersion,    \* bound: versions of the list of unread threads
  MaxReplies,    \* bound: replies on their way
  MaxJobs        \* bound: keychain jobs queued

ASSUME ForgeAssumption ==
  None \notin Token \cup RefreshToken /\ MaxVersion \in Nat /\ MaxReplies \in Nat /\ MaxJobs \in Nat

VARIABLES
  service,    \* which class
  session,    \* the members about the login, Off when there is no object
  seenIds,    \* member: threads announced
  etag,       \* member: etag and lastModified, the version they stand for
  settings,   \* disk: seenIds and etag as last written
  keychain,   \* external: the two entries
  log,        \* service: the unread threads, by version
  replies,    \* replies on their way to this object
  announced,  \* history: how often each thread was announced
  torn,       \* history: a reply with a body was not handled to its end
  refused     \* history: a keychain job has failed

history == <<announced, torn, refused>>
inbox == <<seenIds, etag, settings, announced, torn>>
vars == <<service, session, seenIds, etag, settings, keychain, log, replies, history>>

Job == [do : {"readToken", "deleteToken", "deleteRefresh"}, token : {None}]
         \cup [do : {"readRefresh", "writeToken"}, token : Token]
         \cup [do : {"writeRefresh"}, token : RefreshToken]

\* oauth2's tokens, a running grant or refresh, mAuthenticated, the timer, the jobs
Session == [alive : BOOLEAN, token : Token \cup {None}, refresh : RefreshToken \cup {None},
            flow : BOOLEAN, refreshing : BOOLEAN, authenticated : BOOLEAN, polling : BOOLEAN,
            jobs : Seq(Job)]

Off == [alive |-> FALSE, token |-> None, refresh |-> None, flow |-> FALSE, refreshing |-> FALSE,
        authenticated |-> FALSE, polling |-> FALSE, jobs |-> <<>>]

Version == Len(log)
Unread == log[Version]

Enqueue(s, do, token) == [s EXCEPT !.jobs = Append(@, [do |-> do, token |-> token])]

-----------------------------------------------------------------------------
(* What the handlers of the session are built from: s is a session.         *)

setToken(s, t) ==
  LET new == [s EXCEPT !.token = t]
  IN  IF t \in {None, s.token} THEN new ELSE Enqueue(new, "writeToken", t)

setRefreshToken_First(s, r) ==  \* mutant: a token that replaces another is not written
  LET new == [s EXCEPT !.refresh = r]
  IN  IF r # None /\ s.refresh = None THEN Enqueue(new, "writeRefresh", r) ELSE new

setRefreshToken(s, r) ==
  LET new == [s EXCEPT !.refresh = r]
  IN  IF r \in {None, s.refresh} THEN new ELSE Enqueue(new, "writeRefresh", r)

login(s) == [s EXCEPT !.flow = TRUE]

onOAuthGranted(s) == [s EXCEPT !.authenticated = TRUE, !.polling = s.polling \/ ~s.authenticated]

onOAuthDeauthenticated(s) == [s EXCEPT !.authenticated = FALSE, !.polling = FALSE]

\* the branch of statusChanged for Granted; GitHub grants anew when it can refresh
Granted(s) ==
  LET in == onOAuthGranted(s)
  IN  IF service = "github" /\ in.refresh # None THEN login(in) ELSE in

\* GitHub's stopTokenPolling ends the grant
loggedOut(s) ==
  LET out == [s EXCEPT !.polling = FALSE, !.authenticated = FALSE, !.token = None,
                       !.refresh = None, !.flow = service # "github" /\ s.flow]
  IN  Enqueue(Enqueue(out, "deleteToken", None), "deleteRefresh", None)

\* the service meets a poll that carries the validators v
Answer(v) == [at |-> Version, same |-> service = "github" /\ v = Version]

\* onOAuthGranted polls when it finds the client not authenticated
Becomes(s) ==
  /\ session' = s
  /\ Len(s.jobs) <= MaxJobs
  /\ replies' = IF s.authenticated /\ ~session.authenticated THEN replies \cup {Answer(etag)} ELSE replies
  /\ Cardinality(replies') <= MaxReplies

-----------------------------------------------------------------------------
(* The object: made, with the tokens read from the keychain, and destroyed. *)

start ==
  /\ ~session.alive
  /\ session' = [Off EXCEPT !.alive = TRUE, !.jobs = <<[do |-> "readToken", token |-> None]>>]
  /\ seenIds' = settings.seenIds
  /\ etag' = settings.etag
  /\ UNCHANGED <<service, settings, keychain, log, replies, history>>

Gone == session' = Off /\ seenIds' = {} /\ etag' = 0 /\ replies' = {}

stop ==
  /\ session.alive /\ Gone
  /\ settings' = [settings EXCEPT !.seenIds = seenIds]
  /\ UNCHANGED <<service, keychain, log, history>>

Crash ==
  /\ session.alive /\ Gone
  /\ UNCHANGED <<service, settings, keychain, log, history>>

-----------------------------------------------------------------------------
(* The keychain runs the jobs one at a time, in the order they were queued. *)

\* what the finished job does to the session; a failed read counts as an empty one
Finished(s, job, ok) ==
  CASE job.do = "readToken" ->
         IF ok /\ keychain.token # None THEN Enqueue(s, "readRefresh", keychain.token) ELSE login(s)
    [] job.do = "readRefresh" ->
         LET r == IF ok /\ keychain.refresh # None THEN setRefreshToken(s, keychain.refresh) ELSE s
         IN  onOAuthGranted(setToken(r, job.token))
    [] OTHER -> s

Kept(job) ==
  CASE job.do = "writeToken" -> [keychain EXCEPT !.token = job.token]
    [] job.do = "deleteToken" -> [keychain EXCEPT !.token = None]
    [] job.do = "writeRefresh" -> [keychain EXCEPT !.refresh = job.token]
    [] job.do = "deleteRefresh" -> [keychain EXCEPT !.refresh = None]
    [] OTHER -> keychain

JobFinished(ok) ==
  /\ session.jobs # <<>>
  /\ LET job == Head(session.jobs)
     IN  /\ Becomes(Finished([session EXCEPT !.jobs = Tail(@)], job, ok))
         /\ keychain' = IF ok THEN Kept(job) ELSE keychain
  /\ refused' = (refused \/ ~ok)
  /\ UNCHANGED <<service, seenIds, etag, settings, log, announced, torn>>

-----------------------------------------------------------------------------
(* The OAuth object: grants and refreshes that end, well or not.            *)

\* a new access token, with a refresh token or without
Acquires(s, t, r) == Granted(setToken(setRefreshToken(s, r), t))

FlowEnds ==
  /\ session.flow
  /\ LET s == [session EXCEPT !.flow = FALSE]
     IN  \/ \E t \in Token \ {session.token}, r \in RefreshToken \cup {None} : Becomes(Acquires(s, t, r))
         \/ Becomes(onOAuthDeauthenticated(s))
         \/ Becomes(s)
  /\ UNCHANGED <<service, inbox, keychain, log, refused>>

AutoRefresh ==
  /\ session.refresh # None /\ ~session.refreshing
  /\ Becomes([session EXCEPT !.refreshing = TRUE])
  /\ UNCHANGED <<service, inbox, keychain, log, refused>>

\* a refresh may come with the next refresh token; a failed one reports the
\* login it had, or none
RefreshEnds ==
  /\ session.refreshing
  /\ LET s == [session EXCEPT !.refreshing = FALSE]
     IN  \/ \E t \in Token \ {session.token}, r \in RefreshToken \cup {session.refresh} : Becomes(Acquires(s, t, r))
         \/ Becomes(Granted(s))
         \/ Becomes(onOAuthDeauthenticated(s))
  /\ UNCHANGED <<service, inbox, keychain, log, refused>>

logout ==
  /\ session.alive
  /\ Becomes(loggedOut(session))
  /\ UNCHANGED <<service, inbox, keychain, log, refused>>

-----------------------------------------------------------------------------
(* The polls.                                                               *)

poll ==
  /\ session.authenticated
  /\ replies' = replies \cup {Answer(etag)}
  /\ Cardinality(replies') <= MaxReplies
  /\ UNCHANGED <<service, session, inbox, keychain, log, refused>>

\* announces the threads of new: the whole reply, or up to where the bar dies
Announce(new) == announced' = [t \in Thread |-> IF t \in new /\ announced[t] < 2 THEN announced[t] + 1 ELSE announced[t]]

TakeHeaders(r) == etag' = IF service = "github" THEN r.at ELSE etag

News(r) == log[r.at] \ seenIds

\* the settings a reply leaves: GitHub's persistLastPoll, then persistSeenIds
LastPoll(r) == IF service = "github" THEN [settings EXCEPT !.etag = r.at] ELSE settings
Persisted_Never(r) == LastPoll(r)  \* mutant: the seen threads wait for stop
Persisted(r) == IF News(r) # {} THEN [LastPoll(r) EXCEPT !.seenIds = seenIds \cup News(r)] ELSE LastPoll(r)

Takes_First(r) ==  \* mutant: one thread is announced, the others at the next poll
  LET new == IF News(r) = {} THEN {} ELSE {CHOOSE t \in News(r) : TRUE}
  IN  seenIds' = seenIds \cup new /\ Announce(new)

Takes(r) == seenIds' = seenIds \cup News(r) /\ Announce(News(r))

\* the list of threads, or nothing new since etag
handleNotificationsReply(r) ==
  /\ replies' = replies \ {r}
  /\ TakeHeaders(r)
  /\ IF r.same THEN UNCHANGED <<seenIds, settings, announced>>
     ELSE Takes(r) /\ settings' = Persisted(r)
  /\ UNCHANGED <<service, session, keychain, log, torn, refused>>

\* a success whose body is not a list: GitHub has taken its headers
Unreadable(r) ==
  /\ ~r.same
  /\ replies' = replies \ {r}
  /\ TakeHeaders(r)
  /\ torn' = TRUE
  /\ UNCHANGED <<service, session, seenIds, settings, keychain, log, announced, refused>>

\* The headers of an error are taken as well; its validators, if it has any,
\* stand for no version of the list.
ErrorHeaders ==
  /\ etag' \in IF service = "github" THEN {etag, 0} ELSE {etag}
  /\ UNCHANGED <<seenIds, settings, announced, torn>>

Failed(r) ==
  /\ replies' = replies \ {r}
  /\ ErrorHeaders
  /\ UNCHANGED <<service, session, keychain, log, refused>>

\* 401: refresh when there is a refresh token, log in when there is none
Rejected(s) ==
  IF s.refresh # None THEN [s EXCEPT !.refreshing = TRUE]
  ELSE login(IF service = "github" THEN loggedOut(s) ELSE onOAuthDeauthenticated(s))

Unauthorized(r) ==
  /\ replies' = replies \ {r}
  /\ session' = Rejected(session)
  /\ Len(session'.jobs) <= MaxJobs
  /\ ErrorHeaders
  /\ UNCHANGED <<service, keychain, log, refused>>

\* the bar dies between two notices of a reply: nothing was written but the last poll
CrashMidReply(r) ==
  /\ ~r.same /\ News(r) # {} /\ Gone
  /\ \E some \in SUBSET News(r) : Announce(some)
  /\ settings' = LastPoll(r)
  /\ torn' = TRUE
  /\ UNCHANGED <<service, keychain, log, refused>>

Reply == \E r \in replies :
  handleNotificationsReply(r) \/ Unreadable(r) \/ Failed(r) \/ Unauthorized(r) \/ CrashMidReply(r)

-----------------------------------------------------------------------------
(* The account: a thread gets news, or is read, here or elsewhere.          *)

Changed(unread) ==
  /\ Version < MaxVersion
  /\ log' = Append(log, unread)
  /\ UNCHANGED <<service, session, replies, inbox, keychain, refused>>

Arrives(t) == t \notin Unread /\ Changed(Unread \cup {t})

\* from a notice, while the token is good; a refusal is only logged
markAsRead(t) == session.alive /\ session.token # None /\ announced[t] > 0 /\ t \in Unread /\ Changed(Unread \ {t})

ReadElsewhere(t) == t \in Unread /\ Changed(Unread \ {t})

-----------------------------------------------------------------------------
Init ==
  /\ service \in {"github", "codeberg"}
  /\ session = Off
  /\ seenIds = {} /\ etag = 0
  /\ settings = [seenIds |-> {}, etag |-> 0]
  /\ keychain = [token |-> None, refresh |-> None]
  /\ log = <<{}>>
  /\ replies = {}
  /\ announced = [t \in Thread |-> 0]
  /\ torn = FALSE /\ refused = FALSE

Next ==
  \/ start \/ stop \/ Crash
  \/ \E ok \in BOOLEAN : JobFinished(ok)
  \/ FlowEnds \/ AutoRefresh \/ RefreshEnds \/ logout
  \/ poll \/ Reply
  \/ \E t \in Thread : Arrives(t) \/ markAsRead(t) \/ ReadElsewhere(t)

Spec == Init /\ [][Next]_vars

-----------------------------------------------------------------------------
TypeOK ==
  /\ service \in {"github", "codeberg"}
  /\ session \in Session /\ session.polling = session.authenticated
  /\ log \in Seq(SUBSET Thread) /\ log # <<>>
  /\ etag \in 0..Version /\ settings \in [seenIds : SUBSET Thread, etag : 0..Version]
  /\ seenIds \subseteq Thread
  /\ keychain \in [token : Token \cup {None}, refresh : RefreshToken \cup {None}]
  /\ replies \subseteq [at : 1..Version, same : BOOLEAN]
  /\ announced \in [Thread -> 0..2]
  /\ torn \in BOOLEAN /\ refused \in BOOLEAN

\* Once the keychain has done its jobs it holds the token in use, and the
\* refresh token when the session has one, also one that replaced another,
\* whatever order loads, grants, refreshes and logouts came in: what the next
\* start reads is what this one ended with.  (A grant without a refresh token
\* leaves an older one where it is.)
StoredFollows ==
  session.alive /\ session.jobs = <<>> /\ ~refused =>
    keychain.token = session.token /\ session.refresh \in {None, keychain.refresh}

\* A thread is announced once, over reordered replies, logins and restarts:
\* what is forgotten when the bar dies was not announced yet.
AnnouncedOnce == ~torn => \A t \in Thread : announced[t] <= 1

\* While the validators would make the service answer that there is nothing
\* new, every unread thread has been announced, also when they come from the
\* settings of an earlier start.
NothingMissed ==
  ~torn /\ session.alive /\ etag = Version => \A t \in Unread : announced[t] > 0
=============================================================================
