------------------------------ MODULE WaSession ------------------------------
(***************************************************************************)
(* The WhatsApp session of one account: the lock in Redis, the processes   *)
(* of the WhatsApp worker that may own it, the sockets they open, the      *)
(* commands of the API, the reconnect jobs and the policy that signs a     *)
(* number out when its campaign has finished.                              *)
(*                                                                         *)
(* Sessions of different accounts share no key and no row, so one account  *)
(* is enough.  A process runs several commands at once                     *)
(* (WA_SESSION_CONCURRENCY) beside its reconnect job, and a call of        *)
(* provider.connect waits for the stored credentials before it opens the   *)
(* socket: `calls' are those in flight, and everything may run meanwhile.  *)
(* A lock is stored under a token of its acquisition; a process has one    *)
(* entry in its registry, so the process stands for the token, and Stale   *)
(* for a token whose holder is gone.                                       *)
(***************************************************************************)
EXTENDS Integers, FiniteSets

CONSTANTS
  Process,        \* processes of the WhatsApp worker
  LinkBy,         \* how a user may link a device: "connect" (QR), "pairing" (code)
  MaxReconnects,  \* WA_MAX_RECONNECT_ATTEMPTS
  MaxLogins,      \* bound on the links the user asks for
  MaxStops,       \* bound on deaths of a process
  MaxExpiries,    \* bound on locks lost by a running process
  MaxDrops,       \* bound on sockets that close before they are open ...
  DropsForever,   \* ... unless the network never lets one open
  Free, Stale

ASSUME SessionAssumption ==
  /\ LinkBy \subseteq {"connect", "pairing"}
  /\ MaxReconnects \in Nat \ {0}
  /\ {MaxLogins, MaxStops, MaxExpiries, MaxDrops} \subseteq Nat
  /\ DropsForever \in BOOLEAN
  /\ Free # Stale /\ {Free, Stale} \cap Process = {}

VARIABLES
  waLock,      \* who holds wa:session:<id>: a process, Stale or Free
  registered,  \* processes with an entry for the account in their live map
  socket,      \* the socket in each process's provider map
  orphans,     \* processes with an open socket their map does not name
  calls,       \* calls of provider.connect in flight
  signingOut,  \* sign-outs whose socket is closed and whose clean-up is due
  up,          \* processes that run
  waStatus,    \* WhatsAppAccount.status
  linked,      \* credentials of a linked device are stored
  login,       \* WhatsAppAccount.linkedAt, as the number of the login
  commands,    \* the session queue
  retries,     \* attempts with a reconnect job waiting
  campaign,    \* the user's Auto campaigns since the login
  faults       \* how often each bounded fault has happened

accountVars == <<waStatus, linked, login>>
processVars == <<registered, socket, orphans, calls, signingOut, up>>
queueVars == <<commands, retries>>
sessionVars == <<waLock, processVars, accountVars, queueVars, campaign, faults>>

WaStatus == {"DISCONNECTED", "CONNECTING", "QR_READY", "CONNECTED",
             "RECONNECTING", "ERROR", "LOGGED_OUT"}

\* Statuses a campaign may send from.
Sendable == {"CONNECTED", "RECONNECTING"}

Logins == 1..MaxLogins

\* Who called provider.connect: a command of the user for a login, the
\* reconnect job of an attempt, or restoreAll at boot.
Callers == (LinkBy \X Logins) \cup ({"reconnect"} \X (1..MaxReconnects))
             \cup {<<"restore", 0>>}

\* A disconnect names the login it was decided for, or 0 when the user asked.
Commands == (LinkBy \X Logins) \cup ({"disconnect"} \X (0..MaxLogins))

WaTypeOK ==
  /\ waLock \in Process \cup {Free, Stale}
  /\ registered \subseteq Process
  /\ socket \in [Process -> {"none", "linking", "qr", "open"}]
  /\ orphans \subseteq Process
  /\ calls \subseteq Process \X Callers
  /\ signingOut \subseteq Process \X (0..MaxLogins)
  /\ up \subseteq Process
  /\ waStatus \in WaStatus
  /\ linked \in BOOLEAN
  /\ login \in 0..MaxLogins
  /\ commands \subseteq Commands
  /\ retries \subseteq 1..MaxReconnects
  /\ campaign \in {"none", "sending", "finished"}
  /\ faults \in [crashes : Nat, expiries : Nat, drops : Nat]

WaInit ==
  /\ waLock = Free /\ registered = {} /\ orphans = {} /\ calls = {} /\ signingOut = {}
  /\ socket = [p \in Process |-> "none"]
  /\ up = Process
  /\ waStatus = "DISCONNECTED" /\ linked = FALSE /\ login = 0
  /\ commands = {} /\ retries = {}
  /\ campaign = "none"
  /\ faults = [crashes |-> 0, expiries |-> 0, drops |-> 0]

\* restoreAll ends before the process takes work from the queues.
Serving(p) == p \in up /\ <<p, <<"restore", 0>>>> \notin calls

-----------------------------------------------------------------------------
(* Pieces of the handlers.                                                  *)

\* The lock once p has released what its entry holds, if it has one.
Released(p) == IF p \in registered /\ waLock = p THEN Free ELSE waLock

\* The entry dropped before the lock is read from it.
Faulty_Release(p) == registered' = registered \ {p} /\ UNCHANGED waLock

\* releaseLock: the entry leaves the registry, and the lock its own token.
Release(p) == registered' = registered \ {p} /\ waLock' = Released(p)

\* scheduleReconnect: the job id names the attempt, so a job of that attempt
\* that waits or runs swallows the new one.
Scheduled(n) ==
  IF n > MaxReconnects \/ \E p \in Process : <<p, <<"reconnect", n>>>> \in calls
  THEN retries ELSE retries \cup {n}

StatusAfterScheduling(n, s) == IF n > MaxReconnects THEN "ERROR" ELSE s

\* The lock, then the entry: the answer of Redis and live.set are one step here.
\* A process that dies in between leaves what one that dies after it leaves, a
\* Stale lock and no entry.
Acquire(p, by) ==
  /\ waLock' = p
  /\ registered' = registered \cup {p}
  /\ socket' = [socket EXCEPT ![p] = "none"]
  /\ calls' = calls \cup {<<p, by>>}
  /\ waStatus' = "CONNECTING"

\* The socket of p closed by itself: its handler drops whatever the map names.
Forget(p) == socket' = [socket EXCEPT ![p] = "none"]

-----------------------------------------------------------------------------
(* The API: linking and unlinking, and the session policy.                  *)

\* requestConnect and requestPairingCode, offered while nothing is linked.
RequestLink(type) ==
  /\ login < MaxLogins /\ waStatus \notin Sendable
  /\ waStatus' = "CONNECTING" /\ login' = login + 1 /\ campaign' = "none"
  /\ commands' = commands \cup {<<type, login + 1>>}
  /\ UNCHANGED <<waLock, processVars, linked, retries, faults>>

RequestDisconnect ==
  /\ waStatus \in Sendable
  /\ commands' = commands \cup {<<"disconnect", 0>>}
  /\ UNCHANGED <<waLock, processVars, accountVars, retries, campaign, faults>>

\* sweepWhatsAppSessions and settleWhatsAppSession: nothing is left to send.
PolicySignsOut ==
  /\ waStatus \in Sendable \/ (waStatus = "ERROR" /\ linked)
  /\ campaign = "finished"
  /\ commands' = commands \cup {<<"disconnect", login>>}
  /\ UNCHANGED <<waLock, processVars, accountVars, retries, campaign, faults>>

\* assertWhatsAppReady lets a campaign start.
CampaignStarts ==
  /\ waStatus \in Sendable /\ campaign # "sending"
  /\ campaign' = "sending"
  /\ UNCHANGED <<waLock, processVars, accountVars, queueVars, faults>>

CampaignFinishes ==
  /\ campaign = "sending"
  /\ campaign' = "finished"
  /\ UNCHANGED <<waLock, processVars, accountVars, queueVars, faults>>

-----------------------------------------------------------------------------
(* Commands.                                                                *)

\* connect: an entry of its own or a lock of another process ends it.
Connect(p, n) ==
  /\ <<"connect", n>> \in commands
  /\ commands' = commands \ {<<"connect", n>>}
  /\ \/ p \notin registered /\ waLock = Free /\ Acquire(p, <<"connect", n>>)
     \/ /\ p \in registered \/ waLock # Free
        /\ UNCHANGED <<waLock, registered, socket, calls, waStatus>>
  /\ UNCHANGED <<orphans, signingOut, up, linked, login, retries, campaign, faults>>

\* requestPairingCode: from a clean slate, unless the account is linked.
RequestPairingCode(p, n) ==
  /\ <<"pairing", n>> \in commands
  /\ commands' = commands \ {<<"pairing", n>>}
  /\ \/ waStatus = "CONNECTED" /\ UNCHANGED <<waLock, registered, socket, calls, waStatus, linked>>
     \/ /\ waStatus # "CONNECTED" /\ linked' = FALSE
        /\ \/ Released(p) = Free /\ Acquire(p, <<"pairing", n>>)
           \/ /\ Released(p) # Free
              /\ registered' = registered \ {p}
              /\ socket' = IF p \in registered THEN [socket EXCEPT ![p] = "none"] ELSE socket
              /\ waStatus' = "ERROR"
              /\ UNCHANGED <<waLock, calls>>
  /\ UNCHANGED <<orphans, signingOut, up, login, retries, campaign, faults>>

\* disconnect, as far as the socket; a command for an earlier login is skipped.
Disconnect(p, n) ==
  /\ <<"disconnect", n>> \in commands
  /\ commands' = commands \ {<<"disconnect", n>>}
  /\ \/ n \notin {0, login} /\ UNCHANGED <<socket, signingOut>>
     \/ n \in {0, login} /\ Forget(p) /\ signingOut' = signingOut \cup {<<p, n>>}
  /\ UNCHANGED <<waLock, registered, orphans, calls, up, accountVars, retries, campaign, faults>>

\* The rest of it: credentials, queued messages, lock, status.
FinishDisconnect(p, n) ==
  /\ <<p, n>> \in signingOut
  /\ signingOut' = signingOut \ {<<p, n>>}
  /\ linked' = FALSE /\ waStatus' = "DISCONNECTED" /\ campaign' = "none"
  /\ Release(p)
  /\ UNCHANGED <<socket, orphans, calls, up, login, queueVars, faults>>

-----------------------------------------------------------------------------
(* provider.connect.                                                        *)

\* The socket exists from here on, whoever holds the lock by now.  One that
\* the map named before stays open and is named no more.
SocketCreated(p, by) ==
  /\ <<p, by>> \in calls
  /\ calls' = calls \ {<<p, by>>}
  /\ orphans' = IF socket[p] = "none" THEN orphans ELSE orphans \cup {p}
  /\ socket' = [socket EXCEPT ![p] = "linking"]
  /\ UNCHANGED <<waLock, registered, signingOut, up, accountVars, queueVars, campaign, faults>>

\* It threw: the lock is released, and a reconnect job plans the next one.
ConnectFails(p, by) ==
  /\ <<p, by>> \in calls
  /\ calls' = calls \ {<<p, by>>}
  /\ Release(p)
  /\ waStatus' = "ERROR"
  /\ retries' = CASE by[1] = "reconnect" -> Scheduled(by[2] + 1)
                  [] by[1] = "restore" -> Scheduled(1)
                  [] OTHER -> retries
  /\ UNCHANGED <<socket, orphans, signingOut, up, linked, login, commands, campaign, faults>>

ShowQr(p) ==
  /\ socket[p] = "linking" /\ ~linked
  /\ socket' = [socket EXCEPT ![p] = "qr"]
  /\ waStatus' = "QR_READY"
  /\ UNCHANGED <<waLock, registered, orphans, calls, signingOut, up, linked, login, queueVars, campaign, faults>>

\* onConnected.
SocketOpens(p) ==
  /\ socket[p] = "linking" /\ linked
  /\ socket' = [socket EXCEPT ![p] = "open"]
  /\ waStatus' = "CONNECTED"
  /\ UNCHANGED <<waLock, registered, orphans, calls, signingOut, up, linked, login, queueVars, campaign, faults>>

\* The handle of the closed socket stays in the registry.
Faulty_Closed(p) ==
  /\ UNCHANGED <<registered, waLock>>
  /\ waStatus' = "RECONNECTING"
  /\ retries' = Scheduled(1)
  /\ UNCHANGED <<calls, signingOut, up, login, commands, campaign>>

\* A transient close: onClosed releases the lock and plans a first attempt.
Closed(p) ==
  /\ Release(p)
  /\ waStatus' = "RECONNECTING"
  /\ retries' = Scheduled(1)
  /\ UNCHANGED <<calls, signingOut, up, login, commands, campaign>>

\* The network closes a socket before it was of use: a bounded fault, unless
\* the network never lets one open.
NetworkFault ==
  /\ DropsForever \/ faults.drops < MaxDrops
  /\ faults' = IF DropsForever THEN faults ELSE [faults EXCEPT !.drops = @ + 1]

Drop(p) ==
  /\ \/ socket[p] = "open" /\ UNCHANGED faults
     \/ socket[p] \in {"linking", "qr"} /\ NetworkFault
  /\ Forget(p) /\ Closed(p)
  /\ UNCHANGED <<orphans, linked>>

\* The user scanned the code or typed it: WhatsApp closes the socket and
\* expects another one.
PhoneLinked(p) ==
  /\ socket[p] = "qr"
  /\ linked' = TRUE
  /\ Forget(p) /\ Closed(p)
  /\ UNCHANGED <<orphans, faults>>

\* The end of a socket for good: failExpired for a code nobody used, a fatal
\* close, or an unlinked device, whose credentials are wiped.
SocketEnds(p) ==
  /\ Forget(p) /\ Release(p)
  /\ \/ socket[p] = "qr" /\ waStatus' = "ERROR" /\ UNCHANGED <<linked, campaign>>
     \/ socket[p] \in {"linking", "open"} /\ waStatus' = "ERROR" /\ UNCHANGED <<linked, campaign>>
     \/ /\ socket[p] \in {"linking", "open"} /\ linked
        /\ waStatus' = "LOGGED_OUT" /\ linked' = FALSE /\ campaign' = "none"
  /\ UNCHANGED <<orphans, calls, signingOut, up, login, queueVars, faults>>

\* The handler of a socket the map no longer names acts on what it does name.
OrphanCloses(p) ==
  /\ p \in orphans
  /\ orphans' = IF socket[p] = "none" THEN orphans \ {p} ELSE orphans
  /\ NetworkFault
  /\ Forget(p) /\ Closed(p)
  /\ UNCHANGED linked

-----------------------------------------------------------------------------
(* Reconnecting and restoring.                                              *)

Reconnect(p, n) ==
  /\ n \in retries /\ ~\E m \in 1..MaxReconnects : <<p, <<"reconnect", m>>>> \in calls
  /\ \/ /\ waStatus \in {"DISCONNECTED", "LOGGED_OUT"} \/ p \in registered
        /\ retries' = retries \ {n}
        /\ UNCHANGED <<waLock, registered, socket, calls, waStatus>>
     \/ /\ waStatus \notin {"DISCONNECTED", "LOGGED_OUT"} /\ p \notin registered
        /\ waLock = Free
        /\ retries' = retries \ {n}
        /\ Acquire(p, <<"reconnect", n>>)
     \/ /\ waStatus \notin {"DISCONNECTED", "LOGGED_OUT"} /\ p \notin registered
        /\ waLock # Free
        /\ retries' = Scheduled(n + 1) \ {n}
        /\ waStatus' = StatusAfterScheduling(n + 1, waStatus)
        /\ UNCHANGED <<waLock, registered, socket, calls>>
  /\ UNCHANGED <<orphans, signingOut, up, linked, login, commands, campaign, faults>>

\* A process starts: restoreAll.
Boot(p) ==
  /\ p \notin up /\ up' = up \cup {p}
  /\ \/ /\ waStatus \in {"CONNECTED", "RECONNECTING"} \/ (waStatus = "CONNECTING" /\ linked)
        /\ \/ waLock = Free /\ Acquire(p, <<"restore", 0>>) /\ UNCHANGED retries
           \/ /\ waLock # Free /\ retries' = Scheduled(1)
              /\ UNCHANGED <<waLock, registered, socket, calls, waStatus>>
     \/ /\ waStatus = "CONNECTING" /\ ~linked
        /\ waStatus' = "DISCONNECTED"
        /\ UNCHANGED <<waLock, registered, socket, calls, retries>>
     \/ /\ waStatus \notin {"CONNECTED", "RECONNECTING", "CONNECTING"}
        /\ UNCHANGED <<waLock, registered, socket, calls, waStatus, retries>>
  /\ UNCHANGED <<orphans, signingOut, linked, login, commands, campaign, faults>>

\* Everything the process holds in memory ends with it.
Stopped(p) ==
  /\ p \in up /\ up' = up \ {p}
  /\ registered' = registered \ {p} /\ orphans' = orphans \ {p}
  /\ Forget(p)
  /\ UNCHANGED <<accountVars, campaign>>

\* shutdown: the workers are closed when their jobs have ended.
Shutdown(p) ==
  /\ Stopped(p)
  /\ \A by \in Callers : <<p, by>> \notin calls
  /\ \A n \in 0..MaxLogins : <<p, n>> \notin signingOut
  /\ faults.crashes < MaxStops /\ faults' = [faults EXCEPT !.crashes = @ + 1]
  /\ waLock' = Released(p)
  /\ UNCHANGED <<calls, signingOut, queueVars>>

\* The process dies: its lock stays, and the queues give its jobs out again.
Crash(p) ==
  /\ Stopped(p)
  /\ faults.crashes < MaxStops /\ faults' = [faults EXCEPT !.crashes = @ + 1]
  /\ waLock' = IF waLock = p THEN Stale ELSE waLock
  /\ calls' = {c \in calls : c[1] # p}
  /\ signingOut' = {s \in signingOut : s[1] # p}
  /\ commands' = commands \cup {by \in Callers : by[1] \in LinkBy /\ <<p, by>> \in calls}
                          \cup {<<"disconnect", n>> : n \in {m \in 0..MaxLogins : <<p, m>> \in signingOut}}
  /\ retries' = retries \cup {n \in 1..MaxReconnects : <<p, <<"reconnect", n>>>> \in calls}

-----------------------------------------------------------------------------
(* The lock.                                                                *)

\* The time to live of a lock nobody renews runs out.
LockExpires ==
  /\ waLock = Stale
  /\ waLock' = Free
  /\ UNCHANGED <<processVars, accountVars, queueVars, campaign, faults>>

\* A process that runs is too busy to renew it.
LockExpiresUnderHolder ==
  /\ waLock \in registered /\ faults.expiries < MaxExpiries
  /\ faults' = [faults EXCEPT !.expiries = @ + 1]
  /\ waLock' = Free
  /\ UNCHANGED <<processVars, accountVars, queueVars, campaign>>

\* renewOnce cannot prove that the lock is held: forceClose.  The handle is
\* already released, so the key of a lock still held stays until it expires.
RenewalFails(p) ==
  /\ p \in registered
  /\ \/ waLock # p /\ UNCHANGED <<waLock, faults>>
     \/ /\ waLock = p /\ faults.expiries < MaxExpiries
        /\ waLock' = Stale
        /\ faults' = [faults EXCEPT !.expiries = @ + 1]
  /\ registered' = registered \ {p}
  /\ Forget(p)
  /\ waStatus' = "ERROR"
  /\ UNCHANGED <<orphans, calls, signingOut, up, linked, login, queueVars, campaign>>

-----------------------------------------------------------------------------

UserSteps ==
  \/ \E type \in LinkBy : RequestLink(type)
  \/ RequestDisconnect \/ CampaignStarts \/ CampaignFinishes \/ PolicySignsOut

Command(p) ==
  /\ Serving(p)
  /\ \/ \E n \in Logins : Connect(p, n) \/ RequestPairingCode(p, n)
     \/ \E n \in 0..MaxLogins : Disconnect(p, n)

RetryStep(p) == Serving(p) /\ \E n \in 1..MaxReconnects : Reconnect(p, n)

CallEnds(p) == \E by \in Callers : SocketCreated(p, by) \/ ConnectFails(p, by)

\* What becomes of a socket that is not open yet.
SocketResolves(p) == ShowQr(p) \/ SocketOpens(p) \/ PhoneLinked(p)
                       \/ Drop(p) \/ SocketEnds(p)

ProcessSteps(p) ==
  \/ Command(p) \/ RetryStep(p) \/ CallEnds(p) \/ SocketResolves(p)
  \/ \E n \in 0..MaxLogins : FinishDisconnect(p, n)
  \/ OrphanCloses(p) \/ RenewalFails(p) \/ Boot(p) \/ Shutdown(p) \/ Crash(p)

SessionNext ==
  UserSteps \/ LockExpires \/ LockExpiresUnderHolder \/ \E p \in Process : ProcessSteps(p)

SessionSpec == WaInit /\ [][SessionNext]_sessionVars

\* Queues are served, calls and QR codes end, processes are restarted, locks
\* expire and the policy sweeps; the user need not do anything.
SessionFairness ==
  /\ WF_sessionVars(LockExpires) /\ WF_sessionVars(PolicySignsOut)
  /\ WF_sessionVars(CampaignFinishes)
  /\ \A p \in Process :
       /\ WF_sessionVars(Command(p)) /\ WF_sessionVars(RetryStep(p))
       /\ WF_sessionVars(CallEnds(p)) /\ WF_sessionVars(Boot(p))
       /\ WF_sessionVars(socket[p] # "open" /\ SocketResolves(p))
       /\ WF_sessionVars(RenewalFails(p))
       /\ WF_sessionVars(\E n \in 0..MaxLogins : FinishDisconnect(p, n))

FairSessionSpec == SessionSpec /\ SessionFairness

-----------------------------------------------------------------------------
(* Properties.                                                              *)

\* The lock is never left behind by a process that runs: whoever holds it has
\* the entry its release is read from, so every later connect finds either
\* the entry or a lock that expires (session.manager.ts releaseLock).
LockHolderIsRegistered == waLock \in Process => waLock \in registered

\* An entry of the registry has a socket, or somebody about to open one or to
\* remove the entry.  Without it every later connect answers "already ours"
\* and the account stays at CONNECTING (eventsFor, onStatus).
RegisteredHasSocket ==
  \A p \in registered :
    \/ socket[p] # "none"
    \/ \E by \in Callers : <<p, by>> \in calls
    \/ \E n \in 0..MaxLogins : <<p, n>> \in signingOut

\* A session that dropped comes back, or ends in a status that asks the user
\* to link again, unless the user starts another login meanwhile.
DroppedSessionReturns ==
  \A n \in Logins :
    waStatus = "RECONNECTING" /\ login = n
      ~> waStatus \notin {"CONNECTING", "RECONNECTING"} \/ login # n
=============================================================================
