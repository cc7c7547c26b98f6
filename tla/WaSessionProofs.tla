-------------------------- MODULE WaSessionProofs --------------------------
(***************************************************************************)
(* The session of one account, for any number of processes, logins and     *)
(* reconnect attempts and any number of faults.                            *)
(*                                                                         *)
(* Lock, registry, sockets and calls in flight live in different places    *)
(* and are changed by different handlers.  What keeps them together is     *)
(* that a handler touches the entry and the socket of its own process      *)
(* only: OthersKeepTheirs turns this into one obligation per action.       *)
(***************************************************************************)
EXTENDS WaSession, TLAPS

SessionInv == WaTypeOK /\ LockHolderIsRegistered /\ RegisteredHasSocket

LEMMA SessionStarts == WaInit => SessionInv
<1> SUFFICES ASSUME WaInit PROVE SessionInv
  OBVIOUS
<1>1. MaxLogins \in Nat
  BY SessionAssumption
<1>2. waStatus \in WaStatus /\ login \in 0..MaxLogins
  BY <1>1 DEF WaInit, WaStatus
<1>3. /\ socket \in [Process -> {"none", "linking", "qr", "open"}]
      /\ faults \in [crashes : Nat, expiries : Nat, drops : Nat]
  BY DEF WaInit
<1>4. WaTypeOK
  BY <1>2, <1>3 DEF WaInit, WaTypeOK
<1>5. LockHolderIsRegistered /\ RegisteredHasSocket
  BY SessionAssumption DEF WaInit, LockHolderIsRegistered, RegisteredHasSocket
<1> QED  BY <1>4, <1>5 DEF SessionInv

-----------------------------------------------------------------------------
(* What the pieces of the handlers keep.                                    *)

\* The lock only ever passes to nobody, or stays.
LEMMA ReleasedHolds ==
  ASSUME SessionInv, NEW p \in Process
  PROVE  /\ Released(p) \in Process \cup {Free, Stale}
         /\ Released(p) \in Process => Released(p) \in registered \ {p}
  BY SessionAssumption DEF SessionInv, WaTypeOK, LockHolderIsRegistered, Released

\* A planned attempt is one of those the code allows.
LEMMA ScheduledIsRetry ==
  ASSUME WaTypeOK, NEW n \in Nat \ {0}
  PROVE  Scheduled(n) \subseteq 1..MaxReconnects
<1>1. retries \subseteq 1..MaxReconnects /\ MaxReconnects \in Nat
  BY SessionAssumption DEF WaTypeOK
<1>2. n <= MaxReconnects => n \in 1..MaxReconnects
  BY <1>1
<1>3. Scheduled(n) = retries \/ (n <= MaxReconnects /\ Scheduled(n) = retries \cup {n})
  BY <1>1 DEF Scheduled
<1> QED  BY <1>1, <1>2, <1>3

LEMMA NetworkFaultType ==
  ASSUME WaTypeOK, NetworkFault
  PROVE  faults' \in [crashes : Nat, expiries : Nat, drops : Nat]
<1>1. CASE faults' = faults
  BY <1>1 DEF WaTypeOK
<1>2. CASE faults' = [faults EXCEPT !.drops = @ + 1]
  BY <1>2 DEF WaTypeOK
<1> QED  BY <1>1, <1>2 DEF NetworkFault

\* A handler of p leaves the entries, sockets and calls of the others alone.
LEMMA OthersKeepTheirs ==
  ASSUME SessionInv, NEW p \in Process,
         registered' \subseteq registered \cup {p},
         \A q \in Process \ {p} : socket'[q] = socket[q],
         \A q \in Process \ {p}, by \in Callers : <<q, by>> \in calls => <<q, by>> \in calls',
         \A q \in Process \ {p}, n \in 0..MaxLogins :
           <<q, n>> \in signingOut => <<q, n>> \in signingOut',
         p \in registered' => \/ socket'[p] # "none"
                              \/ \E by \in Callers : <<p, by>> \in calls'
                              \/ \E n \in 0..MaxLogins : <<p, n>> \in signingOut'
  PROVE  RegisteredHasSocket'
<1> SUFFICES ASSUME NEW q \in registered'
             PROVE  \/ socket'[q] # "none"
                    \/ \E by \in Callers : <<q, by>> \in calls'
                    \/ \E n \in 0..MaxLogins : <<q, n>> \in signingOut'
  BY DEF RegisteredHasSocket
<1>1. CASE q = p
  BY <1>1
<1>2. CASE q # p
  <2>1. q \in registered /\ q \in Process \ {p}
    BY <1>2 DEF SessionInv, WaTypeOK
  <2>2. \/ socket[q] # "none"
        \/ \E by \in Callers : <<q, by>> \in calls
        \/ \E n \in 0..MaxLogins : <<q, n>> \in signingOut
    BY <2>1 DEF SessionInv, RegisteredHasSocket
  <2> QED  BY <2>1, <2>2
<1> QED  BY <1>1, <1>2

\* Taking the lock, the entry and a call at once.
LEMMA AcquireKeeps ==
  ASSUME SessionInv, NEW p \in Process, NEW by \in Callers, Acquire(p, by),
         UNCHANGED signingOut
  PROVE  /\ waLock' \in Process \cup {Free, Stale}
         /\ registered' \subseteq Process
         /\ socket' \in [Process -> {"none", "linking", "qr", "open"}]
         /\ calls' \subseteq Process \X Callers
         /\ waStatus' \in WaStatus
         /\ LockHolderIsRegistered'
         /\ RegisteredHasSocket'
<1>1. RegisteredHasSocket'
  <2>1. \A q \in Process \ {p} : socket'[q] = socket[q]
    BY DEF Acquire, SessionInv, WaTypeOK
  <2>2. <<p, by>> \in calls' /\ calls \subseteq calls' /\ registered' = registered \cup {p}
    BY DEF Acquire
  <2> QED  BY <2>1, <2>2, OthersKeepTheirs
<1>2. LockHolderIsRegistered'
  BY DEF Acquire, LockHolderIsRegistered
<1> QED  BY <1>1, <1>2 DEF Acquire, SessionInv, WaTypeOK, WaStatus

\* Dropping the entry, as a close, a failure or a sign-out does.
LEMMA ReleaseKeeps ==
  ASSUME SessionInv, NEW p \in Process, Release(p),
         \A q \in Process \ {p} : socket'[q] = socket[q],
         \A q \in Process \ {p}, by \in Callers : <<q, by>> \in calls => <<q, by>> \in calls',
         \A q \in Process \ {p}, n \in 0..MaxLogins :
           <<q, n>> \in signingOut => <<q, n>> \in signingOut'
  PROVE  /\ waLock' \in Process \cup {Free, Stale}
         /\ registered' \subseteq Process
         /\ LockHolderIsRegistered'
         /\ RegisteredHasSocket'
<1>1. registered' = registered \ {p} /\ waLock' = Released(p)
  BY DEF Release
<1>2. RegisteredHasSocket'
  BY <1>1, OthersKeepTheirs
<1> QED  BY <1>1, <1>2, ReleasedHolds DEF SessionInv, WaTypeOK, LockHolderIsRegistered

\* A step that changes neither lock, registry, sockets nor calls.
LEMMA PlacesKept ==
  ASSUME SessionInv, UNCHANGED <<waLock, registered, socket, calls, signingOut>>
  PROVE  LockHolderIsRegistered' /\ RegisteredHasSocket'
  BY DEF SessionInv, LockHolderIsRegistered, RegisteredHasSocket

\* What a socket that closes changes beside registry and lock.
LEMMA ClosedTypes ==
  ASSUME SessionInv, NEW p \in Process, Forget(p), Closed(p)
  PROVE  /\ socket' \in [Process -> {"none", "linking", "qr", "open"}]
         /\ waStatus' \in WaStatus
         /\ retries' \subseteq 1..MaxReconnects
         /\ UNCHANGED <<calls, signingOut, up, login, commands, campaign>>
         /\ waLock' \in Process \cup {Free, Stale}
         /\ registered' \subseteq Process
         /\ LockHolderIsRegistered'
         /\ RegisteredHasSocket'
<1>1. socket' \in [Process -> {"none", "linking", "qr", "open"}]
      /\ \A q \in Process \ {p} : socket'[q] = socket[q]
  BY DEF Forget, SessionInv, WaTypeOK
<1>2. retries' \subseteq 1..MaxReconnects
  BY ScheduledIsRetry DEF Closed, SessionInv
<1>3. UNCHANGED <<calls, signingOut, up, login, commands, campaign>> /\ waStatus' \in WaStatus
  BY DEF Closed, WaStatus
<1>4. Release(p)
  BY DEF Closed
<1> QED  BY <1>1, <1>2, <1>3, <1>4, ReleaseKeeps

-----------------------------------------------------------------------------
(* The steps.                                                               *)

LEMMA UserStepsKeep ==
  ASSUME SessionInv, UserSteps
  PROVE  SessionInv'
<1> USE SessionAssumption DEF SessionInv
<1>1. ASSUME NEW type \in LinkBy, RequestLink(type)
      PROVE  SessionInv'
  <2>1. WaTypeOK'
    BY <1>1 DEF RequestLink, WaTypeOK, WaStatus, processVars, Commands, Logins
  <2> QED  BY <1>1, <2>1, PlacesKept DEF RequestLink, processVars
<1>2. CASE RequestDisconnect
  <2>1. WaTypeOK'
    BY <1>2 DEF RequestDisconnect, WaTypeOK, processVars, accountVars, Commands
  <2> QED  BY <1>2, <2>1, PlacesKept DEF RequestDisconnect, processVars
<1>3. CASE CampaignStarts \/ CampaignFinishes
  <2>1. WaTypeOK'
    BY <1>3 DEF CampaignStarts, CampaignFinishes, WaTypeOK, processVars, accountVars, queueVars
  <2> QED  BY <1>3, <2>1, PlacesKept DEF CampaignStarts, CampaignFinishes, processVars
<1>4. CASE PolicySignsOut
  <2>1. WaTypeOK'
    BY <1>4 DEF PolicySignsOut, WaTypeOK, processVars, accountVars, Commands
  <2> QED  BY <1>4, <2>1, PlacesKept DEF PolicySignsOut, processVars
<1> QED  BY <1>1, <1>2, <1>3, <1>4 DEF UserSteps

LEMMA ConnectKeeps ==
  ASSUME SessionInv, NEW p \in Process, NEW n \in Logins, Connect(p, n)
  PROVE  SessionInv'
<1>1. <<"connect", n>> \in Callers /\ commands' \subseteq Commands
  BY SessionAssumption DEF Connect, SessionInv, WaTypeOK, Commands, Callers
<1>2. CASE Acquire(p, <<"connect", n>>)
  <2>1. UNCHANGED signingOut
    BY DEF Connect
  <2> QED  BY <1>1, <1>2, <2>1, AcquireKeeps DEF Connect, SessionInv, WaTypeOK
<1>3. CASE UNCHANGED <<waLock, registered, socket, calls, waStatus>>
  <2>1. WaTypeOK'
    BY <1>1, <1>3 DEF Connect, SessionInv, WaTypeOK
  <2> QED  BY <1>3, <2>1, PlacesKept DEF Connect, SessionInv
<1> QED  BY <1>2, <1>3 DEF Connect

LEMMA PairingKeeps ==
  ASSUME SessionInv, NEW p \in Process, NEW n \in Logins, RequestPairingCode(p, n)
  PROVE  SessionInv'
<1>1. <<"pairing", n>> \in Callers /\ commands' \subseteq Commands
  BY SessionAssumption DEF RequestPairingCode, SessionInv, WaTypeOK, Commands, Callers
<1>2. UNCHANGED <<orphans, signingOut, up, login, retries, campaign, faults>>
  BY DEF RequestPairingCode
<1>3. CASE UNCHANGED <<waLock, registered, socket, calls, waStatus, linked>>
  <2>1. WaTypeOK'
    BY <1>1, <1>2, <1>3 DEF SessionInv, WaTypeOK
  <2> QED  BY <1>2, <1>3, <2>1, PlacesKept DEF SessionInv
<1>4. CASE linked' = FALSE /\ Acquire(p, <<"pairing", n>>)
  BY <1>1, <1>2, <1>4, AcquireKeeps DEF SessionInv, WaTypeOK
<1>5. CASE /\ linked' = FALSE /\ Released(p) # Free
           /\ registered' = registered \ {p}
           /\ socket' = IF p \in registered THEN [socket EXCEPT ![p] = "none"] ELSE socket
           /\ waStatus' = "ERROR"
           /\ UNCHANGED <<waLock, calls>>
  <2>1. socket' \in [Process -> {"none", "linking", "qr", "open"}]
        /\ \A q \in Process \ {p} : socket'[q] = socket[q]
    BY <1>5 DEF SessionInv, WaTypeOK
  <2>2. Release(p)
    BY <1>5 DEF Release, Released
  <2>3. LockHolderIsRegistered' /\ RegisteredHasSocket'
    BY <1>2, <1>5, <2>1, <2>2, ReleaseKeeps
  <2>4. WaTypeOK'
    BY <1>1, <1>2, <1>5, <2>1 DEF SessionInv, WaTypeOK, WaStatus
  <2> QED  BY <2>3, <2>4 DEF SessionInv
<1> QED  BY <1>3, <1>4, <1>5 DEF RequestPairingCode

LEMMA DisconnectKeeps ==
  ASSUME SessionInv, NEW p \in Process, NEW n \in 0..MaxLogins,
         Disconnect(p, n) \/ FinishDisconnect(p, n)
  PROVE  SessionInv'
<1>1. CASE Disconnect(p, n)
  <2>1. UNCHANGED <<waLock, registered, orphans, calls, up, accountVars, retries, campaign, faults>>
        /\ commands' \subseteq Commands
    BY <1>1 DEF Disconnect, SessionInv, WaTypeOK
  <2>2. CASE UNCHANGED <<socket, signingOut>>
    <3>1. WaTypeOK'
      BY <2>1, <2>2 DEF SessionInv, WaTypeOK, accountVars
    <3> QED  BY <2>1, <2>2, <3>1, PlacesKept DEF SessionInv
  <2>3. CASE Forget(p) /\ signingOut' = signingOut \cup {<<p, n>>}
    <3>1. socket' \in [Process -> {"none", "linking", "qr", "open"}]
          /\ \A q \in Process \ {p} : socket'[q] = socket[q]
      BY <2>3 DEF Forget, SessionInv, WaTypeOK
    <3>2. RegisteredHasSocket'
      BY <2>1, <2>3, <3>1, OthersKeepTheirs
    <3>3. LockHolderIsRegistered'
      BY <2>1 DEF SessionInv, LockHolderIsRegistered
    <3>4. WaTypeOK'
      BY <2>1, <2>3, <3>1 DEF SessionInv, WaTypeOK, accountVars
    <3> QED  BY <3>2, <3>3, <3>4 DEF SessionInv
  <2> QED  BY <1>1, <2>2, <2>3 DEF Disconnect
<1>2. CASE FinishDisconnect(p, n)
  <2>1. /\ Release(p)
        /\ \A q \in Process \ {p}, m \in 0..MaxLogins :
             <<q, m>> \in signingOut => <<q, m>> \in signingOut'
        /\ UNCHANGED <<socket, orphans, calls, up, login, queueVars, faults>>
    BY <1>2 DEF FinishDisconnect
  <2>2. /\ waLock' \in Process \cup {Free, Stale} /\ registered' \subseteq Process
        /\ LockHolderIsRegistered' /\ RegisteredHasSocket'
    BY <2>1, ReleaseKeeps
  <2>3. WaTypeOK'
    BY <1>2, <2>1, <2>2 DEF FinishDisconnect, SessionInv, WaTypeOK, WaStatus, queueVars
  <2> QED  BY <2>2, <2>3 DEF SessionInv
<1> QED  BY <1>1, <1>2

LEMMA CallEndsKeeps ==
  ASSUME SessionInv, NEW p \in Process, CallEnds(p)
  PROVE  SessionInv'
<1>1. PICK by \in Callers : SocketCreated(p, by) \/ ConnectFails(p, by)
  BY DEF CallEnds
<1>2. CASE SocketCreated(p, by)
  <2>1. /\ socket' \in [Process -> {"none", "linking", "qr", "open"}]
        /\ socket'[p] = "linking"
        /\ \A q \in Process \ {p} : socket'[q] = socket[q]
    BY <1>2 DEF SocketCreated, SessionInv, WaTypeOK
  <2>2. /\ calls' = calls \ {<<p, by>>}
        /\ UNCHANGED <<waLock, registered, signingOut, up, accountVars, queueVars, campaign, faults>>
    BY <1>2 DEF SocketCreated
  <2>3. \A q \in Process \ {p}, b \in Callers : <<q, b>> \in calls => <<q, b>> \in calls'
    BY <2>2
  <2>4. RegisteredHasSocket'
    BY <2>1, <2>2, <2>3, OthersKeepTheirs
  <2>5. LockHolderIsRegistered'
    BY <2>2 DEF SessionInv, LockHolderIsRegistered
  <2>6. WaTypeOK'
    BY <1>2, <2>1, <2>2 DEF SocketCreated, SessionInv, WaTypeOK, accountVars, queueVars
  <2> QED  BY <2>4, <2>5, <2>6 DEF SessionInv
<1>3. CASE ConnectFails(p, by)
  <2>1. /\ calls' = calls \ {<<p, by>>} /\ Release(p) /\ waStatus' = "ERROR"
        /\ UNCHANGED <<socket, orphans, signingOut, up, linked, login, commands, campaign, faults>>
    BY <1>3 DEF ConnectFails
  <2>2. \A q \in Process \ {p}, b \in Callers : <<q, b>> \in calls => <<q, b>> \in calls'
    BY <2>1
  <2>3. /\ waLock' \in Process \cup {Free, Stale} /\ registered' \subseteq Process
        /\ LockHolderIsRegistered' /\ RegisteredHasSocket'
    BY <2>1, <2>2, ReleaseKeeps
  <2>4. retries' \subseteq 1..MaxReconnects
    <3>1. CASE by[1] = "reconnect"
      <4>1. by[2] \in 1..MaxReconnects
        BY <3>1, SessionAssumption DEF Callers
      <4>2. retries' = Scheduled(by[2] + 1)
        BY <1>3, <3>1 DEF ConnectFails
      <4> QED  BY <4>1, <4>2, ScheduledIsRetry, SessionAssumption DEF SessionInv
    <3>2. CASE by[1] = "restore"
      <4>1. retries' = Scheduled(1)
        BY <1>3, <3>2 DEF ConnectFails
      <4> QED  BY <4>1, ScheduledIsRetry DEF SessionInv
    <3>3. CASE by[1] \notin {"reconnect", "restore"}
      BY <1>3, <3>3 DEF ConnectFails, SessionInv, WaTypeOK
    <3> QED  BY <3>1, <3>2, <3>3
  <2>5. WaTypeOK'
    BY <2>1, <2>3, <2>4 DEF SessionInv, WaTypeOK, WaStatus
  <2> QED  BY <2>3, <2>5 DEF SessionInv
<1> QED  BY <1>1, <1>2, <1>3

LEMMA SocketKeeps ==
  ASSUME SessionInv, NEW p \in Process, SocketResolves(p) \/ OrphanCloses(p)
  PROVE  SessionInv'
<1>1. CASE ShowQr(p) \/ SocketOpens(p)
  <2>1. /\ socket' \in [Process -> {"none", "linking", "qr", "open"}]
        /\ socket'[p] # "none"
        /\ \A q \in Process \ {p} : socket'[q] = socket[q]
        /\ waStatus' \in WaStatus
    BY <1>1 DEF ShowQr, SocketOpens, SessionInv, WaTypeOK, WaStatus
  <2>2. UNCHANGED <<waLock, registered, orphans, calls, signingOut, up, linked, login, queueVars, campaign, faults>>
    BY <1>1 DEF ShowQr, SocketOpens
  <2>3. RegisteredHasSocket'
    BY <2>1, <2>2, OthersKeepTheirs
  <2>4. LockHolderIsRegistered'
    BY <2>2 DEF SessionInv, LockHolderIsRegistered
  <2>5. WaTypeOK'
    BY <2>1, <2>2 DEF SessionInv, WaTypeOK, queueVars
  <2> QED  BY <2>3, <2>4, <2>5 DEF SessionInv
<1>2. CASE Drop(p) \/ PhoneLinked(p) \/ OrphanCloses(p)
  <2>1. Forget(p) /\ Closed(p)
    BY <1>2 DEF Drop, PhoneLinked, OrphanCloses
  <2>2. faults' \in [crashes : Nat, expiries : Nat, drops : Nat]
    BY <1>2, NetworkFaultType DEF Drop, PhoneLinked, OrphanCloses, SessionInv, WaTypeOK
  <2>3. orphans' \subseteq Process /\ linked' \in BOOLEAN
    BY <1>2 DEF Drop, PhoneLinked, OrphanCloses, SessionInv, WaTypeOK
  <2>4. /\ socket' \in [Process -> {"none", "linking", "qr", "open"}]
        /\ waStatus' \in WaStatus
        /\ retries' \subseteq 1..MaxReconnects
        /\ UNCHANGED <<calls, signingOut, up, login, commands, campaign>>
        /\ waLock' \in Process \cup {Free, Stale}
        /\ registered' \subseteq Process
        /\ LockHolderIsRegistered'
        /\ RegisteredHasSocket'
    BY <2>1, ClosedTypes
  <2>5. WaTypeOK'
    BY <2>2, <2>3, <2>4 DEF SessionInv, WaTypeOK
  <2> QED  BY <2>4, <2>5 DEF SessionInv
<1>3. CASE SocketEnds(p)
  <2>1. /\ Release(p)
        /\ UNCHANGED <<orphans, calls, signingOut, up, login, queueVars, faults>>
    BY <1>3 DEF SocketEnds
  <2>2. /\ socket' \in [Process -> {"none", "linking", "qr", "open"}]
        /\ \A q \in Process \ {p} : socket'[q] = socket[q]
    BY <1>3 DEF SocketEnds, Forget, SessionInv, WaTypeOK
  <2>3. waStatus' \in WaStatus /\ linked' \in BOOLEAN /\ campaign' \in {"none", "sending", "finished"}
    BY <1>3 DEF SocketEnds, SessionInv, WaTypeOK, WaStatus
  <2>4. /\ waLock' \in Process \cup {Free, Stale} /\ registered' \subseteq Process
        /\ LockHolderIsRegistered' /\ RegisteredHasSocket'
    BY <2>1, <2>2, ReleaseKeeps
  <2>5. WaTypeOK'
    BY <2>1, <2>2, <2>3, <2>4 DEF SessionInv, WaTypeOK, queueVars
  <2> QED  BY <2>4, <2>5 DEF SessionInv
<1> QED  BY <1>1, <1>2, <1>3 DEF SocketResolves

LEMMA ReconnectKeeps ==
  ASSUME SessionInv, NEW p \in Process, NEW n \in 1..MaxReconnects, Reconnect(p, n)
  PROVE  SessionInv'
<1>1. UNCHANGED <<orphans, signingOut, up, linked, login, commands, campaign, faults>>
  BY DEF Reconnect
<1>2. <<"reconnect", n>> \in Callers /\ n \in Nat \ {0}
  BY SessionAssumption DEF Callers
<1>3. retries' \subseteq 1..MaxReconnects
  <2>1. Scheduled(n + 1) \subseteq 1..MaxReconnects
    BY <1>2, ScheduledIsRetry DEF SessionInv
  <2> QED  BY <2>1 DEF Reconnect, SessionInv, WaTypeOK
<1>4. CASE Acquire(p, <<"reconnect", n>>)
  BY <1>1, <1>2, <1>3, <1>4, AcquireKeeps DEF SessionInv, WaTypeOK
<1>5. CASE UNCHANGED <<waLock, registered, socket, calls>> /\ waStatus' \in WaStatus
  <2>1. WaTypeOK'
    BY <1>1, <1>3, <1>5 DEF SessionInv, WaTypeOK
  <2> QED  BY <1>1, <1>5, <2>1, PlacesKept DEF SessionInv
<1>6. \/ Acquire(p, <<"reconnect", n>>)
      \/ UNCHANGED <<waLock, registered, socket, calls>> /\ waStatus' \in WaStatus
  BY DEF Reconnect, StatusAfterScheduling, SessionInv, WaTypeOK, WaStatus
<1> QED  BY <1>4, <1>5, <1>6

LEMMA BootKeeps ==
  ASSUME SessionInv, NEW p \in Process, Boot(p)
  PROVE  SessionInv'
<1>1. /\ UNCHANGED <<orphans, signingOut, linked, login, commands, campaign, faults>>
      /\ up' \subseteq Process
  BY DEF Boot, SessionInv, WaTypeOK
<1>2. <<"restore", 0>> \in Callers
  BY DEF Callers
<1>3. retries' \subseteq 1..MaxReconnects
  <2>1. Scheduled(1) \subseteq 1..MaxReconnects
    BY ScheduledIsRetry DEF SessionInv
  <2> QED  BY <2>1 DEF Boot, SessionInv, WaTypeOK
<1>4. CASE Acquire(p, <<"restore", 0>>)
  BY <1>1, <1>2, <1>3, <1>4, AcquireKeeps DEF SessionInv, WaTypeOK
<1>5. CASE UNCHANGED <<waLock, registered, socket, calls>> /\ waStatus' \in WaStatus
  <2>1. WaTypeOK'
    BY <1>1, <1>3, <1>5 DEF SessionInv, WaTypeOK
  <2> QED  BY <1>1, <1>5, <2>1, PlacesKept DEF SessionInv
<1>6. \/ Acquire(p, <<"restore", 0>>)
      \/ UNCHANGED <<waLock, registered, socket, calls>> /\ waStatus' \in WaStatus
  BY DEF Boot, SessionInv, WaTypeOK, WaStatus
<1> QED  BY <1>4, <1>5, <1>6

\* What both ends of a process do to what it holds in memory.
LEMMA StoppedKeeps ==
  ASSUME SessionInv, NEW p \in Process, Stopped(p),
         \A q \in Process \ {p}, by \in Callers : <<q, by>> \in calls => <<q, by>> \in calls',
         \A q \in Process \ {p}, n \in 0..MaxLogins :
           <<q, n>> \in signingOut => <<q, n>> \in signingOut'
  PROVE  /\ registered' = registered \ {p} /\ registered' \subseteq Process
         /\ orphans' \subseteq Process /\ up' \subseteq Process
         /\ socket' \in [Process -> {"none", "linking", "qr", "open"}]
         /\ UNCHANGED <<accountVars, campaign>>
         /\ RegisteredHasSocket'
<1>1. /\ socket' \in [Process -> {"none", "linking", "qr", "open"}]
      /\ \A q \in Process \ {p} : socket'[q] = socket[q]
  BY DEF Stopped, Forget, SessionInv, WaTypeOK
<1>2. registered' = registered \ {p}
  BY DEF Stopped
<1>3. RegisteredHasSocket'
  BY <1>1, <1>2, OthersKeepTheirs
<1> QED  BY <1>1, <1>2, <1>3 DEF Stopped, SessionInv, WaTypeOK

LEMMA CountedStop ==
  ASSUME WaTypeOK, faults' = [faults EXCEPT !.crashes = @ + 1]
  PROVE  faults' \in [crashes : Nat, expiries : Nat, drops : Nat]
  BY DEF WaTypeOK

LEMMA ShutdownKeeps ==
  ASSUME SessionInv, NEW p \in Process, Shutdown(p)
  PROVE  SessionInv'
<1>1. /\ Stopped(p) /\ waLock' = Released(p)
      /\ UNCHANGED <<calls, signingOut, queueVars>>
      /\ faults' = [faults EXCEPT !.crashes = @ + 1]
  BY DEF Shutdown
<1>2. /\ registered' = registered \ {p} /\ registered' \subseteq Process
      /\ orphans' \subseteq Process /\ up' \subseteq Process
      /\ socket' \in [Process -> {"none", "linking", "qr", "open"}]
      /\ UNCHANGED <<accountVars, campaign>>
      /\ RegisteredHasSocket'
  BY <1>1, StoppedKeeps
<1>3. faults' \in [crashes : Nat, expiries : Nat, drops : Nat]
  BY <1>1, CountedStop DEF SessionInv
<1>4. waLock' \in Process \cup {Free, Stale} /\ LockHolderIsRegistered'
  BY <1>1, <1>2, ReleasedHolds DEF LockHolderIsRegistered
<1>5. WaTypeOK'
  BY <1>1, <1>2, <1>3, <1>4 DEF SessionInv, WaTypeOK, accountVars, queueVars
<1> QED  BY <1>2, <1>4, <1>5 DEF SessionInv

LEMMA CrashKeeps ==
  ASSUME SessionInv, NEW p \in Process, Crash(p)
  PROVE  SessionInv'
<1>1. /\ Stopped(p) /\ waLock' = IF waLock = p THEN Stale ELSE waLock
      /\ calls' = {c \in calls : c[1] # p}
      /\ signingOut' = {s \in signingOut : s[1] # p}
      /\ faults' = [faults EXCEPT !.crashes = @ + 1]
  BY DEF Crash
<1>2. /\ \A q \in Process \ {p}, by \in Callers : <<q, by>> \in calls => <<q, by>> \in calls'
      /\ \A q \in Process \ {p}, n \in 0..MaxLogins :
           <<q, n>> \in signingOut => <<q, n>> \in signingOut'
  BY <1>1
<1>3. /\ registered' = registered \ {p} /\ registered' \subseteq Process
      /\ orphans' \subseteq Process /\ up' \subseteq Process
      /\ socket' \in [Process -> {"none", "linking", "qr", "open"}]
      /\ UNCHANGED <<accountVars, campaign>>
      /\ RegisteredHasSocket'
  BY <1>1, <1>2, StoppedKeeps
<1>4. faults' \in [crashes : Nat, expiries : Nat, drops : Nat]
  BY <1>1, CountedStop DEF SessionInv
<1>5. waLock' \in Process \cup {Free, Stale} /\ LockHolderIsRegistered'
  BY <1>1, <1>3, SessionAssumption DEF SessionInv, WaTypeOK, LockHolderIsRegistered
<1>6. commands' \subseteq Commands
  <2>1. \A by \in Callers : by[1] \in LinkBy => by \in Commands
    BY SessionAssumption DEF Callers, Commands
  <2>2. \A n \in 0..MaxLogins : <<"disconnect", n>> \in Commands
    BY DEF Commands
  <2> QED  BY <2>1, <2>2 DEF Crash, SessionInv, WaTypeOK
<1>7. retries' \subseteq 1..MaxReconnects
  BY DEF Crash, SessionInv, WaTypeOK
<1>8. calls' \subseteq Process \X Callers /\ signingOut' \subseteq Process \X (0..MaxLogins)
  BY <1>1 DEF SessionInv, WaTypeOK
<1>9. WaTypeOK'
  BY <1>3, <1>4, <1>5, <1>6, <1>7, <1>8 DEF SessionInv, WaTypeOK, accountVars
<1> QED  BY <1>3, <1>5, <1>9 DEF SessionInv

LEMMA RenewalKeeps ==
  ASSUME SessionInv, NEW p \in Process, RenewalFails(p)
  PROVE  SessionInv'
<1>1. /\ registered' = registered \ {p} /\ Forget(p) /\ waStatus' = "ERROR"
      /\ UNCHANGED <<orphans, calls, signingOut, up, linked, login, queueVars, campaign>>
  BY DEF RenewalFails
<1>2. /\ socket' \in [Process -> {"none", "linking", "qr", "open"}]
      /\ \A q \in Process \ {p} : socket'[q] = socket[q]
  BY <1>1 DEF Forget, SessionInv, WaTypeOK
<1>3. RegisteredHasSocket'
  BY <1>1, <1>2, OthersKeepTheirs
<1>4. waLock' \in Process \cup {Free, Stale} /\ LockHolderIsRegistered'
  BY <1>1, SessionAssumption DEF RenewalFails, SessionInv, WaTypeOK, LockHolderIsRegistered
<1>5. faults' \in [crashes : Nat, expiries : Nat, drops : Nat]
  BY DEF RenewalFails, SessionInv, WaTypeOK
<1>6. WaTypeOK'
  BY <1>1, <1>2, <1>4, <1>5 DEF SessionInv, WaTypeOK, WaStatus, queueVars
<1> QED  BY <1>3, <1>4, <1>6 DEF SessionInv

LEMMA ExpiryKeeps ==
  ASSUME SessionInv, LockExpires \/ LockExpiresUnderHolder
  PROVE  SessionInv'
<1>1. waLock' = Free /\ UNCHANGED <<processVars, accountVars, queueVars, campaign>>
  BY DEF LockExpires, LockExpiresUnderHolder
<1>2. faults' \in [crashes : Nat, expiries : Nat, drops : Nat]
  BY DEF LockExpires, LockExpiresUnderHolder, SessionInv, WaTypeOK
<1>3. WaTypeOK'
  BY <1>1, <1>2 DEF SessionInv, WaTypeOK, processVars, accountVars, queueVars
<1>4. LockHolderIsRegistered'
  BY <1>1, SessionAssumption DEF LockHolderIsRegistered
<1>5. RegisteredHasSocket'
  BY <1>1 DEF SessionInv, RegisteredHasSocket, processVars
<1> QED  BY <1>3, <1>4, <1>5 DEF SessionInv

-----------------------------------------------------------------------------

LEMMA SessionKept == SessionInv /\ [SessionNext]_sessionVars => SessionInv'
<1> SUFFICES ASSUME SessionInv, [SessionNext]_sessionVars
             PROVE  SessionInv'
  OBVIOUS
<1>1. CASE UserSteps
  BY <1>1, UserStepsKeep
<1>2. CASE LockExpires \/ LockExpiresUnderHolder
  BY <1>2, ExpiryKeeps
<1>3. ASSUME NEW p \in Process, ProcessSteps(p)
      PROVE  SessionInv'
  <2>1. CASE Command(p)
    BY <2>1, ConnectKeeps, PairingKeeps, DisconnectKeeps DEF Command
  <2>2. CASE RetryStep(p)
    BY <2>2, ReconnectKeeps DEF RetryStep
  <2>3. CASE CallEnds(p)
    BY <2>3, CallEndsKeeps
  <2>4. CASE SocketResolves(p) \/ OrphanCloses(p)
    BY <2>4, SocketKeeps
  <2>5. CASE \E n \in 0..MaxLogins : FinishDisconnect(p, n)
    BY <2>5, DisconnectKeeps
  <2>6. CASE RenewalFails(p)
    BY <2>6, RenewalKeeps
  <2>7. CASE Boot(p)
    BY <2>7, BootKeeps
  <2>8. CASE Shutdown(p)
    BY <2>8, ShutdownKeeps
  <2>9. CASE Crash(p)
    BY <2>9, CrashKeeps
  <2> QED  BY <1>3, <2>1, <2>2, <2>3, <2>4, <2>5, <2>6, <2>7, <2>8, <2>9 DEF ProcessSteps
<1>4. CASE UNCHANGED sessionVars
  <2>1. UNCHANGED <<waLock, processVars, accountVars, queueVars, campaign, faults>>
    BY <1>4 DEF sessionVars
  <2>2. WaTypeOK'
    BY <2>1 DEF SessionInv, WaTypeOK, processVars, accountVars, queueVars
  <2> QED  BY <2>1, <2>2, PlacesKept DEF SessionInv, processVars
<1> QED  BY <1>1, <1>2, <1>3, <1>4 DEF SessionNext

\* Types: lock, registry, calls, queues and status stay what the handlers
\* expect, whatever interleaves (session.manager.ts, session.lock.ts).
THEOREM SessionTypesCorrect == SessionSpec => []WaTypeOK
<1>1. SessionInv => WaTypeOK
  BY DEF SessionInv
<1> HIDE DEF SessionInv
<1> QED  BY <1>1, SessionStarts, SessionKept, PTL DEF SessionSpec

\* No running process leaves the lock behind: its holder has the entry the
\* release is read from (session.manager.ts releaseLock).
THEOREM LockIsReleasable == SessionSpec => []LockHolderIsRegistered
<1>1. SessionInv => LockHolderIsRegistered
  BY DEF SessionInv
<1> HIDE DEF SessionInv
<1> QED  BY <1>1, SessionStarts, SessionKept, PTL DEF SessionSpec

\* An entry that answers "already ours" has a socket, or somebody about to
\* open one or to remove the entry (session.manager.ts connect, eventsFor).
THEOREM NoIdleEntry == SessionSpec => []RegisteredHasSocket
<1>1. SessionInv => RegisteredHasSocket
  BY DEF SessionInv
<1> HIDE DEF SessionInv
<1> QED  BY <1>1, SessionStarts, SessionKept, PTL DEF SessionSpec
=============================================================================
