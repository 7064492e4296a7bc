-------------------------------- MODULE WaLink --------------------------------
(***************************************************************************)
(* Linking one WhatsApp account to MoneyShot:                              *)
(*   src/backend/hermes/skills/whatsapp-web/scripts/wa.js                  *)
(*                                                                         *)
(* `wa.js link`, `send` and `logout` are processes that share the session  *)
(* directory of the account (status.json, creds.json, worker.pid) without  *)
(* a lock.  `link` spawns a detached worker that outlives it, shows QR     *)
(* codes until the phone scans one, and exits; `bulk.js dispatch` runs     *)
(* `send` every minute.  Each action below is uninterrupted: an access of  *)
(* a command to the directory, or two next to each other without an await  *)
(* between them (killWorker and what is read beside it), and a handler of  *)
(* a worker up to its next await.                                          *)
(*                                                                         *)
(* The session keys of different accounts are different directories, so    *)
(* one account is modelled.  A device is the identity that one pairing     *)
(* creates (creds.me.id); `devices` is what WhatsApp itself regards as     *)
(* linked.                                                                 *)
(***************************************************************************)
EXTENDS Integers, FiniteSets

CONSTANTS
  Commands,      \* processes running link or logout
  Senders,       \* processes running send
  Killable,      \* where a command may be killed
  SlowQr,        \* may an image of a QR still be written 1.5 s later?
  LongSends      \* may a send save an unfinished pairing that was replaced since?

CONSTANTS        \* bounds of the model, not of the code
  MaxSpawns,     \* workers that may be spawned
  MaxDevices,    \* pairings that may be made
  MaxCrashes,    \* workers that may die
  MaxKills       \* commands that may die

CommandPC == {"idle", "kill", "status", "spawn", "pid", "poll", "unlink", "wipe"}

ASSUME BoundAssumption ==
  /\ Killable \subseteq CommandPC
  /\ SlowQr \in BOOLEAN
  /\ LongSends \in BOOLEAN
  /\ MaxSpawns \in Nat
  /\ MaxDevices \in Nat
  /\ MaxCrashes \in Nat
  /\ MaxKills \in Nat

VARIABLES
  dir,        \* does the session directory exist?
  status,     \* status.json
  creds,      \* the device in creds.json, 0 when it has no me.id
  pid,        \* worker.pid, 0 when there is none
  worker,     \* local state of each worker; the index is its process id
  spawned,    \* workers spawned so far
  cmd,        \* local state of each link or logout
  sender,     \* local state of each send
  devices,    \* devices linked at WhatsApp
  paired,     \* pairings made so far
  opened,     \* history: devices that had a live open
  told,       \* history: devices some process was told are logged out
  last,       \* history: the last command that reset the directory
  crashes,    \* workers that died so far
  kills       \* commands that died so far

files == <<dir, status, creds, pid>>
procs == <<worker, spawned, cmd, sender>>
phone == <<devices, paired>>
history == <<opened, told>>
faults == <<crashes, kills>>
vars == <<dir, status, creds, pid, worker, spawned, cmd, sender, devices, paired,
          opened, told, last, crashes, kills>>

Workers == 1 .. MaxSpawns
Devices == 1 .. MaxDevices

States == {"none", "starting", "qr", "reconnecting", "linked", "timeout", "error"}
Status == [state: States, connected: BOOLEAN]
NoStatus == [state |-> "none", connected |-> FALSE]

\* idle: its socket was closed and is not replaced; linked: it exits in 1.5 s
WorkerPC == {"dead", "boot", "connect", "sock", "paired", "wait", "idle", "linked"}
WorkerState == [pc: WorkerPC, mem: Devices \cup {0}, late: BOOLEAN]
Dead == [pc |-> "dead", mem |-> 0, late |-> FALSE]

CommandState == [pc: CommandPC, child: Workers \cup {0}]
Idle == [pc |-> "idle", child |-> 0]

\* a send, and the device of the credentials it has read
SenderState == [pc: {"idle", "connect", "open"}, dev: Devices \cup {0}]
NoSend == [pc |-> "idle", dev |-> 0]

TypeOK ==
  /\ dir \in BOOLEAN
  /\ status \in Status
  /\ creds \in Devices \cup {0}
  /\ pid \in Workers \cup {0}
  /\ worker \in [Workers -> WorkerState]
  /\ spawned \in 0 .. MaxSpawns
  /\ cmd \in [Commands -> CommandState]
  /\ sender \in [Senders -> SenderState]
  /\ devices \subseteq Devices
  /\ paired \in 0 .. MaxDevices
  /\ opened \subseteq Devices
  /\ told \subseteq Devices \cup {0}
  /\ last \in {"none", "link", "logout"}
  /\ crashes \in Nat
  /\ kills \in Nat
  /\ \A w \in Workers : w > spawned \/ worker[w].pc = "dead" => worker[w] = Dead

Init ==
  /\ dir = FALSE
  /\ status = NoStatus
  /\ creds = 0
  /\ pid = 0
  /\ worker = [w \in Workers |-> Dead]
  /\ spawned = 0
  /\ cmd = [c \in Commands |-> Idle]
  /\ sender = [t \in Senders |-> NoSend]
  /\ devices = {}
  /\ paired = 0
  /\ opened = {}
  /\ told = {}
  /\ last = "none"
  /\ crashes = 0
  /\ kills = 0

(***************************************************************************)
(* The directory.                                                          *)
(***************************************************************************)
Alive(w) == worker[w].pc # "dead"

\* (mutant) me.id alone is trusted, and the flag is ignored
IsLinkedByCreds == creds # 0

IsLinked == status.connected /\ creds # 0

\* writeStatus makes the directory and merges the given fields
WriteStatus(state, connected) ==
  /\ dir' = TRUE
  /\ status' = [state |-> state, connected |-> connected]

\* rmSync(dir, { recursive: true })
Wiped == dir' = FALSE /\ status' = NoStatus /\ creds' = 0 /\ pid' = 0

\* finish: remove worker.pid, whoever wrote it, and exit
EndWorker(w) ==
  /\ pid' = 0
  /\ worker' = [worker EXCEPT ![w] = Dead]

\* (mutant) only the file is removed
KillWorkerFileOnly == pid' = 0 /\ UNCHANGED worker

\* killWorker: SIGTERM to the process the file names, then remove the file
KillWorker ==
  /\ worker' = IF pid # 0 THEN [worker EXCEPT ![pid] = Dead] ELSE worker
  /\ pid' = 0

(***************************************************************************)
(* The worker.                                                             *)
(***************************************************************************)
At(w, pc) == worker[w].pc = pc
Goto(w, pc) == worker' = [worker EXCEPT ![w].pc = pc]

WorkerBoot(w) ==
  /\ At(w, "boot")
  /\ WriteStatus("starting", FALSE)
  /\ Goto(w, "connect")
  /\ UNCHANGED <<creds, pid, spawned, cmd, sender, last, phone, history, faults>>

\* makeSock: make the directory, read the credentials into memory, open a socket
WorkerConnect(w) ==
  /\ At(w, "connect")
  /\ dir' = TRUE
  /\ worker' = [worker EXCEPT ![w].pc = "sock", ![w].mem = creds]
  /\ UNCHANGED <<status, creds, pid, spawned, cmd, sender, last, phone, history, faults>>

\* a QR arrives; its images are written (awaited) before the status is
WorkerQr(w) ==
  /\ At(w, "sock")
  /\ worker[w].mem = 0
  /\ ~ worker[w].late
  /\ worker' = [worker EXCEPT ![w].late = TRUE]
  /\ UNCHANGED <<files, spawned, cmd, sender, last, phone, history, faults>>

WorkerQrWritten(w) ==
  /\ worker[w].late
  /\ WriteStatus("qr", FALSE)
  /\ worker' = [worker EXCEPT ![w].late = FALSE]
  /\ UNCHANGED <<creds, pid, spawned, cmd, sender, last, phone, history, faults>>

\* The phone scans the QR on show: the socket gets a device and its creds.update
\* saves it.  The pairing may stop halfway, and then WhatsApp does not know the
\* device.  A save into a missing directory rejects, which ends the process.
WorkerScanned(w) ==
  /\ At(w, "sock")
  /\ worker[w].mem = 0
  /\ status.state = "qr"
  /\ paired < MaxDevices
  /\ paired' = paired + 1
  /\ devices' \in {devices, devices \cup {paired + 1}}
  /\ IF dir
       THEN /\ creds' = paired + 1
            /\ worker' = [worker EXCEPT ![w].pc = "paired", ![w].mem = paired + 1]
       ELSE creds' = creds /\ worker' = [worker EXCEPT ![w] = Dead]
  /\ UNCHANGED <<dir, status, pid, spawned, cmd, sender, last, history, faults>>

\* connection: "open"
WorkerOpen(w) ==
  /\ At(w, "sock")
  /\ worker[w].mem \in devices
  /\ WriteStatus("linked", TRUE)
  /\ opened' = opened \cup {worker[w].mem}
  /\ Goto(w, "linked")
  /\ UNCHANGED <<creds, pid, spawned, cmd, sender, last, phone, told, faults>>

\* creds.update of the worker's socket, before the open or after it
WorkerSave(w) ==
  /\ worker[w].pc \in {"sock", "linked"}
  /\ worker[w].mem \in devices
  /\ IF dir
       THEN creds' = worker[w].mem /\ UNCHANGED worker
       ELSE creds' = creds /\ worker' = [worker EXCEPT ![w] = Dead]
  /\ UNCHANGED <<dir, status, pid, spawned, cmd, sender, last, phone, history, faults>>

\* finish(0), 1.5 s after the open
WorkerFinish(w) ==
  /\ At(w, "linked")
  /\ EndWorker(w)
  /\ UNCHANGED <<dir, status, creds, spawned, cmd, sender, last, phone, history, faults>>

\* a close that is not a logout: a pairing restarts the stream, a QR expires.
\* Linked meanwhile, or past the deadline, the worker does not reconnect.
WorkerClose(w) ==
  /\ worker[w].pc \in {"sock", "paired"}
  /\ \/ Goto(w, "idle") /\ UNCHANGED <<dir, status>>
     \/ ~ IsLinked /\ Goto(w, "wait") /\ WriteStatus("reconnecting", FALSE)
  /\ UNCHANGED <<creds, pid, spawned, cmd, sender, last, phone, history, faults>>

\* 1.5 s later.  Unless SlowQr, the images of an earlier QR are written by then.
WorkerReconnect(w) ==
  /\ At(w, "wait")
  /\ SlowQr \/ ~ worker[w].late
  /\ Goto(w, "connect")
  /\ UNCHANGED <<files, spawned, cmd, sender, last, phone, history, faults>>

\* a close with DisconnectReason.loggedOut: wipe, write the error, finish(1)
WorkerLoggedOut(w) ==
  /\ worker[w].pc \in {"sock", "linked"}
  /\ worker[w].mem \notin devices \cup {0}
  /\ WriteStatus("error", FALSE)
  /\ creds' = 0
  /\ EndWorker(w)
  /\ told' = told \cup {worker[w].mem}
  /\ UNCHANGED <<spawned, cmd, sender, last, phone, opened, faults>>

\* (mutant) the deadline passes without a word in the status
WorkerTimeoutSilent(w) ==
  /\ worker[w].pc \notin {"dead", "boot"}
  /\ UNCHANGED <<dir, status>>
  /\ EndWorker(w)
  /\ UNCHANGED <<creds, spawned, cmd, sender, last, phone, history, faults>>

\* (mutant) the timer does not look whether the account was linked meanwhile
WorkerTimeoutUnchecked(w) ==
  /\ worker[w].pc \notin {"dead", "boot"}
  /\ WriteStatus("timeout", FALSE)
  /\ EndWorker(w)
  /\ UNCHANGED <<creds, spawned, cmd, sender, last, phone, history, faults>>

\* the 240 s timer
WorkerTimeout(w) ==
  /\ worker[w].pc \notin {"dead", "boot"}
  /\ IF IsLinked THEN UNCHANGED <<dir, status>> ELSE WriteStatus("timeout", FALSE)
  /\ EndWorker(w)
  /\ UNCHANGED <<creds, spawned, cmd, sender, last, phone, history, faults>>

WorkerCrash(w) ==
  /\ Alive(w)
  /\ crashes < MaxCrashes
  /\ crashes' = crashes + 1
  /\ worker' = [worker EXCEPT ![w] = Dead]
  /\ UNCHANGED <<files, spawned, cmd, sender, last, phone, history, kills>>

(***************************************************************************)
(* link and logout.                                                        *)
(***************************************************************************)
On(c, pc) == cmd[c].pc = pc
Step(c, pc) == cmd' = [cmd EXCEPT ![c].pc = pc]
Return(c) == cmd' = [cmd EXCEPT ![c] = Idle]

AboutToSpawn == {c \in Commands : cmd[c].pc \in {"kill", "status", "spawn"}}

\* linked already: link answers and changes nothing
LinkAnswered(c) ==
  /\ On(c, "idle")
  /\ IsLinked
  /\ UNCHANGED vars

\* (the bound leaves every link that starts a worker to spawn)
LinkBegin(c) ==
  /\ On(c, "idle")
  /\ ~ IsLinked
  /\ spawned + Cardinality(AboutToSpawn) < MaxSpawns
  /\ Step(c, "kill")
  /\ UNCHANGED <<files, worker, spawned, sender, last, phone, history, faults>>

\* (mutant) the worker of an earlier link is left running
LinkKillForgotten(c) ==
  /\ On(c, "kill")
  /\ Step(c, "status")
  /\ UNCHANGED <<files, worker, spawned, sender, last, phone, history, faults>>

\* if (workerAlive(key)) killWorker(key)
LinkKill(c) ==
  /\ On(c, "kill")
  /\ IF pid # 0 /\ Alive(pid) THEN KillWorker ELSE UNCHANGED <<pid, worker>>
  /\ Step(c, "status")
  /\ UNCHANGED <<dir, status, creds, spawned, sender, last, phone, history, faults>>

LinkStatus(c) ==
  /\ On(c, "status")
  /\ WriteStatus("starting", FALSE)
  /\ last' = "link"
  /\ Step(c, "spawn")
  /\ UNCHANGED <<creds, pid, worker, spawned, sender, phone, history, faults>>

LinkSpawn(c) ==
  /\ On(c, "spawn")
  /\ spawned < MaxSpawns
  /\ spawned' = spawned + 1
  /\ worker' = [worker EXCEPT ![spawned + 1] = [Dead EXCEPT !.pc = "boot"]]
  /\ cmd' = [cmd EXCEPT ![c].pc = "pid", ![c].child = spawned + 1]
  /\ UNCHANGED <<files, sender, last, phone, history, faults>>

\* write worker.pid; in a directory that is gone the write throws
LinkPid(c) ==
  /\ On(c, "pid")
  /\ IF dir
       THEN pid' = cmd[c].child /\ Step(c, "poll")
       ELSE pid' = pid /\ Return(c)
  /\ UNCHANGED <<dir, status, creds, worker, spawned, sender, last, phone, history, faults>>

\* answers when the status says qr, linked or error, or after 15 s
LinkReturn(c) ==
  /\ On(c, "poll")
  /\ Return(c)
  /\ UNCHANGED <<files, worker, spawned, sender, last, phone, history, faults>>

LogoutKill(c) ==
  /\ On(c, "idle")
  /\ KillWorker
  /\ Step(c, IF creds # 0 THEN "unlink" ELSE "wipe")
  /\ UNCHANGED <<dir, status, creds, spawned, sender, last, phone, history, faults>>

\* makeSock, wait for the open or 4 s, sock.logout(): best effort
LogoutUnlink(c) ==
  /\ On(c, "unlink")
  /\ dir' = TRUE
  /\ devices' \in {devices, devices \ {creds}}
  /\ Step(c, "wipe")
  /\ UNCHANGED <<status, creds, pid, worker, spawned, sender, paired, last, history, faults>>

LogoutWipe(c) ==
  /\ On(c, "wipe")
  /\ Wiped
  /\ last' = "logout"
  /\ Return(c)
  /\ UNCHANGED <<worker, spawned, sender, phone, history, faults>>

CommandCrash(c) ==
  /\ ~ On(c, "idle")
  /\ cmd[c].pc \in Killable
  /\ kills < MaxKills
  /\ kills' = kills + 1
  /\ Return(c)
  /\ UNCHANGED <<files, worker, spawned, sender, last, phone, history, crashes>>

(***************************************************************************)
(* send.                                                                   *)
(***************************************************************************)
SendGoes(t, pc, dev) == sender' = [sender EXCEPT ![t] = [pc |-> pc, dev |-> dev]]

SendBegin(t) ==
  /\ sender[t].pc = "idle"
  /\ IsLinked
  /\ SendGoes(t, "connect", 0)
  /\ UNCHANGED <<files, worker, spawned, cmd, last, phone, history, faults>>

\* makeSock: make the directory, read the credentials into memory, open a socket
SendConnect(t) ==
  /\ sender[t].pc = "connect"
  /\ dir' = TRUE
  /\ SendGoes(t, "open", creds)
  /\ UNCHANGED <<status, creds, pid, worker, spawned, cmd, last, phone, history, faults>>

\* Unless LongSends, a send that read a pairing not opened yet (of a link that came
\* between its isLinked and its socket) ends before that pairing is replaced.
SendSaves(t) ==
  /\ sender[t].pc = "open"
  /\ sender[t].dev \in devices
  /\ LongSends \/ sender[t].dev \in opened \cup {creds}

\* (mutant) the save makes the directory it does not find
SendSaveMakesDir(t) ==
  /\ SendSaves(t)
  /\ dir' = TRUE
  /\ creds' = sender[t].dev
  /\ UNCHANGED <<sender, status, pid, worker, spawned, cmd, last, phone, history, faults>>

\* creds.update of the sender's socket saves the credentials it holds; a save into
\* a missing directory rejects, which ends the process
SendSave(t) ==
  /\ SendSaves(t)
  /\ IF dir
       THEN creds' = sender[t].dev /\ UNCHANGED sender
       ELSE creds' = creds /\ SendGoes(t, "idle", 0)
  /\ UNCHANGED <<dir, status, pid, worker, spawned, cmd, last, phone, history, faults>>

\* sent, refused, the 45 s guard, or killed: nothing is written
SendReturn(t) ==
  /\ sender[t].pc # "idle"
  /\ SendGoes(t, "idle", 0)
  /\ UNCHANGED <<files, worker, spawned, cmd, last, phone, history, faults>>

\* the close with loggedOut: reported, and nothing is written
SendLoggedOut(t) ==
  /\ sender[t].pc = "open"
  /\ sender[t].dev \notin devices \cup {0}
  /\ told' = told \cup {sender[t].dev}
  /\ SendGoes(t, "idle", 0)
  /\ UNCHANGED <<files, worker, spawned, cmd, last, phone, opened, faults>>

(***************************************************************************)
(* The user removes a linked device on the phone.                          *)
(***************************************************************************)
PhoneUnlinks ==
  /\ \E k \in devices : devices' = devices \ {k}
  /\ UNCHANGED <<files, procs, paired, last, history, faults>>

WorkerStep(w) ==
  \/ WorkerBoot(w) \/ WorkerConnect(w) \/ WorkerQr(w) \/ WorkerQrWritten(w)
  \/ WorkerScanned(w) \/ WorkerOpen(w) \/ WorkerSave(w) \/ WorkerFinish(w) \/ WorkerClose(w)
  \/ WorkerReconnect(w) \/ WorkerLoggedOut(w) \/ WorkerTimeout(w)

CommandStep(c) ==
  \/ LinkAnswered(c) \/ LinkBegin(c) \/ LinkKill(c) \/ LinkStatus(c)
  \/ LinkSpawn(c) \/ LinkPid(c) \/ LinkReturn(c)
  \/ LogoutKill(c) \/ LogoutUnlink(c) \/ LogoutWipe(c)

SenderStep(t) ==
  \/ SendBegin(t) \/ SendConnect(t) \/ SendSave(t) \/ SendReturn(t) \/ SendLoggedOut(t)

Next ==
  \/ \E w \in Workers : WorkerStep(w) \/ WorkerCrash(w)
  \/ \E c \in Commands : CommandStep(c) \/ CommandCrash(c)
  \/ \E t \in Senders : SenderStep(t)
  \/ PhoneUnlinks

Spec == Init /\ [][Next]_vars

\* A started process is scheduled and its timers fire.  Nobody has to start a
\* command, scan a QR or unlink a device.
Fairness ==
  /\ \A w \in Workers : WF_vars(WorkerBoot(w)) /\ WF_vars(WorkerTimeout(w))
  /\ \A c \in Commands :
       WF_vars(LinkKill(c) \/ LinkStatus(c) \/ LinkSpawn(c) \/ LinkPid(c)
               \/ LinkReturn(c) \/ LogoutUnlink(c) \/ LogoutWipe(c))
  /\ \A t \in Senders : WF_vars(SendReturn(t))

FairSpec == Spec /\ Fairness

(***************************************************************************)
(* Properties.  All but the last are about one link or logout at a time.   *)
(***************************************************************************)
\* "Kill any prior worker": link and logout find a worker through worker.pid
\* only, so every live worker must be the one the file names, or the child of a
\* link that is about to write the file.  In particular at most one is alive.
WorkerFindable ==
  /\ \A w \in Workers : Alive(w) =>
       \/ pid = w
       \/ \E c \in Commands : On(c, "pid") /\ cmd[c].child = w
  /\ \A v, w \in Workers : Alive(v) /\ Alive(w) => v = w

\* isLinked is never true of a half-finished pairing: the credentials on disk
\* are those of a device that had a live open, also when a send of an earlier
\* link saves its own over those of a new pairing.
ConnectedWasOpened == IsLinked => creds \in opened

\* After a logout nothing brings the session back but another link, neither a
\* worker nor a send that was under way: "status will read as none".
LogoutSticks ==
  last = "logout" => status = NoStatus /\ creds = 0 /\ \A w \in Workers : ~ Alive(w)

\* "a number stays linked [...] until it is logged out": isLinked becomes false
\* only when a logout wipes the directory, when a worker is told that WhatsApp has
\* dropped its device, or when a link that found the account unlinked a moment ago
\* starts afresh.
LinkResets == \E c \in Commands : On(c, "status") /\ cmd'[c].pc = "spawn"
LogoutWipes == \E c \in Commands : On(c, "wipe") /\ cmd'[c].pc = "idle"
WorkerDisowned ==
  \E w \in Workers : worker[w].mem \notin devices \cup {0} /\ worker'[w].pc = "dead"
StaysLinked ==
  [][IsLinked /\ ~ IsLinked' => LinkResets \/ LogoutWipes \/ WorkerDisowned]_vars

\* A link attempt ends: unless a process dies, the status does not keep saying
\* that it is under way.
LinkSettles ==
  (status.state \in {"starting", "qr", "reconnecting"}) ~>
    (status.state \in {"none", "linked", "timeout", "error"} \/ crashes + kills > 0)
===============================================================================
