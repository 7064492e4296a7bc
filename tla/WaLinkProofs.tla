----------------------------- MODULE WaLinkProofs -----------------------------
(***************************************************************************)
(* Theorems about WaLink, for every number of workers, pairings, crashes   *)
(* and kills.  Except for the type invariant they are about one link or    *)
(* logout at a time, none of which is killed between the spawn of a worker *)
(* and worker.pid, beside sends that overlap it and each other; a logout   *)
(* is final beside one send at a time.                                     *)
(***************************************************************************)
EXTENDS WaLink, TLAPS

Serial ==
  /\ \A c, d \in Commands : c = d
  /\ "pid" \notin Killable

OneSender == \A t, u \in Senders : t = u

(***************************************************************************)
(* The type invariant.                                                     *)
(***************************************************************************)
LEMMA InitType == Init => TypeOK
<1> SUFFICES ASSUME Init PROVE TypeOK
  OBVIOUS
<1>1. /\ Dead \in WorkerState /\ Idle \in CommandState
      /\ NoSend \in SenderState /\ NoStatus \in Status
  BY DEF Dead, WorkerState, WorkerPC, Idle, CommandState, CommandPC, NoSend, SenderState,
  NoStatus, Status, States
<1>2. 0 \in 0 .. MaxSpawns /\ 0 \in 0 .. MaxDevices
  BY BoundAssumption
<1> QED
  BY <1>1, <1>2 DEF Init, TypeOK

\* A live worker has been spawned.
LEMMA AliveSpawned ==
  ASSUME TypeOK, NEW w \in Workers, Alive(w)
  PROVE  w <= spawned
<1>1. ~ (w > spawned)
  BY DEF TypeOK, Alive, Dead
<1> QED
  BY <1>1, BoundAssumption DEF TypeOK, Workers

\* The record updates of a command keep the type of the whole table.
LEMMA CommandUpdate ==
  ASSUME TypeOK, NEW c \in Commands
  PROVE  /\ \A pc \in CommandPC : [cmd EXCEPT ![c].pc = pc] \in [Commands -> CommandState]
         /\ [cmd EXCEPT ![c] = Idle] \in [Commands -> CommandState]
         /\ \A w \in Workers : [cmd EXCEPT ![c].pc = "pid", ![c].child = w]
                               \in [Commands -> CommandState]
<1> USE DEF TypeOK
<1>1. cmd[c] \in CommandState
  OBVIOUS
<1>2. Idle \in CommandState
  BY DEF Idle, CommandState, CommandPC
<1>3. \A pc \in CommandPC : [cmd[c] EXCEPT !.pc = pc] \in CommandState
  BY <1>1 DEF CommandState
<1>4. \A w \in Workers : [cmd[c] EXCEPT !.pc = "pid", !.child = w] \in CommandState
  BY <1>1 DEF CommandState, CommandPC
<1> QED
  BY <1>2, <1>3, <1>4

LEMMA StatusUpdate ==
  ASSUME NEW state \in States, NEW connected \in BOOLEAN, WriteStatus(state, connected)
  PROVE  dir' \in BOOLEAN /\ status' \in Status
  BY DEF WriteStatus, Status


\* The worker table after a step of worker w: typed, and empty beyond `spawned`.
WorkersOK == /\ worker' \in [Workers -> WorkerState]
             /\ \A v \in Workers : v > spawned \/ worker'[v].pc = "dead" => worker'[v] = Dead

LEMMA WorkerTypeOK ==
  ASSUME TypeOK, NEW w \in Workers, WorkerStep(w) \/ WorkerCrash(w)
  PROVE  TypeOK'
<1> USE DEF TypeOK
<1>1. ASSUME Alive(w), NEW s \in WorkerState, s.pc # "dead" \/ s = Dead,
             worker' = [worker EXCEPT ![w] = s]
      PROVE  WorkersOK
  <2>1. ~ (w > spawned)
    BY <1>1, AliveSpawned, BoundAssumption DEF Workers
  <2>2. worker' \in [Workers -> WorkerState]
    BY <1>1
  <2>3. \A v \in Workers : worker'[v] = IF v = w THEN s ELSE worker[v]
    BY <1>1
  <2> QED
    BY <1>1, <2>1, <2>2, <2>3 DEF WorkersOK
<1>2. ASSUME Alive(w), NEW pc \in WorkerPC \ {"dead"}, Goto(w, pc)
      PROVE  WorkersOK
  <2>1. [worker[w] EXCEPT !.pc = pc] \in WorkerState /\ [worker[w] EXCEPT !.pc = pc].pc # "dead"
    BY <1>2 DEF WorkerState
  <2>2. worker' = [worker EXCEPT ![w] = [worker[w] EXCEPT !.pc = pc]]
    BY <1>2 DEF Goto
  <2> QED
    BY <1>1, <1>2, <2>1, <2>2
<1>3. ASSUME Alive(w), EndWorker(w)
      PROVE  WorkersOK /\ pid' \in Workers \cup {0}
  <2>1. Dead \in WorkerState
    BY DEF Dead, WorkerState, WorkerPC
  <2> QED
    BY <1>1, <1>3, <2>1 DEF EndWorker
<1>4. CASE WorkerBoot(w)
  <2>1. Alive(w) /\ "connect" \in WorkerPC \ {"dead"} /\ "starting" \in States
    BY <1>4 DEF WorkerBoot, At, Alive, WorkerPC, States
  <2>2. WorkersOK
    BY <1>2, <1>4, <2>1 DEF WorkerBoot
  <2>3. dir' \in BOOLEAN /\ status' \in Status
    BY <1>4, <2>1, StatusUpdate DEF WorkerBoot
  <2> QED
    BY <1>4, <2>2, <2>3 DEF WorkerBoot, WorkersOK, phone, history, faults
<1>5. CASE WorkerConnect(w)
  <2>1. Alive(w) /\ "sock" \in WorkerPC
    BY <1>5 DEF WorkerConnect, At, Alive, WorkerPC
  <2>2. /\ [worker[w] EXCEPT !.pc = "sock", !.mem = creds] \in WorkerState
        /\ [worker[w] EXCEPT !.pc = "sock", !.mem = creds].pc # "dead"
    BY <2>1 DEF WorkerState
  <2>3. worker' = [worker EXCEPT ![w] = [worker[w] EXCEPT !.pc = "sock", !.mem = creds]]
    BY <1>5 DEF WorkerConnect
  <2>4. WorkersOK
    BY <1>1, <2>1, <2>2, <2>3
  <2> QED
    BY <1>5, <2>4 DEF WorkerConnect, WorkersOK, phone, history, faults
<1>6. CASE WorkerQr(w)
  <2>1. Alive(w)
    BY <1>6 DEF WorkerQr, At, Alive
  <2>2. /\ [worker[w] EXCEPT !.late = TRUE] \in WorkerState
        /\ [worker[w] EXCEPT !.late = TRUE].pc # "dead"
    BY <2>1 DEF WorkerState, Alive
  <2>3. worker' = [worker EXCEPT ![w] = [worker[w] EXCEPT !.late = TRUE]]
    BY <1>6 DEF WorkerQr
  <2>4. WorkersOK
    BY <1>1, <2>1, <2>2, <2>3
  <2> QED
    BY <1>6, <2>4 DEF WorkerQr, WorkersOK, files, phone, history, faults
<1>7. CASE WorkerQrWritten(w)
  <2>1. Alive(w) /\ "qr" \in States
    BY <1>7 DEF WorkerQrWritten, Alive, Dead, WorkerState, States
  <2>2. /\ [worker[w] EXCEPT !.late = FALSE] \in WorkerState
        /\ [worker[w] EXCEPT !.late = FALSE].pc # "dead"
    BY <2>1 DEF WorkerState, Alive
  <2>3. worker' = [worker EXCEPT ![w] = [worker[w] EXCEPT !.late = FALSE]]
    BY <1>7 DEF WorkerQrWritten
  <2>4. WorkersOK
    BY <1>1, <2>1, <2>2, <2>3
  <2>5. dir' \in BOOLEAN /\ status' \in Status
    BY <1>7, <2>1, StatusUpdate DEF WorkerQrWritten
  <2> QED
    BY <1>7, <2>4, <2>5 DEF WorkerQrWritten, WorkersOK, phone, history, faults
<1>8. CASE WorkerScanned(w)
  <2> DEFINE k == paired + 1
  <2>1. /\ Alive(w) /\ k \in Devices /\ k \in 0 .. MaxDevices
        /\ devices' \subseteq Devices
    BY <1>8, BoundAssumption DEF WorkerScanned, At, Alive, Devices
  <2>2. CASE dir
    <3>1. /\ [worker[w] EXCEPT !.pc = "paired", !.mem = k] \in WorkerState
          /\ [worker[w] EXCEPT !.pc = "paired", !.mem = k].pc # "dead"
      BY <2>1 DEF WorkerState, WorkerPC
    <3>2. worker' = [worker EXCEPT ![w] = [worker[w] EXCEPT !.pc = "paired", !.mem = k]]
      BY <1>8, <2>2 DEF WorkerScanned
    <3>3. WorkersOK
      BY <1>1, <2>1, <3>1, <3>2
    <3> QED
      BY <1>8, <2>1, <2>2, <3>3 DEF WorkerScanned, WorkersOK, history, faults
  <2>3. CASE ~ dir
    <3>1. WorkersOK
      BY <1>1, <1>8, <2>1, <2>3 DEF WorkerScanned, Dead, WorkerState, WorkerPC
    <3> QED
      BY <1>8, <2>1, <2>3, <3>1 DEF WorkerScanned, WorkersOK, history, faults
  <2> QED
    BY <2>2, <2>3
<1>9. CASE WorkerOpen(w)
  <2>1. /\ Alive(w) /\ "linked" \in WorkerPC \ {"dead"} /\ "linked" \in States
        /\ worker[w].mem \in Devices
    BY <1>9 DEF WorkerOpen, At, Alive, WorkerPC, States
  <2>2. WorkersOK
    BY <1>2, <1>9, <2>1 DEF WorkerOpen
  <2>3. dir' \in BOOLEAN /\ status' \in Status
    BY <1>9, <2>1, StatusUpdate DEF WorkerOpen
  <2> QED
    BY <1>9, <2>1, <2>2, <2>3 DEF WorkerOpen, WorkersOK, phone, faults
<1>10. CASE WorkerFinish(w)
  <2>1. WorkersOK /\ pid' \in Workers \cup {0}
    BY <1>3, <1>10 DEF WorkerFinish, At, Alive
  <2> QED
    BY <1>10, <2>1 DEF WorkerFinish, WorkersOK, phone, history, faults
<1>11. CASE WorkerClose(w)
  <2>1. Alive(w) /\ {"idle", "wait"} \subseteq WorkerPC \ {"dead"} /\ "reconnecting" \in States
    BY <1>11 DEF WorkerClose, Alive, WorkerPC, States
  <2>2. WorkersOK
    BY <1>2, <1>11, <2>1 DEF WorkerClose
  <2>3. dir' \in BOOLEAN /\ status' \in Status
    BY <1>11, <2>1, StatusUpdate DEF WorkerClose
  <2> QED
    BY <1>11, <2>2, <2>3 DEF WorkerClose, WorkersOK, phone, history, faults
<1>12. CASE WorkerReconnect(w)
  <2>1. WorkersOK
    BY <1>2, <1>12 DEF WorkerReconnect, At, Alive, WorkerPC
  <2> QED
    BY <1>12, <2>1 DEF WorkerReconnect, WorkersOK, files, phone, history, faults
<1>13. CASE WorkerLoggedOut(w)
  <2>1. WorkersOK /\ pid' \in Workers \cup {0}
    BY <1>3, <1>13 DEF WorkerLoggedOut, Alive
  <2>2. dir' \in BOOLEAN /\ status' \in Status /\ told' \subseteq Devices \cup {0}
    BY <1>13, StatusUpdate DEF WorkerLoggedOut, States, WorkerState
  <2> QED
    BY <1>13, <2>1, <2>2 DEF WorkerLoggedOut, WorkersOK, phone, faults
<1>14. CASE WorkerTimeout(w)
  <2>1. WorkersOK /\ pid' \in Workers \cup {0}
    BY <1>3, <1>14 DEF WorkerTimeout, Alive
  <2>2. dir' \in BOOLEAN /\ status' \in Status
    BY <1>14, StatusUpdate DEF WorkerTimeout, States
  <2> QED
    BY <1>14, <2>1, <2>2 DEF WorkerTimeout, WorkersOK, phone, history, faults
<1>15. CASE WorkerCrash(w)
  <2>1. WorkersOK
    BY <1>1, <1>15 DEF WorkerCrash, Dead, WorkerState, WorkerPC
  <2> QED
    BY <1>15, <2>1 DEF WorkerCrash, WorkersOK, files, phone, history
<1>16. CASE WorkerSave(w)
  <2>1. Alive(w) /\ worker[w].mem \in Devices
    BY <1>16 DEF WorkerSave, Alive
  <2>2. creds' \in Devices \cup {0}
    BY <1>16, <2>1 DEF WorkerSave
  <2>3. UNCHANGED worker \/ worker' = [worker EXCEPT ![w] = Dead]
    BY <1>16 DEF WorkerSave
  <2>4. WorkersOK
    BY <1>1, <1>16, <2>1, <2>3 DEF WorkerSave, WorkersOK, Dead, WorkerState, WorkerPC
  <2> QED
    BY <1>16, <2>2, <2>4 DEF WorkerSave, WorkersOK, phone, history, faults
<1> QED
  BY <1>4, <1>5, <1>6, <1>7, <1>8, <1>9, <1>10, <1>11, <1>12, <1>13, <1>14, <1>15, <1>16
  DEF WorkerStep

\* The command table after a step of command c keeps its type.
CommandsOK == cmd' \in [Commands -> CommandState]

LEMMA CommandTypeOK ==
  ASSUME TypeOK, NEW c \in Commands, CommandStep(c) \/ CommandCrash(c)
  PROVE  TypeOK'
<1> USE DEF TypeOK
<1>1. ASSUME NEW pc \in CommandPC, Step(c, pc)
      PROVE  CommandsOK
  BY <1>1, CommandUpdate DEF Step, CommandsOK
<1>2. ASSUME Return(c)
      PROVE  CommandsOK
  BY <1>2, CommandUpdate DEF Return, CommandsOK
<1>3. ASSUME KillWorker
      PROVE  WorkersOK /\ pid' \in Workers \cup {0}
  <2>1. Dead \in WorkerState /\ Dead.pc = "dead"
    BY DEF Dead, WorkerState, WorkerPC
  <2> QED
    BY <1>3, <2>1 DEF KillWorker, WorkersOK
<1>4. ASSUME UNCHANGED <<worker, spawned>>
      PROVE  WorkersOK
  BY <1>4 DEF WorkersOK
<1>5. CASE LinkAnswered(c)
  BY <1>5 DEF LinkAnswered, vars
<1>6. CASE LinkBegin(c) \/ LinkReturn(c)
  <2>1. CommandsOK
    BY <1>1, <1>2, <1>6 DEF LinkBegin, LinkReturn, CommandPC
  <2> QED
    BY <1>6, <2>1 DEF LinkBegin, LinkReturn, CommandsOK, files, phone, history, faults
<1>7. CASE LinkKill(c)
  <2>1. CommandsOK
    BY <1>1, <1>7 DEF LinkKill, CommandPC
  <2>2. UNCHANGED spawned
    BY <1>7 DEF LinkKill
  <2>3. WorkersOK /\ pid' \in Workers \cup {0}
    BY <1>3, <1>4, <1>7, <2>2 DEF LinkKill
  <2> QED
    BY <1>7, <2>1, <2>3 DEF LinkKill, CommandsOK, WorkersOK, phone, history, faults
<1>8. CASE LinkStatus(c)
  <2>1. CommandsOK /\ "starting" \in States
    BY <1>1, <1>8 DEF LinkStatus, CommandPC, States
  <2>2. dir' \in BOOLEAN /\ status' \in Status
    BY <1>8, <2>1, StatusUpdate DEF LinkStatus
  <2> QED
    BY <1>8, <2>1, <2>2 DEF LinkStatus, CommandsOK, phone, history, faults
<1>9. CASE LinkSpawn(c)
  <2> DEFINE w == spawned + 1
             s == [Dead EXCEPT !.pc = "boot"]
  <2>1. w \in Workers /\ w \in 0 .. MaxSpawns
    BY <1>9, BoundAssumption DEF LinkSpawn, Workers
  <2>2. CommandsOK
    BY <1>9, <2>1, CommandUpdate DEF LinkSpawn, CommandsOK
  <2>3. s \in WorkerState /\ s.pc = "boot"
    BY DEF Dead, WorkerState, WorkerPC
  <2>4. worker' = [worker EXCEPT ![w] = s] /\ spawned' = w
    BY <1>9 DEF LinkSpawn
  <2>5. worker' \in [Workers -> WorkerState]
    BY <2>1, <2>3, <2>4
  <2>6. \A v \in Workers : worker'[v] = IF v = w THEN s ELSE worker[v]
    BY <2>1, <2>4
  <2>7. \A v \in Workers : v > w => v # w /\ v > spawned
    BY BoundAssumption DEF Workers
  <2>8. \A v \in Workers : v > w \/ worker'[v].pc = "dead" => worker'[v] = Dead
    BY <2>3, <2>6, <2>7
  <2> QED
    BY <1>9, <2>1, <2>2, <2>4, <2>5, <2>8 DEF LinkSpawn, CommandsOK, files, phone, history, faults
<1>10. CASE LinkPid(c)
  <2>1. CommandsOK
    BY <1>1, <1>2, <1>10 DEF LinkPid, CommandPC
  <2>2. pid' \in Workers \cup {0}
    BY <1>10 DEF LinkPid, CommandState
  <2> QED
    BY <1>10, <2>1, <2>2 DEF LinkPid, CommandsOK, phone, history, faults
<1>11. CASE LogoutKill(c)
  <2>1. CommandsOK
    BY <1>1, <1>11 DEF LogoutKill, CommandPC
  <2>2. WorkersOK /\ pid' \in Workers \cup {0}
    BY <1>3, <1>11 DEF LogoutKill
  <2> QED
    BY <1>11, <2>1, <2>2 DEF LogoutKill, CommandsOK, WorkersOK, phone, history, faults
<1>12. CASE LogoutUnlink(c)
  <2>1. CommandsOK /\ devices' \subseteq Devices
    BY <1>1, <1>12 DEF LogoutUnlink, CommandPC
  <2> QED
    BY <1>12, <2>1 DEF LogoutUnlink, CommandsOK, history, faults
<1>13. CASE LogoutWipe(c)
  <2>1. CommandsOK
    BY <1>2, <1>13 DEF LogoutWipe
  <2>2. NoStatus \in Status
    BY DEF NoStatus, Status, States
  <2> QED
    BY <1>13, <2>1, <2>2 DEF LogoutWipe, Wiped, CommandsOK, phone, history, faults
<1>14. CASE CommandCrash(c)
  <2>1. CommandsOK
    BY <1>2, <1>14 DEF CommandCrash
  <2> QED
    BY <1>14, <2>1 DEF CommandCrash, CommandsOK, files, phone, history
<1> QED
  BY <1>5, <1>6, <1>7, <1>8, <1>9, <1>10, <1>11, <1>12, <1>13, <1>14 DEF CommandStep

LEMMA SenderTypeOK ==
  ASSUME TypeOK, NEW t \in Senders, SenderStep(t)
  PROVE  TypeOK'
<1> USE DEF TypeOK
<1>1. \A pc \in {"idle", "connect", "open"}, dev \in Devices \cup {0} :
        SendGoes(t, pc, dev) => sender' \in [Senders -> SenderState]
  BY DEF SendGoes, SenderState
<1>2. sender[t].dev \in Devices \cup {0}
  BY DEF SenderState
<1>3. CASE SendBegin(t) \/ SendReturn(t)
  <2>1. sender' \in [Senders -> SenderState]
    BY <1>1, <1>3 DEF SendBegin, SendReturn
  <2> QED
    BY <1>3, <2>1 DEF SendBegin, SendReturn, files, phone, history, faults
<1>4. CASE SendConnect(t)
  <2>1. sender' \in [Senders -> SenderState]
    BY <1>1, <1>4 DEF SendConnect
  <2> QED
    BY <1>4, <2>1 DEF SendConnect, phone, history, faults
<1>5. CASE SendSave(t)
  <2>1. sender' \in [Senders -> SenderState] /\ creds' \in Devices \cup {0}
    BY <1>1, <1>2, <1>5 DEF SendSave
  <2> QED
    BY <1>5, <2>1 DEF SendSave, phone, history, faults
<1>6. CASE SendLoggedOut(t)
  <2>1. sender' \in [Senders -> SenderState] /\ told' \subseteq Devices \cup {0}
    BY <1>1, <1>2, <1>6 DEF SendLoggedOut
  <2> QED
    BY <1>6, <2>1 DEF SendLoggedOut, files, phone, faults
<1> QED
  BY <1>3, <1>4, <1>5, <1>6 DEF SenderStep

\* The directory, the processes and the devices keep their types.
THEOREM TypeCorrect == Spec => []TypeOK
<1>1. TypeOK /\ [Next]_vars => TypeOK'
  <2> SUFFICES ASSUME TypeOK, [Next]_vars PROVE TypeOK'
    OBVIOUS
  <2>1. CASE PhoneUnlinks
    BY <2>1 DEF PhoneUnlinks, TypeOK, files, procs, history, faults
  <2>2. CASE UNCHANGED vars
    BY <2>2 DEF TypeOK, vars
  <2> QED
    BY <2>1, <2>2, WorkerTypeOK, CommandTypeOK, SenderTypeOK DEF Next
<1> QED
  BY <1>1, InitType, PTL DEF Spec

(***************************************************************************)
(* Every worker can be found.                                              *)
(***************************************************************************)
NoneAlive == \A w \in Workers : ~ Alive(w)

\* WorkerFindable is not inductive: what happens between the kill and worker.pid
\* must be said too.
FindInv ==
  /\ WorkerFindable
  /\ \A c \in Commands : cmd[c].pc \in {"status", "spawn", "unlink", "wipe"} => NoneAlive
  /\ \A c \in Commands : On(c, "pid") => \A w \in Workers : Alive(w) => w = cmd[c].child
  /\ \A c \in Commands : cmd[c].pc \in {"spawn", "pid"} => dir

\* A worker is alive when it takes a step, touches no other worker and no
\* command, and removes worker.pid only as it exits.
LEMMA WorkerLocal ==
  ASSUME TypeOK, NEW w \in Workers, WorkerStep(w) \/ WorkerCrash(w)
  PROVE  /\ Alive(w)
         /\ \A v \in Workers : v # w => worker'[v] = worker[v]
         /\ pid' = pid \/ (pid' = 0 /\ worker'[w] = Dead)
         /\ dir' = dir \/ dir'
         /\ UNCHANGED <<cmd, spawned, last, sender>>
<1>1. Alive(w)
  <2>1. CASE WorkerQrWritten(w)
    BY <2>1 DEF WorkerQrWritten, TypeOK, Alive, Dead
  <2>2. CASE ~ WorkerQrWritten(w)
    BY <2>2 DEF WorkerStep, WorkerBoot, WorkerConnect, WorkerQr, WorkerScanned,
    WorkerOpen, WorkerSave, WorkerFinish, WorkerClose, WorkerReconnect, WorkerLoggedOut,
    WorkerTimeout, WorkerCrash, Alive, At
  <2> QED
    BY <2>1, <2>2
<1>2. \A v \in Workers : v # w => worker'[v] = worker[v]
  BY DEF WorkerStep, WorkerBoot, WorkerConnect, WorkerQr, WorkerQrWritten, WorkerScanned,
  WorkerOpen, WorkerSave, WorkerFinish, WorkerClose, WorkerReconnect, WorkerLoggedOut,
  WorkerTimeout, WorkerCrash, Goto, EndWorker, TypeOK
<1>3. pid' = pid \/ (pid' = 0 /\ worker'[w] = Dead)
  <2>1. CASE EndWorker(w)
    BY <2>1 DEF EndWorker, TypeOK
  <2>2. CASE ~ EndWorker(w)
    BY <2>2 DEF WorkerStep, WorkerBoot, WorkerConnect, WorkerQr, WorkerQrWritten,
    WorkerScanned, WorkerOpen, WorkerSave, WorkerFinish, WorkerClose, WorkerReconnect,
    WorkerLoggedOut, WorkerTimeout, WorkerCrash, files
  <2> QED
    BY <2>1, <2>2
<1>5. dir' = dir \/ dir'
  BY DEF WorkerStep, WorkerBoot, WorkerConnect, WorkerQr, WorkerQrWritten, WorkerScanned,
  WorkerOpen, WorkerSave, WorkerFinish, WorkerClose, WorkerReconnect, WorkerLoggedOut,
  WorkerTimeout, WorkerCrash, WriteStatus, files
<1>4. UNCHANGED <<cmd, spawned, last, sender>>
  BY DEF WorkerStep, WorkerBoot, WorkerConnect, WorkerQr, WorkerQrWritten, WorkerScanned,
  WorkerOpen, WorkerSave, WorkerFinish, WorkerClose, WorkerReconnect, WorkerLoggedOut,
  WorkerTimeout, WorkerCrash
<1> QED
  BY <1>1, <1>2, <1>3, <1>4, <1>5

\* A send touches no worker, no command and no status, and removes no directory.
LEMMA SenderLocal ==
  ASSUME NEW t \in Senders, SenderStep(t)
  PROVE  /\ UNCHANGED <<worker, cmd, pid, status, spawned, last, devices, opened>>
         /\ dir' = dir \/ dir'
  BY DEF SenderStep, SendBegin, SendConnect, SendSave, SendReturn, SendLoggedOut, files,
  phone, history

\* killWorker leaves no worker alive when worker.pid names them all.
LEMMA KilledDead ==
  ASSUME TypeOK, KillWorker, \A w \in Workers : Alive(w) => pid = w
  PROVE  \A w \in Workers : ~ Alive(w)'
<1> TAKE w \in Workers
<1>1. w # 0
  BY BoundAssumption DEF Workers
<1>2. CASE pid = w
  BY <1>1, <1>2 DEF KillWorker, Alive, Dead, TypeOK
<1>3. CASE pid # w
  BY <1>3 DEF KillWorker, Alive, Dead, TypeOK
<1> QED
  BY <1>2, <1>3

LEMMA FindInvStep ==
  ASSUME Serial, TypeOK, FindInv, [Next]_vars
  PROVE  FindInv'
<1> USE DEF FindInv, WorkerFindable, NoneAlive, On, Serial
<1>1. ASSUME NEW w \in Workers, WorkerStep(w) \/ WorkerCrash(w)
      PROVE  FindInv'
  <2>1. /\ Alive(w)
        /\ \A v \in Workers : v # w => worker'[v] = worker[v]
        /\ pid' = pid \/ (pid' = 0 /\ worker'[w] = Dead)
        /\ dir' = dir \/ dir'
        /\ UNCHANGED <<cmd, spawned, last>>
    BY <1>1, WorkerLocal
  <2>2. \A v \in Workers : Alive(v)' => Alive(v)
    BY <2>1 DEF Alive
  <2>3. \A v \in Workers : Alive(v)' => v = w
    BY <2>1, <2>2
  <2>4. ASSUME NEW v \in Workers, Alive(v)'
        PROVE  pid' = pid
    BY <2>1, <2>3, <2>4 DEF Alive, Dead
  <2>5. WorkerFindable'
    BY <2>1, <2>2, <2>4
  <2> QED
    BY <2>1, <2>2, <2>5
<1>2. ASSUME NEW c \in Commands, CommandStep(c) \/ CommandCrash(c)
      PROVE  FindInv'
  <2>1. \A d \in Commands : d = c
    OBVIOUS
  <2>2. CASE UNCHANGED <<worker, pid>> /\ cmd'[c].pc \in {"idle", "kill", "poll"}
             /\ ~ On(c, "pid")
    BY <2>1, <2>2 DEF Alive
  <2>3. CASE NoneAlive' /\ cmd'[c].pc # "pid" /\ (cmd'[c].pc = "spawn" => dir')
    BY <2>1, <2>3
  <2>4. CASE LinkAnswered(c)
    BY <2>4 DEF LinkAnswered, vars, Alive
  <2>5. CASE LinkBegin(c) \/ LinkReturn(c)
    <3>1. UNCHANGED <<worker, pid>> /\ cmd'[c].pc \in {"idle", "kill", "poll"}
      BY <2>5 DEF LinkBegin, LinkReturn, Step, Return, Idle, files, TypeOK, CommandState
    <3>2. ~ On(c, "pid")
      BY <2>5 DEF LinkBegin, LinkReturn
    <3> QED
      BY <2>2, <3>1, <3>2
  <2>6. CASE LinkKill(c)
    <3>1. \A w \in Workers : Alive(w) => pid = w
      BY <2>1, <2>6 DEF LinkKill
    <3>2. \A w \in Workers : ~ Alive(w)'
      <4>1. CASE pid # 0 /\ Alive(pid)
        BY <2>6, <3>1, <4>1, KilledDead DEF LinkKill
      <4>2. CASE ~ (pid # 0 /\ Alive(pid))
        <5>1. 0 \notin Workers
          BY BoundAssumption DEF Workers
        <5>2. \A w \in Workers : ~ Alive(w)
          BY <3>1, <4>2, <5>1
        <5> QED
          BY <2>6, <4>2, <5>2 DEF LinkKill, Alive
      <4> QED
        BY <4>1, <4>2
    <3>3. cmd'[c].pc = "status"
      BY <2>6 DEF LinkKill, Step, TypeOK, CommandState
    <3> QED
      BY <2>3, <3>2, <3>3
  <2>7. CASE LinkStatus(c)
    <3>1. NoneAlive' /\ cmd'[c].pc # "pid" /\ dir'
      BY <2>7 DEF LinkStatus, Step, WriteStatus, Alive, TypeOK, CommandState
    <3> QED
      BY <2>3, <3>1
  <2>8. CASE LinkSpawn(c)
    <3>1. NoneAlive
      BY <2>8 DEF LinkSpawn
    <3>2. \A v \in Workers : Alive(v)' => v = spawned + 1
      BY <2>8, <3>1 DEF LinkSpawn, Alive, TypeOK
    <3>3. cmd'[c].pc = "pid" /\ cmd'[c].child = spawned + 1 /\ dir'
      BY <2>8 DEF LinkSpawn, files, TypeOK, CommandState
    <3> QED
      BY <2>1, <3>2, <3>3
  <2>9. CASE LinkPid(c)
    <3>1. UNCHANGED worker
      BY <2>9 DEF LinkPid
    <3>2. \A w \in Workers : Alive(w) => w = cmd[c].child
      BY <2>9 DEF LinkPid
    <3>3. dir
      BY <2>9 DEF LinkPid
    <3> QED
      BY <2>1, <2>9, <3>1, <3>2, <3>3 DEF LinkPid, Step, TypeOK, CommandState, Alive
  <2>10. CASE LogoutKill(c)
    <3>1. \A w \in Workers : Alive(w) => pid = w
      BY <2>1, <2>10 DEF LogoutKill
    <3>2. \A w \in Workers : ~ Alive(w)'
      BY <2>10, <3>1, KilledDead DEF LogoutKill
    <3>3. cmd'[c].pc \in {"unlink", "wipe"}
      BY <2>10 DEF LogoutKill, Step, TypeOK, CommandState
    <3> QED
      BY <2>3, <3>2, <3>3
  <2>11. CASE LogoutUnlink(c) \/ LogoutWipe(c)
    <3>1. NoneAlive' /\ cmd'[c].pc \notin {"pid", "spawn"}
      BY <2>11 DEF LogoutUnlink, LogoutWipe, Step, Return, Idle, Alive, TypeOK, CommandState
    <3> QED
      BY <2>3, <3>1
  <2>12. CASE CommandCrash(c)
    <3>1. UNCHANGED <<worker, pid>> /\ cmd'[c].pc = "idle" /\ ~ On(c, "pid")
      BY <2>12 DEF CommandCrash, Return, Idle, files, TypeOK
    <3> QED
      BY <2>2, <3>1
  <2> QED
    BY <1>2, <2>4, <2>5, <2>6, <2>7, <2>8, <2>9, <2>10, <2>11, <2>12 DEF CommandStep
<1>3. CASE UNCHANGED <<worker, pid, cmd>> /\ (dir' = dir \/ dir')
  BY <1>3 DEF Alive
<1> QED
  BY <1>1, <1>2, <1>3, SenderLocal DEF Next, PhoneUnlinks, files, procs, vars

\* link and logout never lose track of a worker, and at most one is alive.
THEOREM WorkersAreFindable ==
  ASSUME Serial
  PROVE  Spec => []WorkerFindable
<1>1. Init => FindInv
  BY DEF Init, FindInv, WorkerFindable, NoneAlive, Alive, On, Dead, Idle
<1>2. TypeOK /\ FindInv /\ [Next]_vars => FindInv'
  BY FindInvStep
<1>3. FindInv => WorkerFindable
  BY DEF FindInv
<1> QED
  BY <1>1, <1>2, <1>3, TypeCorrect, PTL DEF Spec

(***************************************************************************)
(* A logout sticks.                                                        *)
(***************************************************************************)
\* A send that goes on after the logout may have read the credentials before,
\* but then it finds no directory to save them in.
NothingToSave == \A t \in Senders : sender[t].dev # 0 => ~ dir

LogoutInv ==
  last = "logout" =>
    /\ status = NoStatus
    /\ creds = 0
    /\ NoneAlive
    /\ \A c \in Commands : cmd[c].pc \notin {"spawn", "pid", "unlink"}
    /\ NothingToSave

LEMMA LogoutInvStep ==
  ASSUME Serial, OneSender, TypeOK, FindInv, LogoutInv, [Next]_vars
  PROVE  LogoutInv'
<1> SUFFICES ASSUME last' = "logout"
             PROVE  /\ status' = NoStatus
                    /\ creds' = 0
                    /\ NoneAlive'
                    /\ \A c \in Commands : cmd'[c].pc \notin {"spawn", "pid", "unlink"}
                    /\ NothingToSave'
  BY DEF LogoutInv
<1>1. ASSUME NEW c \in Commands, LogoutWipe(c)
      PROVE  /\ status' = NoStatus /\ creds' = 0 /\ NoneAlive'
             /\ \A d \in Commands : cmd'[d].pc = "idle"
             /\ NothingToSave'
  <2>1. NoneAlive
    BY <1>1 DEF FindInv, LogoutWipe, On
  <2> QED
    BY <1>1, <2>1 DEF LogoutWipe, Wiped, Return, Idle, NoneAlive, Alive, Serial, TypeOK,
    NothingToSave
<1>2. ASSUME NEW w \in Workers, WorkerStep(w) \/ WorkerCrash(w)
      PROVE  FALSE
  BY <1>2, WorkerLocal DEF LogoutInv, NoneAlive
<1>3. ASSUME NEW c \in Commands, CommandStep(c) \/ CommandCrash(c), ~ LogoutWipe(c)
      PROVE  /\ status' = NoStatus /\ creds' = 0 /\ NoneAlive'
             /\ \A d \in Commands : cmd'[d].pc \notin {"spawn", "pid", "unlink"}
             /\ NothingToSave'
  <2>1. ~ LinkStatus(c) /\ ~ LinkSpawn(c) /\ last = "logout"
    <3>1. ~ LinkStatus(c)
      BY DEF LinkStatus
    <3>2. last = "logout"
      BY <1>3, <3>1 DEF CommandStep, LinkAnswered, LinkBegin, LinkKill, LinkSpawn, LinkPid,
      LinkReturn, LogoutKill, LogoutUnlink, CommandCrash, vars
    <3> QED
      BY <3>1, <3>2 DEF LinkSpawn, LogoutInv, On
  <2>2. ~ LogoutUnlink(c) /\ ~ LinkPid(c)
    BY <2>1 DEF LogoutInv, LogoutUnlink, LinkPid, On
  <2>3. UNCHANGED <<status, creds, dir, sender>>
    BY <1>3, <2>1, <2>2 DEF CommandStep, LinkAnswered, LinkBegin, LinkKill, LinkReturn,
    LogoutKill, CommandCrash, vars, files
  <2>4. NoneAlive'
    BY <1>3, <2>1, <2>2 DEF CommandStep, LinkAnswered, LinkBegin, LinkKill, LinkReturn,
    LogoutKill, CommandCrash, vars, files, KillWorker, LogoutInv, NoneAlive, Alive, Dead, TypeOK
  <2>5. cmd'[c].pc \in {cmd[c].pc, "idle", "kill", "status", "wipe"}
    BY <1>3, <2>1, <2>2 DEF CommandStep, LinkAnswered, LinkBegin, LinkKill, LinkReturn,
    LogoutKill, CommandCrash, vars, Step, Return, Idle, LogoutInv, TypeOK, CommandState
  <2> QED
    BY <2>1, <2>3, <2>4, <2>5 DEF LogoutInv, Serial, NothingToSave
\* A send saves nothing: it read no credentials, or there is no directory.
<1>4. ASSUME NEW t \in Senders, SenderStep(t)
      PROVE  /\ status' = NoStatus /\ creds' = 0 /\ NoneAlive'
             /\ \A d \in Commands : cmd'[d].pc \notin {"spawn", "pid", "unlink"}
             /\ NothingToSave'
  <2>1. UNCHANGED <<worker, cmd, status, last>>
    BY <1>4, SenderLocal
  <2>2. /\ status = NoStatus /\ creds = 0 /\ NoneAlive /\ NothingToSave
        /\ \A d \in Commands : cmd[d].pc \notin {"spawn", "pid", "unlink"}
    BY <2>1 DEF LogoutInv
  <2>3. \A u \in Senders : u = t
    BY DEF OneSender
  <2>4. creds' = 0
    <3>1. CASE SendSave(t)
      <4>1. sender[t].dev # 0
        BY <3>1, BoundAssumption DEF SendSave, SendSaves, TypeOK, Devices
      <4>2. ~ dir
        BY <2>2, <4>1 DEF NothingToSave
      <4> QED
        BY <2>2, <3>1, <4>2 DEF SendSave
    <3> QED
      BY <1>4, <2>2, <3>1 DEF SenderStep, SendBegin, SendConnect, SendReturn, SendLoggedOut, files
  <2>5. NothingToSave'
    <3>1. CASE SendConnect(t)
      <4>1. sender'[t].dev = 0
        BY <2>2, <3>1 DEF SendConnect, SendGoes, TypeOK
      <4> QED
        BY <2>3, <4>1 DEF NothingToSave
    <3>2. CASE ~ SendConnect(t)
      <4>1. dir' = dir /\ sender'[t].dev \in {0, sender[t].dev}
        BY <1>4, <3>2 DEF SenderStep, SendBegin, SendSave, SendReturn, SendLoggedOut, SendGoes,
        files, TypeOK
      <4> QED
        BY <2>2, <2>3, <4>1 DEF NothingToSave
    <3> QED
      BY <3>1, <3>2
  <2> QED
    BY <2>1, <2>2, <2>4, <2>5 DEF NoneAlive, Alive
<1>5. CASE PhoneUnlinks \/ UNCHANGED vars
  BY <1>5 DEF PhoneUnlinks, vars, files, procs, LogoutInv, NoneAlive, Alive, NothingToSave
<1> QED
  BY <1>1, <1>2, <1>3, <1>4, <1>5 DEF Next

\* After a logout, neither a worker nor a send brings back what it wiped.
THEOREM LogoutsStick ==
  ASSUME Serial, OneSender
  PROVE  Spec => []LogoutSticks
<1>1. Init => FindInv /\ LogoutInv
  BY DEF Init, FindInv, WorkerFindable, NoneAlive, Alive, On, Dead, Idle, LogoutInv
<1>2. TypeOK /\ FindInv /\ LogoutInv /\ [Next]_vars => FindInv' /\ LogoutInv'
  BY FindInvStep, LogoutInvStep
<1>3. LogoutInv => LogoutSticks
  BY DEF LogoutInv, LogoutSticks, NoneAlive
<1> QED
  BY <1>1, <1>2, <1>3, TypeCorrect, PTL DEF Spec

(***************************************************************************)
(* What isLinked promises.                                                 *)
(***************************************************************************)
\* While the status says connected, a worker that is still alive is the one that
\* opened the link.  What a worker is about to open is on disk, unless a send has
\* replaced it there by an opened device.
LinkedInv ==
  /\ status.connected => creds \in opened \cup {0}
  /\ 0 \notin opened
  /\ \A w \in Workers :
       /\ Alive(w) /\ status.connected => At(w, "linked")
       /\ At(w, "sock") => creds \in opened \cup {0, worker[w].mem}
       /\ At(w, "linked") => worker[w].mem \in opened
  /\ \A c \in Commands : On(c, "spawn") => ~ status.connected

\* What a step of worker w has to show: the other workers are dead, no link is
\* about to spawn, and the commands do not move.
WorkerPart(w) ==
  /\ status.connected => creds \in opened \cup {0}
  /\ 0 \notin opened
  /\ Alive(w) /\ status.connected => At(w, "linked")
  /\ At(w, "sock") => creds \in opened \cup {0, worker[w].mem}
  /\ At(w, "linked") => worker[w].mem \in opened

LEMMA WorkerLinked ==
  ASSUME TypeOK, FindInv, LinkedInv, NEW w \in Workers, WorkerStep(w) \/ WorkerCrash(w),
         WorkerPart(w)'
  PROVE  LinkedInv'
<1>1. /\ Alive(w)
      /\ \A v \in Workers : v # w => worker'[v] = worker[v]
      /\ UNCHANGED <<cmd, spawned, last>>
  BY WorkerLocal
<1>2. \A v \in Workers : v # w => ~ Alive(v) /\ ~ Alive(v)'
  BY <1>1 DEF FindInv, WorkerFindable, Alive
<1>3. \A v \in Workers :
        /\ Alive(v)' /\ status'.connected => At(v, "linked")'
        /\ At(v, "sock")' => creds' \in opened' \cup {0, worker'[v].mem}
        /\ At(v, "linked")' => worker'[v].mem \in opened'
  BY <1>2 DEF Alive, At, WorkerPart
<1>4. \A c \in Commands : ~ On(c, "spawn")'
  BY <1>1 DEF FindInv, NoneAlive, On
<1> QED
  BY <1>3, <1>4 DEF LinkedInv, WorkerPart

LEMMA WorkerLinkedInv ==
  ASSUME TypeOK, FindInv, LinkedInv, NEW w \in Workers, WorkerStep(w) \/ WorkerCrash(w)
  PROVE  LinkedInv'
<1>1. SUFFICES WorkerPart(w)'
  BY WorkerLinked
<1>2. Alive(w) /\ worker[w] \in WorkerState
  BY WorkerLocal DEF TypeOK
<1>3. /\ status.connected => creds \in opened \cup {0}
      /\ 0 \notin opened
      /\ status.connected => At(w, "linked")
      /\ At(w, "sock") => creds \in opened \cup {0, worker[w].mem}
      /\ At(w, "linked") => worker[w].mem \in opened
  BY <1>2 DEF LinkedInv
<1> USE DEF WorkerPart
<1>4. CASE WorkerBoot(w)
  <2>1. ~ status'.connected /\ worker'[w].pc = "connect" /\ At(w, "boot") /\ opened' = opened
    BY <1>4 DEF WorkerBoot, WriteStatus, Goto, TypeOK, WorkerState, history
  <2> QED
    BY <1>3, <2>1 DEF At, Alive
<1>5. CASE WorkerConnect(w)
  <2>1. /\ At(w, "connect") /\ worker'[w].pc = "sock" /\ worker'[w].mem = creds
        /\ UNCHANGED <<status, creds, opened>>
    BY <1>5 DEF WorkerConnect, TypeOK, WorkerState, history
  <2> QED
    BY <1>3, <2>1 DEF At, Alive
<1>6. CASE WorkerQr(w) \/ WorkerReconnect(w)
  <2>1. /\ worker'[w].pc = worker[w].pc \/ (At(w, "wait") /\ worker'[w].pc = "connect")
        /\ worker'[w].mem = worker[w].mem
        /\ UNCHANGED <<status, creds, opened>>
    BY <1>6 DEF WorkerQr, WorkerReconnect, Goto, TypeOK, WorkerState, files, history, At
  <2> QED
    BY <1>2, <1>3, <2>1 DEF At, Alive
<1>7. CASE WorkerQrWritten(w)
  <2>1. /\ ~ status'.connected
        /\ worker'[w].pc = worker[w].pc /\ worker'[w].mem = worker[w].mem
        /\ UNCHANGED <<creds, opened>>
    BY <1>7 DEF WorkerQrWritten, WriteStatus, TypeOK, WorkerState, history
  <2> QED
    BY <1>3, <2>1 DEF At
<1>8. CASE WorkerScanned(w)
  <2>1. /\ At(w, "sock") /\ worker'[w].pc \in {"paired", "dead"}
        /\ UNCHANGED <<status, opened>>
    BY <1>8 DEF WorkerScanned, Dead, TypeOK, WorkerState, history
  <2> QED
    BY <1>3, <2>1 DEF At
<1>9. CASE WorkerOpen(w)
  <2>1. /\ At(w, "sock") /\ worker'[w].pc = "linked" /\ worker'[w].mem = worker[w].mem
        /\ opened' = opened \cup {worker[w].mem} /\ worker[w].mem \in devices
        /\ UNCHANGED creds
    BY <1>9 DEF WorkerOpen, Goto, TypeOK, WorkerState
  <2>2. worker[w].mem # 0
    BY <2>1, BoundAssumption DEF TypeOK, Devices
  <2> QED
    BY <1>3, <2>1, <2>2 DEF At
<1>10. CASE WorkerFinish(w) \/ WorkerCrash(w)
  <2>1. worker'[w].pc = "dead" /\ UNCHANGED <<status, creds, opened>>
    BY <1>10 DEF WorkerFinish, WorkerCrash, EndWorker, Dead, TypeOK, files, history
  <2> QED
    BY <1>3, <2>1 DEF At, Alive
<1>11. CASE WorkerClose(w)
  <2>1. /\ worker[w].pc \in {"sock", "paired"} /\ worker'[w].pc \in {"idle", "wait"}
        /\ status' = status \/ ~ status'.connected
        /\ UNCHANGED <<creds, opened>>
    BY <1>11 DEF WorkerClose, WriteStatus, Goto, TypeOK, WorkerState, history
  <2> QED
    BY <1>3, <2>1 DEF At
<1>12. CASE WorkerLoggedOut(w)
  <2>1. worker'[w].pc = "dead" /\ ~ status'.connected /\ creds' = 0 /\ opened' = opened
    BY <1>12 DEF WorkerLoggedOut, WriteStatus, EndWorker, Dead, TypeOK
  <2> QED
    BY <1>3, <2>1 DEF At
<1>13. CASE WorkerTimeout(w)
  <2>1. /\ worker'[w].pc = "dead"
        /\ status' = status \/ ~ status'.connected
        /\ UNCHANGED <<creds, opened>>
    BY <1>13 DEF WorkerTimeout, WriteStatus, EndWorker, Dead, TypeOK, history
  <2> QED
    BY <1>3, <2>1 DEF At, Alive
<1>14. CASE WorkerSave(w)
  <2>1. worker[w].pc \in {"sock", "linked"} /\ UNCHANGED <<status, opened>>
    BY <1>14 DEF WorkerSave, history
  <2>2. CASE dir
    <3>1. creds' = worker[w].mem /\ UNCHANGED worker
      BY <1>14, <2>2 DEF WorkerSave
    <3> QED
      BY <1>3, <2>1, <3>1 DEF At, Alive
  <2>3. CASE ~ dir
    <3>1. creds' = creds /\ worker'[w].pc = "dead"
      BY <1>14, <2>3 DEF WorkerSave, Dead, TypeOK
    <3> QED
      BY <1>3, <2>1, <3>1 DEF At, Alive
  <2> QED
    BY <2>2, <2>3
<1> QED
  BY <1>4, <1>5, <1>6, <1>7, <1>8, <1>9, <1>10, <1>11, <1>12, <1>13, <1>14 DEF WorkerStep

LEMMA CommandLinkedInv ==
  ASSUME Serial, TypeOK, FindInv, LinkedInv,
         NEW c \in Commands, CommandStep(c) \/ CommandCrash(c)
  PROVE  LinkedInv'
<1>1. \A d \in Commands : d = c
  BY DEF Serial
\* nothing the invariant speaks of changes, and c is not about to spawn
<1>2. CASE UNCHANGED <<status, creds, opened, worker>> /\ ~ On(c, "spawn")'
  BY <1>1, <1>2 DEF LinkedInv, Alive, At
\* every worker is dead
<1>3. CASE /\ NoneAlive'
           /\ status'.connected => creds' \in opened' \cup {0}
           /\ opened' = opened
           /\ On(c, "spawn")' => ~ status'.connected
  BY <1>1, <1>3 DEF LinkedInv, NoneAlive, Alive, At
<1>4. CASE LinkAnswered(c)
  BY <1>4 DEF LinkAnswered, vars, LinkedInv, Alive, At, On
<1>5. CASE LinkBegin(c) \/ LinkPid(c) \/ LinkReturn(c) \/ CommandCrash(c)
  <2>1. UNCHANGED <<status, creds, opened, worker>>
    BY <1>5 DEF LinkBegin, LinkPid, LinkReturn, CommandCrash, files, history
  <2>2. cmd'[c].pc \in {"idle", "kill", "poll"}
    BY <1>5 DEF LinkBegin, LinkPid, LinkReturn, CommandCrash, Step, Return, Idle, TypeOK,
    CommandState
  <2> QED
    BY <1>2, <2>1, <2>2 DEF On
<1>6. CASE LinkKill(c) \/ LogoutKill(c)
  <2>1. UNCHANGED <<status, creds, opened>>
    BY <1>6 DEF LinkKill, LogoutKill, history
  <2>2. cmd'[c].pc \in {"status", "unlink", "wipe"}
    BY <1>6 DEF LinkKill, LogoutKill, Step, TypeOK, CommandState
  <2>3. NoneAlive'
    <3>1. FindInv'
      BY <1>6, FindInvStep DEF Next, CommandStep
    <3> QED
      BY <2>2, <3>1 DEF FindInv, NoneAlive
  <2> QED
    BY <1>3, <2>1, <2>2, <2>3 DEF LinkedInv, On
<1>7. CASE LinkStatus(c)
  <2>1. NoneAlive'
    BY <1>7 DEF LinkStatus, FindInv, NoneAlive, Alive, On
  <2> QED
    BY <1>3, <1>7, <2>1 DEF LinkStatus, Step, WriteStatus, history, On, TypeOK, CommandState
<1>8. CASE LinkSpawn(c)
  <2> DEFINE n == spawned + 1
  <2>1. NoneAlive /\ ~ status.connected
    BY <1>8 DEF LinkSpawn, FindInv, LinkedInv, On
  <2>2. \A w \in Workers : worker'[w].pc \in {"dead", "boot"}
    BY <1>8, <2>1 DEF LinkSpawn, NoneAlive, Alive, Dead, TypeOK
  <2>3. UNCHANGED <<status, creds, opened>> /\ cmd'[c].pc = "pid"
    BY <1>8 DEF LinkSpawn, files, history, TypeOK, CommandState
  <2> QED
    BY <1>1, <2>1, <2>2, <2>3 DEF LinkedInv, Alive, At, On
<1>9. CASE LogoutUnlink(c) \/ LogoutWipe(c)
  <2>1. NoneAlive'
    BY <1>9 DEF LogoutUnlink, LogoutWipe, FindInv, NoneAlive, Alive, On
  <2>2. opened' = opened /\ cmd'[c].pc \in {"wipe", "idle"}
    BY <1>9 DEF LogoutUnlink, LogoutWipe, Step, Return, Idle, history, TypeOK, CommandState
  <2>3. status'.connected => creds' \in opened' \cup {0}
    BY <1>9 DEF LogoutUnlink, LogoutWipe, Wiped, NoStatus, LinkedInv, history
  <2> QED
    BY <1>3, <2>1, <2>2, <2>3 DEF On
<1> QED
  BY <1>4, <1>5, <1>6, <1>7, <1>8, <1>9 DEF CommandStep

\* A send puts back an opened device, or what is there already.
LEMMA SenderLinkedInv ==
  ASSUME ~ LongSends, LinkedInv, NEW t \in Senders, SenderStep(t)
  PROVE  LinkedInv'
<1>1. UNCHANGED <<worker, cmd, status, opened>>
  BY SenderLocal
<1>2. creds' \in opened \cup {creds}
  BY DEF SenderStep, SendBegin, SendConnect, SendSave, SendSaves, SendReturn, SendLoggedOut, files
<1> QED
  BY <1>1, <1>2 DEF LinkedInv, Alive, At, On

LEMMA LinkedInvStep ==
  ASSUME Serial, ~ LongSends, TypeOK, FindInv, LinkedInv, [Next]_vars
  PROVE  LinkedInv'
<1>1. CASE PhoneUnlinks \/ UNCHANGED vars
  BY <1>1 DEF PhoneUnlinks, vars, files, procs, history, LinkedInv, Alive, At, On
<1> QED
  BY <1>1, WorkerLinkedInv, CommandLinkedInv, SenderLinkedInv DEF Next

LEMMA InitInvs == Init => FindInv /\ LinkedInv
  BY DEF Init, FindInv, WorkerFindable, NoneAlive, Alive, At, On, Dead, Idle, LinkedInv, NoStatus

\* isLinked never answers yes for a pairing that was not completed.
THEOREM ConnectedWereOpened ==
  ASSUME Serial, ~ LongSends
  PROVE  Spec => []ConnectedWasOpened
<1>1. TypeOK /\ FindInv /\ LinkedInv /\ [Next]_vars => FindInv' /\ LinkedInv'
  BY FindInvStep, LinkedInvStep
<1>2. LinkedInv => ConnectedWasOpened
  BY DEF LinkedInv, ConnectedWasOpened, IsLinked
<1> QED
  BY <1>1, <1>2, InitInvs, TypeCorrect, PTL DEF Spec

(***************************************************************************)
(* A linked account stays linked.                                          *)
(***************************************************************************)
\* A QR whose images are still being written belongs to a socket without
\* credentials: the worker does not open, nor restart, before they are written.
LateInv ==
  \A w \in Workers :
    /\ worker[w].late => worker[w].pc \notin {"boot", "connect", "linked"}
    /\ worker[w].late /\ At(w, "sock") => worker[w].mem = 0

LEMMA WorkerLateInv ==
  ASSUME ~ SlowQr, TypeOK, LateInv, NEW w \in Workers, WorkerStep(w) \/ WorkerCrash(w)
  PROVE  LateInv'
<1> DEFINE Inv == /\ worker'[w].late => worker'[w].pc \notin {"boot", "connect", "linked"}
                  /\ worker'[w].late /\ worker'[w].pc = "sock" => worker'[w].mem = 0
<1>1. \A v \in Workers : v # w => worker'[v] = worker[v]
  BY WorkerLocal
<1>2. SUFFICES Inv
  BY <1>1 DEF LateInv, At
<1>3. worker[w] \in WorkerState
  BY DEF TypeOK
<1>4. /\ worker[w].late => worker[w].pc \notin {"boot", "connect", "linked"}
      /\ worker[w].late /\ worker[w].pc = "sock" => worker[w].mem = 0
  BY DEF LateInv, At
<1>5. CASE WorkerBoot(w) \/ WorkerConnect(w)
  <2>1. ~ worker[w].late /\ worker'[w].late = worker[w].late
    BY <1>4, <1>5 DEF WorkerBoot, WorkerConnect, At, Goto, TypeOK, WorkerState
  <2> QED
    BY <2>1
<1>6. CASE WorkerQr(w)
  <2>1. worker'[w].pc = "sock" /\ worker'[w].mem = 0
    BY <1>3, <1>6 DEF WorkerQr, At, TypeOK, WorkerState
  <2> QED
    BY <2>1
<1>7. CASE WorkerQrWritten(w)
  <2>1. ~ worker'[w].late
    BY <1>3, <1>7 DEF WorkerQrWritten, TypeOK, WorkerState
  <2> QED
    BY <2>1
<1>8. CASE WorkerScanned(w) \/ WorkerClose(w)
  <2>1. CASE WorkerScanned(w)
    <3>1. CASE dir
      <4>1. worker' = [worker EXCEPT ![w].pc = "paired", ![w].mem = paired + 1]
        BY <2>1, <3>1 DEF WorkerScanned
      <4>2. worker'[w].pc = "paired"
        BY <1>3, <4>1 DEF TypeOK, WorkerState
      <4> QED
        BY <4>2
    <3>2. CASE ~ dir
      <4>1. worker'[w] = Dead
        BY <2>1, <3>2 DEF WorkerScanned, TypeOK
      <4> QED
        BY <4>1 DEF Dead
    <3> QED
      BY <3>1, <3>2
  <2>2. CASE WorkerClose(w)
    <3>1. worker'[w].pc \in {"idle", "wait"}
      BY <1>3, <2>2 DEF WorkerClose, Goto, TypeOK, WorkerState
    <3> QED
      BY <3>1
  <2> QED
    BY <1>8, <2>1, <2>2
<1>9. CASE WorkerOpen(w)
  <2>1. worker[w].mem # 0 /\ worker[w].pc = "sock"
    BY <1>9, BoundAssumption DEF WorkerOpen, At, TypeOK, Devices
  <2>2. ~ worker[w].late /\ worker'[w].late = worker[w].late
    BY <1>3, <1>4, <1>9, <2>1 DEF WorkerOpen, Goto, TypeOK, WorkerState
  <2> QED
    BY <2>2
<1>10. CASE WorkerReconnect(w)
  <2>1. ~ worker[w].late /\ worker'[w].late = worker[w].late
    BY <1>3, <1>10 DEF WorkerReconnect, Goto, TypeOK, WorkerState
  <2> QED
    BY <2>1, <1>3 DEF WorkerState
<1>12. CASE WorkerSave(w)
  <2>1. UNCHANGED worker \/ worker'[w] = Dead
    BY <1>12 DEF WorkerSave, TypeOK
  <2> QED
    BY <1>4, <2>1 DEF Dead
<1>11. CASE WorkerFinish(w) \/ WorkerLoggedOut(w) \/ WorkerTimeout(w) \/ WorkerCrash(w)
  <2>1. worker'[w] = Dead
    BY <1>11 DEF WorkerFinish, WorkerLoggedOut, WorkerTimeout, WorkerCrash, EndWorker, TypeOK
  <2> QED
    BY <2>1 DEF Dead
<1> QED
  BY <1>5, <1>6, <1>7, <1>8, <1>9, <1>10, <1>11, <1>12 DEF WorkerStep

\* A command starts a worker without a QR, kills one, or leaves them alone.
LEMMA CommandLateInv ==
  ASSUME TypeOK, LateInv, NEW c \in Commands, CommandStep(c) \/ CommandCrash(c)
  PROVE  LateInv'
<1>1. CASE UNCHANGED worker
  BY <1>1 DEF LateInv, At
<1>2. CASE LinkSpawn(c)
  <2>1. spawned + 1 \in Workers
    BY <1>2, BoundAssumption DEF LinkSpawn, TypeOK, Workers
  <2>2. \A w \in Workers : worker'[w] = worker[w] \/ ~ worker'[w].late
    BY <1>2, <2>1 DEF LinkSpawn, Dead, TypeOK
  <2> QED
    BY <2>2 DEF LateInv, At
<1>3. CASE KillWorker
  <2>1. \A w \in Workers : worker'[w] = worker[w] \/ worker'[w] = Dead
    BY <1>3 DEF KillWorker, TypeOK
  <2> QED
    BY <2>1 DEF LateInv, At, Dead
<1> QED
  BY <1>1, <1>2, <1>3 DEF CommandStep, CommandCrash, LinkAnswered, LinkBegin, LinkKill, LinkStatus,
  LinkPid, LinkReturn, LogoutKill, LogoutUnlink, LogoutWipe, vars

LEMMA LateInvStep ==
  ASSUME ~ SlowQr, TypeOK, LateInv, [Next]_vars
  PROVE  LateInv'
<1>1. CASE UNCHANGED worker
  BY <1>1 DEF LateInv, At
<1> QED
  BY <1>1, WorkerLateInv, CommandLateInv, SenderLocal DEF Next, PhoneUnlinks, vars, procs

\* A worker alive while the account counts as linked is the one that opened the
\* link: it may only be told that WhatsApp has dropped its device.
LEMMA WorkerKeepsLink ==
  ASSUME TypeOK, LinkedInv, LateInv, IsLinked,
         NEW w \in Workers, WorkerStep(w) \/ WorkerCrash(w)
  PROVE  IsLinked' \/ WorkerDisowned
<1>1. worker[w].pc = "linked"
  BY WorkerLocal DEF LinkedInv, IsLinked, At
<1>2. ~ worker[w].late
  BY <1>1 DEF LateInv
<1>3. CASE WorkerLoggedOut(w)
  <2>1. worker[w].mem \notin devices \cup {0} /\ worker'[w].pc = "dead"
    BY <1>3 DEF WorkerLoggedOut, EndWorker, Dead, TypeOK
  <2> QED
    BY <2>1 DEF WorkerDisowned
<1>4. CASE WorkerFinish(w) \/ WorkerTimeout(w) \/ WorkerCrash(w)
  BY <1>4 DEF WorkerFinish, WorkerTimeout, WorkerCrash, files, IsLinked
<1>5. CASE WorkerSave(w)
  <2>1. worker[w].mem # 0
    BY <1>5, BoundAssumption DEF WorkerSave, TypeOK, Devices
  <2> QED
    BY <1>5, <2>1 DEF WorkerSave, IsLinked
<1> QED
  BY <1>1, <1>2, <1>3, <1>4, <1>5 DEF WorkerStep, WorkerBoot, WorkerConnect, WorkerQr,
  WorkerQrWritten, WorkerScanned, WorkerOpen, WorkerClose, WorkerReconnect, At

LEMMA CommandKeepsLink ==
  ASSUME TypeOK, LinkedInv, IsLinked,
         NEW c \in Commands, CommandStep(c) \/ CommandCrash(c)
  PROVE  IsLinked' \/ LinkResets \/ LogoutWipes
<1>1. CASE LinkStatus(c)
  BY <1>1 DEF LinkStatus, LinkResets, Step, TypeOK, CommandState
<1>2. CASE LogoutWipe(c)
  BY <1>2 DEF LogoutWipe, LogoutWipes, Return, Idle, TypeOK
<1>3. CASE UNCHANGED <<status, creds>>
  BY <1>3 DEF IsLinked
<1> QED
  BY <1>1, <1>2, <1>3 DEF CommandStep, CommandCrash, LinkAnswered, LinkBegin, LinkKill,
  LinkSpawn, LinkPid, LinkReturn, LogoutKill, LogoutUnlink, vars, files

\* What a send saves is a device, too.
LEMMA SenderKeepsLink ==
  ASSUME TypeOK, IsLinked, NEW t \in Senders, SenderStep(t)
  PROVE  IsLinked'
<1>1. status' = status
  BY SenderLocal
<1>2. CASE SendSave(t)
  <2>1. sender[t].dev # 0
    BY <1>2, BoundAssumption DEF SendSave, SendSaves, TypeOK, Devices
  <2> QED
    BY <1>1, <1>2, <2>1 DEF SendSave, IsLinked
<1> QED
  BY <1>1, <1>2 DEF SenderStep, SendBegin, SendConnect, SendReturn, SendLoggedOut, files, IsLinked

\* isLinked becomes false only by a logout, by a link that had found the account
\* unlinked, or when a worker learns that WhatsApp dropped its device: no
\* straggling worker and no send undoes it.
THEOREM LinkedStaysLinked ==
  ASSUME Serial, ~ SlowQr, ~ LongSends
  PROVE  Spec => StaysLinked
<1> DEFINE Safe == IsLinked /\ ~ IsLinked' => LinkResets \/ LogoutWipes \/ WorkerDisowned
<1>1. Init => LateInv
  BY DEF Init, LateInv, At, Dead
<1>2. /\ TypeOK /\ FindInv /\ LinkedInv /\ LateInv /\ [Next]_vars
      => FindInv' /\ LinkedInv' /\ LateInv'
  BY FindInvStep, LinkedInvStep, LateInvStep
<1>3. TypeOK /\ LinkedInv /\ LateInv /\ [Next]_vars => [Safe]_vars
  <2> SUFFICES ASSUME TypeOK, LinkedInv, LateInv, Next, IsLinked
               PROVE  IsLinked' \/ LinkResets \/ LogoutWipes \/ WorkerDisowned
    OBVIOUS
  <2>1. CASE PhoneUnlinks
    BY <2>1 DEF PhoneUnlinks, files, IsLinked
  <2> QED
    BY <2>1, WorkerKeepsLink, CommandKeepsLink, SenderKeepsLink DEF Next
<1> QED
  BY <1>1, <1>2, <1>3, InitInvs, TypeCorrect, PTL DEF Spec, StaysLinked
===============================================================================
