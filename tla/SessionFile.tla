------------------------------ MODULE SessionFile ------------------------------
(***************************************************************************)
(* The session manager: a conversation as a tree of entries, kept in memory *)
(* and in an append-only file.                                             *)
(*   src/frontend/packages/coding-agent/src/core/session-manager.ts        *)
(*                                                                         *)
(* An entry names its parent; the leaf is where the next one goes.  Nothing *)
(* is written before the first answer of the assistant: then every entry   *)
(* is, line by line, and from then on each entry as it comes.  All writes  *)
(* are synchronous, so that only the end of the process can interrupt them. *)
(* Entries and lines are abstracted to their kind and the entries that they *)
(* refer to; identifiers grow, and 0 stands for null.                      *)
(***************************************************************************)
EXTENDS Naturals, Sequences, SequencesExt, FiniteSets

CONSTANTS
  ForkPastGaps,    \* a path to be forked may refer to an entry that the fork will not hold: to a label,
                   \* which is left out, or to one whose line was lost
  MaxEntries, MaxFiles, MaxCrashes    \* bounds of the model, not of the code

ASSUME SwitchAssumption == ForkPastGaps \in BOOLEAN
ASSUME BoundAssumption == {MaxEntries, MaxFiles, MaxCrashes} \subseteq Nat

VARIABLES
  disk,            \* the lines of every session file
  file,            \* the file of the session that is open, or 0
  entries,         \* fileEntries: what is in memory of it, the header first
  leaf, flushed,
  labels,          \* labelsById: the entries that have a label
  writing,         \* the lines that are still to be written
  used,            \* the last identifier, of an entry or of a file
  crashes

vars == <<disk, file, entries, leaf, flushed, labels, writing, used, crashes>>

Files == 1 .. MaxFiles
Kinds == {"user", "assistant", "compaction", "summary", "label", "unlabel"}
Entry == [id: 1 .. MaxEntries, parent: 0 .. MaxEntries, kind: Kinds, target: 0 .. MaxEntries]
Header(f) == [id |-> f, parent |-> 0, kind |-> "session", target |-> 0]
Garbage(kind) == [id |-> 0, parent |-> 0, kind |-> kind, target |-> 0]
Torn == Garbage("torn")        \* half a line, which the next line continues
Spoilt == Garbage("spoilt")
FileEntry == Entry \cup {Header(f) : f \in Files}
Line == FileEntry \cup {Torn, Spoilt}

TypeOK ==
  /\ disk \in [Files -> Seq(Line)]
  /\ file \in Files \cup {0}
  /\ entries \in Seq(FileEntry)
  /\ leaf \in 0 .. MaxEntries
  /\ flushed \in BOOLEAN
  /\ labels \subseteq 1 .. MaxEntries
  /\ writing \in Seq(FileEntry)
  /\ used \in [entry: 0 .. MaxEntries, file: 0 .. MaxFiles]
  /\ crashes \in 0 .. MaxCrashes

Init ==
  /\ disk = [f \in Files |-> <<>>]
  /\ file = 0
  /\ entries = <<>>
  /\ leaf = 0
  /\ flushed = FALSE
  /\ labels = {}
  /\ writing = <<>>
  /\ used = [entry |-> 0, file |-> 0]
  /\ crashes = 0

(***************************************************************************)
(* Trees.                                                                  *)
(***************************************************************************)
IsEntry(e) == e.kind \in Kinds
Ids(es) == {e.id : e \in {x \in ToSet(es) : IsEntry(x)}}
Get(es, id) == CHOOSE e \in ToSet(es) : IsEntry(e) /\ e.id = id
HasAssistant(es) == \E e \in ToSet(es) : e.kind = "assistant"

\* SelectSeq by kind, as a recursive function: no fact about SelectSeq can be proved here
Only(es, kinds) ==
  LET only[n \in 0 .. Len(es)] ==
        IF n = 0 THEN <<>>
        ELSE IF es[n].kind \in kinds THEN Append(only[n - 1], es[n]) ELSE only[n - 1]
  IN only[Len(es)]

\* getBranch: a parent comes before its children
PathTo(es, id) ==
  LET ids == Ids(es)
      path[i \in 0 .. MaxEntries] ==
        IF i \in ids THEN LET e == Get(es, i) IN Append(path[e.parent], e) ELSE <<>>
  IN path[id]

Messages(path) == Only(path, {"user", "assistant", "summary"})

\* buildSessionContext, along a path
ContextOf(path) ==
  LET compacted == {i \in DOMAIN path : path[i].kind = "compaction"}
      last == CHOOSE i \in compacted : \A j \in compacted : j <= i
      kept == {i \in 1 .. last - 1 : path[i].id = path[last].target}
      Kept == IF kept = {} THEN <<>> ELSE SubSeq(path, CHOOSE i \in kept : TRUE, last - 1)
  IN IF compacted = {} THEN Messages(path)
     ELSE <<path[last]>> \o Messages(Kept) \o Messages(SubSeq(path, last + 1, Len(path)))

\* the entries with a label: the last entry about them sets it
Labelled(es) ==
  LET changes == {i \in DOMAIN es : es[i].kind \in {"label", "unlabel"}}
  IN {id \in 1 .. MaxEntries :
        \E i \in changes : /\ es[i].target = id /\ es[i].kind = "label"
                           /\ \A j \in changes : es[j].target = id => j <= i}

\* the last entry
LeafOf(es) ==
  LET own == {i \in DOMAIN es : IsEntry(es[i])} IN IF own = {} THEN 0 ELSE es[Max(own)].id

\* loadEntriesFromFile: a broken line is skipped
Load(lines) ==
  LET good == Only(lines, Kinds \cup {"session"})
  IN IF good # <<>> /\ good[1].kind = "session" THEN good ELSE <<>>

(***************************************************************************)
(* Writing.                                                                *)
(***************************************************************************)
Open == file # 0
Idle == writing = <<>>

\* what a file holds once lines are added: the first one continues half a line
Added(lines, more) ==
  IF more # <<>> /\ lines # <<>> /\ Last(lines) = Torn THEN Front(lines) \o <<Spoilt>> \o Tail(more)
  ELSE lines \o more

Write ==
  /\ ~Idle
  /\ disk' = [disk EXCEPT ![file] = Added(@, writing)]
  /\ writing' = <<>>
  /\ UNCHANGED <<file, entries, leaf, flushed, labels, used, crashes>>

\* The process ends: while it writes, some lines are in the file and perhaps half the next.
Crash ==
  /\ Open
  /\ crashes < MaxCrashes /\ crashes' = crashes + 1
  /\ \E n \in 0 .. Len(writing), torn \in {<<>>, <<Torn>>} :
       /\ torn # <<>> => n < Len(writing)
       /\ disk' = [disk EXCEPT ![file] = Added(@, SubSeq(writing, 1, n) \o torn)]
  /\ file' = 0
  /\ entries' = <<>>
  /\ leaf' = 0
  /\ flushed' = FALSE
  /\ labels' = {}
  /\ writing' = <<>>
  /\ UNCHANGED used

\* (mutant) the first answer alone is written
PersistLast(es) ==
  /\ flushed' = HasAssistant(es)
  /\ writing' = IF HasAssistant(es) THEN <<Last(es)>> ELSE <<>>

Persist(es) ==
  /\ flushed' = HasAssistant(es)
  /\ writing' = IF ~HasAssistant(es) THEN <<>> ELSE IF flushed THEN <<Last(es)>> ELSE es

\* (mutant) the session of a fork counts as written before it is
RewriteClaimed(es) ==
  /\ flushed' = TRUE
  /\ writing' = IF HasAssistant(es) THEN es ELSE <<>>

\* _rewriteFile, for a fork
Rewrite(es) ==
  /\ flushed' = HasAssistant(es)
  /\ writing' = IF HasAssistant(es) THEN es ELSE <<>>

(***************************************************************************)
(* Operations on the session that is open.                                 *)
(***************************************************************************)
\* _appendEntry, below the given parent
AppendEntry(kind, parent, target) ==
  LET e == [id |-> used.entry + 1, parent |-> parent, kind |-> kind, target |-> target] IN
  /\ Open /\ Idle
  /\ used.entry < MaxEntries /\ used' = [used EXCEPT !.entry = @ + 1]
  /\ entries' = Append(entries, e)
  /\ leaf' = e.id
  /\ Persist(Append(entries, e))
  /\ UNCHANGED <<disk, file, crashes>>

AppendMessage(kind) == AppendEntry(kind, leaf, 0) /\ UNCHANGED labels

\* The entries from target on are kept; what precedes the first message that is kept
\* and is no message itself is kept with it.
AppendCompaction(target) ==
  /\ AppendEntry("compaction", leaf, target)
  /\ target \in Ids(PathTo(entries, leaf))
  /\ UNCHANGED labels

\* a label is set, or taken back
AppendLabelChange(target) ==
  /\ \/ /\ AppendEntry("label", leaf, target)
        /\ target \notin labels /\ labels' = labels \cup {target}
     \/ /\ AppendEntry("unlabel", leaf, target)
        /\ target \in labels /\ labels' = labels \ {target}
  /\ target \in Ids(entries)

Branch(id) ==
  /\ Open /\ Idle
  /\ id # leaf
  /\ id \in Ids(entries) \cup {0}
  /\ leaf' = id
  /\ UNCHANGED <<disk, file, entries, flushed, labels, writing, used, crashes>>

BranchWithSummary(id) ==
  /\ id # leaf
  /\ AppendEntry("summary", id, 0)
  /\ id \in Ids(entries) \cup {0}
  /\ UNCHANGED labels

(***************************************************************************)
(* Opening sessions.                                                       *)
(***************************************************************************)
NewFile == used.file < MaxFiles /\ used' = [used EXCEPT !.file = @ + 1]

\* (mutant) the leaf of the last session stays
NewSessionKeepsLeaf ==
  /\ Idle /\ NewFile
  /\ file' = used.file + 1
  /\ entries' = <<Header(used.file + 1)>>
  /\ flushed' = FALSE
  /\ labels' = {}
  /\ UNCHANGED <<leaf, disk, writing, crashes>>

NewSession ==
  /\ Idle /\ NewFile
  /\ file' = used.file + 1
  /\ entries' = <<Header(used.file + 1)>>
  /\ leaf' = 0
  /\ flushed' = FALSE
  /\ labels' = {}
  /\ UNCHANGED <<disk, writing, crashes>>

\* setSessionFile: a file without a header is truncated and begun anew, at once; one that
\* is not there (an empty one counts as that) is begun with the first answer.
SetSessionFile(f) ==
  LET loaded == Load(disk[f])
      begun == <<Header(f)>>
  IN
  /\ Idle /\ f # file /\ f <= used.file
  /\ file' = f
  /\ entries' = IF loaded = <<>> THEN begun ELSE loaded
  /\ leaf' = LeafOf(loaded)
  /\ labels' = Labelled(loaded)
  /\ \/ loaded # <<>> /\ flushed' = TRUE /\ UNCHANGED <<disk, writing>>
     \/ /\ loaded = <<>> /\ disk[f] # <<>> /\ flushed' = TRUE
        /\ disk' = [disk EXCEPT ![f] = <<>>] /\ writing' = begun
     \/ disk[f] = <<>> /\ flushed' = FALSE /\ UNCHANGED <<disk, writing>>
  /\ UNCHANGED <<used, crashes>>

\* (mutant) the labels are not written again
LabelEntriesNone(targets, below) == <<>>

\* the entries for the labels of a fork, one below the other (their order in the Map
\* does not matter)
LabelEntries(targets, below) ==
  LET order == SetToSeq(targets)
  IN [i \in DOMAIN order |->
        [id |-> used.entry + i, parent |-> IF i = 1 THEN below ELSE used.entry + i - 1,
         kind |-> "label", target |-> order[i]]]

Unlabelled(path) == Only(path, Kinds \ {"label", "unlabel"})
RefersWithin(path) ==
  LET ids == Ids(path)
  IN \A e \in ToSet(path) : e.parent \in ids \cup {0} /\ (e.kind = "compaction" => e.target \in ids)

\* createBranchedSession
Fork(id) ==
  LET path == Unlabelled(PathTo(entries, id))
      below == IF path = <<>> THEN 0 ELSE Last(path).id
      added == LabelEntries(labels \cap Ids(path), below)
      all == <<Header(used.file + 1)>> \o path \o added
  IN /\ Open /\ Idle
     /\ used.file < MaxFiles
     /\ file' = used.file + 1
     /\ id \in Ids(entries)
     /\ RefersWithin(path) \/ ForkPastGaps
     /\ used.entry + Len(added) <= MaxEntries
     /\ used' = [entry |-> used.entry + Len(added), file |-> used.file + 1]
     /\ entries' = all
     /\ leaf' = LeafOf(all)
     /\ labels' = Labelled(all)
     /\ Rewrite(all)
     /\ UNCHANGED <<disk, crashes>>

Next ==
  \/ Write \/ Crash
  \/ \E kind \in {"user", "assistant"} : AppendMessage(kind)
  \/ \E id \in Ids(entries) : AppendCompaction(id) \/ AppendLabelChange(id) \/ Fork(id)
  \/ \E id \in Ids(entries) \cup {0} : Branch(id) \/ BranchWithSummary(id)
  \/ NewSession
  \/ \E f \in Files : SetSessionFile(f)

Spec == Init /\ [][Next]_vars

(***************************************************************************)
(* Properties.                                                             *)
(***************************************************************************)
\* The process ended within a line: the half that is there swallows the next line.
Damaged(f) == ToSet(disk[f]) \cap {Torn, Spoilt} # {}
Settled == Open /\ Idle /\ HasAssistant(entries) /\ ~Damaged(file)

\* From the first answer on the file holds what is in memory, whatever was navigated,
\* forked, opened again or interrupted before.
FileFollows == Settled => ToSet(Load(disk[file])) = ToSet(entries)

\* A session that is left where it was last written to is found as it was left: the
\* same messages for the model and the same labels.
ReopenRestores ==
  Settled /\ leaf = LeafOf(entries) =>
    LET loaded == Load(disk[file])
    IN /\ ContextOf(PathTo(loaded, LeafOf(loaded))) = ContextOf(PathTo(entries, leaf))
       /\ Labelled(loaded) = labels

\* No entry of any file has lost its parent, even if the process ended while writing.
TreesAreWhole ==
  \A f \in Files : ~Damaged(f) =>
    LET loaded == Load(disk[f]) ids == Ids(loaded) IN \A e \in ToSet(loaded) : e.parent \in ids \cup {0}

\* A fork at an entry has the messages and the labels that the session had up to it.
ForkKeepsPath ==
  [][\A id \in 1 .. MaxEntries : Fork(id) =>
       /\ ContextOf(PathTo(entries', leaf')) = ContextOf(PathTo(entries, id))
       /\ labels' = labels \cap Ids(Unlabelled(PathTo(entries, id)))]_vars
===============================================================================
