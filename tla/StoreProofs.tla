---------------------------- MODULE StoreProofs -----------------------------
(***************************************************************************)
(* For any uploads, domains, roots and any mixture of operations, with     *)
(* crashes, failing saves and failing copies at every step: the state is   *)
(* well typed and no id of a saved upload names two captures; and as long  *)
(* as the roots can be reached, saved uploads are kept, sessions           *)
(* are self-contained, and the store is the library its users see.         *)
(***************************************************************************)
EXTENDS Store, TLAPS

Making == {"capture", "sidecar", "discard", "register"}

(* What addPcap and addSession have in hand, under the next id. *)
PcapInHand ==
    /\ op.at = "write" => \E p \in Pcaps : op.pcaps = {p} /\ p.id = mem.nextPcap
    /\ op.at = "added" => op.pcaps \subseteq mem.pcaps

SessionInHand ==
    op.at \in Making =>
      \E s \in Sessions : op.sessions = {s} /\ s.id = mem.nextSession

TypeInv == TypeOK /\ PcapInHand /\ SessionInHand

(* The entries in memory, on disk, and saved before have ids of their      *)
(* own, below the next one; those that survive, below the next one on disk. *)
IdsOK(inMem, inDisk, past, memNext, diskNext) ==
    /\ \A e \in inMem \cup inDisk \cup past : e.id < memNext
    /\ \A e \in inDisk \cup past : e.id < diskNext
    /\ \A e, f \in inMem \cup inDisk \cup past : e.id = f.id => e = f

PcapIds == IdsOK(mem.pcaps, disk.pcaps, saved, mem.nextPcap, disk.nextPcap)
SessionIds == IdsOK(mem.sessions, disk.sessions, {}, mem.nextSession, disk.nextSession)

(* The files that the operation will change are not those of kept uploads. *)
Apart == \A p \in op.pcaps, q \in kept : p.id # q.id

Touching == \/ op.at \in {"write", "added", "erased", "purge"}
            \/ op.at = "unlink" /\ op.root = mem.root

FilesTrue == \A p \in mem.pcaps \cup disk.pcaps :
               file[At(mem.root, p)] \in {NoFile, p.upload}

Copying == op.at = "copy" =>
             /\ op.root # mem.root /\ op.pcaps \subseteq mem.pcaps
             /\ \A p \in mem.pcaps \ op.pcaps :
                  file[At(op.root, p)] = file[At(mem.root, p)]

ApartInv == Touching => Apart

Kept == \A p \in kept : /\ p \in mem.pcaps /\ p \in disk.pcaps
                         /\ file[At(mem.root, p)] = p.upload

Added == op.at = "added" => \A p \in op.pcaps : file[At(mem.root, p)] = p.upload

Purging == op.at = "purge" => \A q \in kept : q.dom # op.dom

RootsAgree == mem.root = disk.root

LibraryInv == /\ RootsAgree /\ FilesTrue /\ Kept
              /\ ApartInv /\ Added /\ Purging /\ Copying

(* A session folder holds what the session is made of. *)
Whole(s) == /\ folder[s.id].capture = s.sources
            /\ Combined(s) => folder[s.id].sidecar = s.sources

MakingOK ==
    /\ op.at = "capture" =>
         /\ op.pcaps \subseteq mem.pcaps
         /\ \A s \in op.sessions : s.sources = {p.upload : p \in op.pcaps}
    /\ op.at = "sidecar" => \A s \in op.sessions : folder[s.id].capture = s.sources
    /\ op.at = "register" => \A s \in op.sessions : Whole(s)

SessionsInv ==
    /\ \A s \in mem.sessions \cup disk.sessions : s.name \notin dropped => Whole(s)
    /\ MakingOK
    /\ op.at \in {"wipe", "purge"} =>
         \A t \in op.sessions, s \in mem.sessions \cup disk.sessions :
           s.id = t.id => s.name \in dropped
-----------------------------------------------------------------------------
Operation == [at : Steps, pcaps : SUBSET Pcaps, copied : SUBSET Pcaps,
              sessions : SUBSET Sessions, root : Roots, dom : Domains]
Folders == [Ids -> [capture : SUBSET Contents, sidecar : SUBSET Contents]]
Library == [Paths -> Contents]

(* What an operation that only removes files is. *)
LEMMA UnlinkingTyped ==
    ASSUME NEW pcaps \in SUBSET Pcaps, NEW root \in Roots
    PROVE  /\ Unlinking(pcaps, root) \in Operation
           /\ Unlinking(pcaps, root).at \in {"idle", "unlink"}
           /\ Unlinking(pcaps, root).at = "unlink" =>
                Unlinking(pcaps, root).pcaps = pcaps /\ Unlinking(pcaps, root).root = root
  BY StoreAssumption DEF Unlinking, Idle, Operation, Steps

(* No operation in progress is one, too. *)
LEMMA IdleTyped == Idle \in Operation /\ Idle.at = "idle"
  BY StoreAssumption DEF Idle, Operation, Steps

(* The names of the steps. *)
LEMMA StepNames ==
    /\ "idle" \in Steps /\ "write" \in Steps /\ "added" \in Steps
    /\ "erased" \in Steps /\ "unlink" \in Steps /\ "copy" \in Steps
    /\ "capture" \in Steps /\ "sidecar" \in Steps /\ "discard" \in Steps
    /\ "register" \in Steps /\ "wipe" \in Steps /\ "purge" \in Steps
    /\ "publish" \in Steps
  BY DEF Steps

(* A capture has a path below every root. *)
LEMMA PathTyped ==
    ASSUME NEW root \in Roots, NEW p \in Pcaps
    PROVE  At(root, p) \in Paths
  BY DEF At, Paths, Pcaps

(* Every step keeps the state well typed, and the entries in hand under   *)
(* the next ids.                                                           *)
LEMMA TypeStep == TypeInv /\ [Next]_vars => TypeInv'
<1>. SUFFICES ASSUME TypeInv, [Next]_vars PROVE TypeInv'
  OBVIOUS
<1>. USE StoreAssumption, IdleTyped
<1>a. /\ workload \in Workloads /\ mounted \in BOOLEAN
      /\ mem \in Metadata /\ disk \in Metadata
      /\ file \in Library /\ folder \in Folders /\ op \in Operation
      /\ saved \subseteq Pcaps /\ kept \subseteq saved
      /\ due \subseteq saved /\ acked \subseteq saved /\ removed \subseteq Pcaps
      /\ dropped \subseteq Investigations
  BY DEF TypeInv, TypeOK, Operation, Library, Folders
<1>b. /\ workload.domains \subseteq Domains
      /\ mem.pcaps \subseteq Pcaps /\ mem.sessions \subseteq Sessions
      /\ mem.root \in Roots /\ mem.domains \subseteq Domains
      /\ op.pcaps \subseteq Pcaps /\ op.copied \subseteq Pcaps
      /\ op.sessions \subseteq Sessions /\ op.root \in Roots
  BY <1>a DEF Metadata, Operation
<1>1. ASSUME NEW u \in Uploads, NEW d \in Domains, AddPcap(u, d), UNCHANGED workload
      PROVE  TypeInv'
  <2>. DEFINE p == [id |-> mem.nextPcap, upload |-> u, dom |-> d]
  <2>1. p \in Pcaps /\ p.id = mem.nextPcap
    BY <1>1 DEF AddPcap, Pcaps
  <2>2. file' \in Library
    BY <1>a, <1>b, <1>1, PathTyped DEF AddPcap, Library, Contents, Pcaps
  <2>3. op' \in Operation
    <3>1. op' = [Idle EXCEPT !.at = "write", !.pcaps = {p}]
      BY <1>1 DEF AddPcap
    <3>. HIDE DEF p
    <3>. QED
      BY <2>1, <3>1, StepNames DEF Operation
  <2>4. PcapInHand'
    <3>1. op'.at = "write" /\ op'.pcaps = {p}
      BY <1>1 DEF AddPcap, Idle
    <3>2. mem'.nextPcap = p.id
      BY <1>1, <2>1 DEF AddPcap
    <3>. HIDE DEF p
    <3>. QED
      BY <2>1, <3>1, <3>2 DEF PcapInHand
  <2>5. SessionInHand'
    BY <1>a, <1>b, <1>1, UnlinkingTyped DEF AddPcap, SessionInHand, Making, TypeInv, Operation, history, answers
  <2>. QED
    BY <1>a, <1>1, <2>2, <2>3, <2>4, <2>5 DEF AddPcap, TypeInv, TypeOK, Library, Folders, Operation, history, answers
<1>2. ASSUME WritePcap, UNCHANGED workload PROVE TypeInv'
  <2>1. mem' \in Metadata
    <3>1. PICK p \in op.pcaps : mem' = [mem EXCEPT !.nextPcap = @ + 1, !.pcaps = @ \cup {p}]
      BY <1>2 DEF WritePcap
    <3>2. p \in Pcaps /\ mem.nextPcap = p.id
      BY <1>b, <1>2 DEF WritePcap, TypeInv, PcapInHand
    <3>3. mem.nextPcap + 1 \in 1 .. MaxId + 1
      BY <3>2 DEF Pcaps, Ids
    <3>. QED
      BY <1>a, <1>b, <3>1, <3>2, <3>3 DEF Metadata
  <2>2. file' \in Library
    BY <1>a, <1>b, <1>2, PathTyped DEF WritePcap, Library, Contents, Pcaps
  <2>3. op' \in Operation
    BY <1>a, <1>b, <1>2, StepNames DEF WritePcap, Operation, Idle
  <2>4. PcapInHand'
    BY <1>a, <1>b, <1>2, UnlinkingTyped DEF WritePcap, PcapInHand, TypeInv, Operation, history, answers
  <2>5. SessionInHand'
    BY <1>a, <1>b, <1>2, UnlinkingTyped DEF WritePcap, SessionInHand, Making, TypeInv, Operation, history, answers
  <2>. QED
    BY <1>a, <1>2, <2>1, <2>2, <2>3, <2>4, <2>5 DEF WritePcap, TypeInv, TypeOK, Library, Folders, Operation, history, answers
<1>3. ASSUME ShortWrite, UNCHANGED workload PROVE TypeInv'
  <2>1. op' \in Operation
    BY <1>a, <1>b, <1>3, StepNames DEF ShortWrite, Operation, Idle
  <2>2. PcapInHand'
    BY <1>a, <1>b, <1>3, UnlinkingTyped DEF ShortWrite, PcapInHand, TypeInv, Operation, history, answers
  <2>3. SessionInHand'
    BY <1>a, <1>b, <1>3, UnlinkingTyped DEF ShortWrite, SessionInHand, Making, TypeInv, Operation, history, answers
  <2>. QED
    BY <1>a, <1>3, <2>1, <2>2, <2>3 DEF ShortWrite, TypeInv, TypeOK, Library, Folders, Operation, history, answers
<1>4. ASSUME SavePcap, UNCHANGED workload PROVE TypeInv'
  <2>1. disk' \in Metadata
    BY <1>a, <1>4 DEF SavePcap, Save, TrySave
  <2>2. op' \in Operation
    BY <1>a, <1>b, <1>4, StepNames DEF SavePcap, Operation, Idle
  <2>3. saved' \subseteq Pcaps /\ kept' \subseteq saved' /\ dropped' \subseteq Investigations
    BY <1>a, <1>b, <1>4 DEF SavePcap, history, Sessions, TypeInv, PcapInHand
  <2>4. PcapInHand'
    BY <1>a, <1>b, <1>4, UnlinkingTyped DEF SavePcap, PcapInHand, TypeInv, Operation, history, answers
  <2>5. SessionInHand'
    BY <1>a, <1>b, <1>4, UnlinkingTyped DEF SavePcap, SessionInHand, Making, TypeInv, Operation, history, answers
  <2>. QED
    BY <1>a, <1>4, <2>1, <2>2, <2>3, <2>4, <2>5 DEF SavePcap, TypeInv, TypeOK, Library, Folders, Operation, history, answers
<1>5. ASSUME SavePcapFails, UNCHANGED workload PROVE TypeInv'
  <2>1. mem' \in Metadata
    BY <1>a, <1>b, <1>5 DEF SavePcapFails, Metadata, TypeInv, PcapInHand, SessionInHand, Making, Ids, Pcaps, Sessions
  <2>2. file' \in Library
    BY <1>a, <1>b, <1>5, PathTyped DEF SavePcapFails, Library, Contents, Pcaps
  <2>3. op' \in Operation
    BY <1>a, <1>b, <1>5, StepNames DEF SavePcapFails, Operation, Idle
  <2>4. PcapInHand'
    BY <1>a, <1>b, <1>5, UnlinkingTyped DEF SavePcapFails, PcapInHand, TypeInv, Operation, history, answers
  <2>5. SessionInHand'
    BY <1>a, <1>b, <1>5, UnlinkingTyped DEF SavePcapFails, SessionInHand, Making, TypeInv, Operation, history, answers
  <2>. QED
    BY <1>a, <1>5, <2>1, <2>2, <2>3, <2>4, <2>5 DEF SavePcapFails, TypeInv, TypeOK, Library, Folders, Operation, history, answers
<1>6. ASSUME NEW p \in mem.pcaps, RemovePcap(p), UNCHANGED workload
      PROVE  TypeInv'
  <2>1. mem' \in Metadata
    BY <1>a, <1>b, <1>6 DEF RemovePcap, Metadata, TypeInv, PcapInHand, SessionInHand, Making, Ids, Pcaps, Sessions
  <2>2. op' \in Operation
    BY <1>a, <1>b, <1>6, StepNames DEF RemovePcap, Operation, Idle
  <2>3. saved' \subseteq Pcaps /\ kept' \subseteq saved' /\ dropped' \subseteq Investigations
    BY <1>a, <1>b, <1>6 DEF RemovePcap, history, Sessions, TypeInv, PcapInHand
  <2>4. PcapInHand'
    BY <1>a, <1>b, <1>6, UnlinkingTyped DEF RemovePcap, PcapInHand, TypeInv, Operation, history, answers
  <2>5. SessionInHand'
    BY <1>a, <1>b, <1>6, UnlinkingTyped DEF RemovePcap, SessionInHand, Making, TypeInv, Operation, history, answers
  <2>. QED
    BY <1>a, <1>6, <2>1, <2>2, <2>3, <2>4, <2>5 DEF RemovePcap, TypeInv, TypeOK, Library, Folders, Operation, history, answers
<1>7. ASSUME SaveRemoval, UNCHANGED workload PROVE TypeInv'
  <2>1. disk' \in Metadata
    BY <1>a, <1>7 DEF SaveRemoval, Save, TrySave
  <2>2. op' \in Operation
    BY <1>a, <1>b, <1>7, UnlinkingTyped DEF SaveRemoval
  <2>3. PcapInHand'
    <3>1. op'.at \in {"idle", "unlink"}
      BY <1>b, <1>7, UnlinkingTyped DEF SaveRemoval
    <3>. QED
      BY <3>1 DEF PcapInHand
  <2>4. SessionInHand'
    <3>1. op'.at \in {"idle", "unlink"}
      BY <1>b, <1>7, UnlinkingTyped DEF SaveRemoval
    <3>. QED
      BY <3>1 DEF SessionInHand, Making
  <2>. QED
    BY <1>a, <1>7, <2>1, <2>2, <2>3, <2>4 DEF SaveRemoval, TypeInv, TypeOK, Library, Folders, Operation, history, answers
<1>8. ASSUME Unlink, UNCHANGED workload PROVE TypeInv'
  <2>1. file' \in Library
    <3>1. PICK p \in op.pcaps : file' = [file EXCEPT ![At(op.root, p)] = NoFile]
      BY <1>8, ZenonT(30) DEF Unlink
    <3>2. p \in Pcaps
      BY <1>b, <3>1
    <3>3. At(op.root, p) \in Paths
      BY <1>b, <3>2, PathTyped
    <3>4. file \in [Paths -> Contents] /\ NoFile \in Contents
      BY <1>a DEF Library, Contents
    <3>. QED
      BY <3>1, <3>3, <3>4 DEF Library
  <2>2. op' \in Operation
    BY <1>a, <1>b, <1>8, UnlinkingTyped DEF Unlink
  <2>3. PcapInHand'
    BY <1>b, <1>8, UnlinkingTyped DEF Unlink, PcapInHand
  <2>4. SessionInHand'
    BY <1>b, <1>8, UnlinkingTyped DEF Unlink, SessionInHand, Making
  <2>. QED
    BY <1>a, <1>8, <2>1, <2>2, <2>3, <2>4 DEF Unlink, TypeInv, TypeOK, Library, Folders, Operation, history, answers
<1>9. ASSUME NEW next \in Roots, SetPcapRoot(next), UNCHANGED workload
      PROVE  TypeInv'
  <2>1. op' \in Operation
    BY <1>a, <1>b, <1>9, StepNames DEF SetPcapRoot, Operation, Idle
  <2>2. PcapInHand'
    BY <1>a, <1>b, <1>9, UnlinkingTyped DEF SetPcapRoot, PcapInHand, TypeInv, Operation, history, answers
  <2>3. SessionInHand'
    BY <1>a, <1>b, <1>9, UnlinkingTyped DEF SetPcapRoot, SessionInHand, Making, TypeInv, Operation, history, answers
  <2>. QED
    BY <1>a, <1>9, <2>1, <2>2, <2>3 DEF SetPcapRoot, TypeInv, TypeOK, Library, Folders, Operation, history, answers
<1>10. ASSUME CopyPcap, UNCHANGED workload PROVE TypeInv'
  <2>1. file' \in Library
    BY <1>a, <1>b, <1>10, PathTyped DEF CopyPcap, Library, Contents, Pcaps
  <2>2. op' \in Operation
    <3>1. PICK p \in op.pcaps : op' = [op EXCEPT !.pcaps = @ \ {p}, !.copied = @ \cup {p}]
      BY <1>10 DEF CopyPcap
    <3>. QED
      BY <1>a, <1>b, <3>1 DEF Operation
  <2>3. PcapInHand'
    BY <1>a, <1>b, <1>10, UnlinkingTyped DEF CopyPcap, PcapInHand, TypeInv, Operation, history, answers
  <2>4. SessionInHand'
    BY <1>a, <1>b, <1>10, UnlinkingTyped DEF CopyPcap, SessionInHand, Making, TypeInv, Operation, history, answers
  <2>. QED
    BY <1>a, <1>10, <2>1, <2>2, <2>3, <2>4 DEF CopyPcap, TypeInv, TypeOK, Library, Folders, Operation, history, answers
<1>11. ASSUME CopyFails, UNCHANGED workload PROVE TypeInv'
  <2>1. file' \in Library
    BY <1>a, <1>b, <1>11, PathTyped DEF CopyFails, Library, Contents, Pcaps
  <2>2. op' \in Operation
    BY <1>a, <1>b, <1>11, UnlinkingTyped DEF CopyFails
  <2>3. PcapInHand'
    BY <1>a, <1>b, <1>11, UnlinkingTyped DEF CopyFails, PcapInHand, TypeInv, Operation, history, answers
  <2>4. SessionInHand'
    BY <1>a, <1>b, <1>11, UnlinkingTyped DEF CopyFails, SessionInHand, Making, TypeInv, Operation, history, answers
  <2>. QED
    BY <1>a, <1>11, <2>1, <2>2, <2>3, <2>4 DEF CopyFails, TypeInv, TypeOK, Library, Folders, Operation, history, answers
<1>12. ASSUME SaveRoot, UNCHANGED workload PROVE TypeInv'
  <2>1. mem' \in Metadata
    BY <1>a, <1>b, <1>12 DEF SaveRoot, Metadata, TypeInv, PcapInHand, SessionInHand, Making, Ids, Pcaps, Sessions
  <2>2. disk' \in Metadata
    BY <1>a, <1>12, <2>1 DEF SaveRoot, Save, TrySave
  <2>3. op' \in Operation
    BY <1>a, <1>b, <1>12, UnlinkingTyped DEF SaveRoot
  <2>4. PcapInHand'
    <3>1. op'.at \in {"idle", "unlink"}
      BY <1>b, <1>12, UnlinkingTyped DEF SaveRoot
    <3>. QED
      BY <3>1 DEF PcapInHand
  <2>5. SessionInHand'
    <3>1. op'.at \in {"idle", "unlink"}
      BY <1>b, <1>12, UnlinkingTyped DEF SaveRoot
    <3>. QED
      BY <3>1 DEF SessionInHand, Making
  <2>. QED
    BY <1>a, <1>12, <2>1, <2>2, <2>3, <2>4, <2>5 DEF SaveRoot, TypeInv, TypeOK, Library, Folders, Operation, history, answers
<1>13. ASSUME NEW w \in Investigations, NEW pcaps \in SUBSET mem.pcaps, NEW d \in Domains,
             AddSession(w, pcaps, d), UNCHANGED workload
      PROVE  TypeInv'
  <2>. DEFINE s == [id |-> mem.nextSession, name |-> w, dom |-> d,
                    sources |-> {p.upload : p \in pcaps}]
  <2>1. s \in Sessions /\ s.id = mem.nextSession
    <3>1. {p.upload : p \in pcaps} \in SUBSET Uploads
      BY <1>b DEF Pcaps
    <3>2. mem.nextSession \in Ids
      BY <1>13 DEF AddSession
    <3>. QED
      BY <3>1, <3>2 DEF Sessions
  <2>2. op' \in Operation
    <3>1. op' = [Idle EXCEPT !.at = "capture", !.pcaps = pcaps, !.sessions = {s}]
      BY <1>13 DEF AddSession
    <3>. HIDE DEF s
    <3>. QED
      BY <1>b, <2>1, <3>1, StepNames DEF Operation
  <2>3. PcapInHand'
    BY <1>a, <1>b, <1>13, UnlinkingTyped DEF AddSession, PcapInHand, TypeInv, Operation, history, answers
  <2>4. SessionInHand'
    <3>1. op'.at = "capture" /\ op'.sessions = {s}
      BY <1>13 DEF AddSession, Idle
    <3>2. mem'.nextSession = s.id
      BY <1>13, <2>1 DEF AddSession
    <3>. HIDE DEF s
    <3>. QED
      BY <2>1, <3>1, <3>2 DEF SessionInHand
  <2>. QED
    BY <1>a, <1>13, <2>2, <2>3, <2>4 DEF AddSession, TypeInv, TypeOK, Library, Folders, Operation, history, answers
<1>14. ASSUME CopyCapture, UNCHANGED workload PROVE TypeInv'
  <2>1. folder' \in Folders
    BY <1>a, <1>b, <1>14, PathTyped DEF CopyCapture, Folders, Library, Contents, Sessions, Wipe, Empty
  <2>2. op' \in Operation
    BY <1>a, <1>b, <1>14, StepNames DEF CopyCapture, Operation, Idle
  <2>3. PcapInHand'
    BY <1>a, <1>b, <1>14, UnlinkingTyped DEF CopyCapture, PcapInHand, TypeInv, Operation, history, answers
  <2>4. SessionInHand'
    BY <1>a, <1>b, <1>14, UnlinkingTyped DEF CopyCapture, SessionInHand, Making, TypeInv, Operation, history, answers
  <2>. QED
    BY <1>a, <1>14, <2>1, <2>2, <2>3, <2>4 DEF CopyCapture, TypeInv, TypeOK, Library, Folders, Operation, history, answers
<1>15. ASSUME WriteSidecar, UNCHANGED workload PROVE TypeInv'
  <2>1. folder' \in Folders
    BY <1>a, <1>b, <1>15, PathTyped DEF WriteSidecar, Folders, Library, Contents, Sessions, Wipe, Empty
  <2>2. op' \in Operation
    BY <1>a, <1>b, <1>15, StepNames DEF WriteSidecar, Operation, Idle
  <2>3. PcapInHand'
    BY <1>a, <1>b, <1>15, UnlinkingTyped DEF WriteSidecar, PcapInHand, TypeInv, Operation, history, answers
  <2>4. SessionInHand'
    BY <1>a, <1>b, <1>15, UnlinkingTyped DEF WriteSidecar, SessionInHand, Making, TypeInv, Operation, history, answers
  <2>. QED
    BY <1>a, <1>15, <2>1, <2>2, <2>3, <2>4 DEF WriteSidecar, TypeInv, TypeOK, Library, Folders, Operation, history, answers
<1>16. ASSUME Discard, UNCHANGED workload PROVE TypeInv'
  <2>1. folder' \in Folders
    BY <1>a, <1>b, <1>16, PathTyped DEF Discard, Folders, Library, Contents, Sessions, Wipe, Empty
  <2>2. op' \in Operation
    BY <1>a, <1>b, <1>16, StepNames DEF Discard, Operation, Idle
  <2>3. PcapInHand'
    BY <1>a, <1>b, <1>16, UnlinkingTyped DEF Discard, PcapInHand, TypeInv, Operation, history, answers
  <2>4. SessionInHand'
    BY <1>a, <1>b, <1>16, UnlinkingTyped DEF Discard, SessionInHand, Making, TypeInv, Operation, history, answers
  <2>. QED
    BY <1>a, <1>16, <2>1, <2>2, <2>3, <2>4 DEF Discard, TypeInv, TypeOK, Library, Folders, Operation, history, answers
<1>17. ASSUME Register, UNCHANGED workload PROVE TypeInv'
  <2>1. mem' \in Metadata
    <3>1. PICK s \in Sessions : op.sessions = {s} /\ s.id = mem.nextSession
      BY <1>17 DEF Register, TypeInv, SessionInHand, Making
    <3>2. mem.nextSession + 1 \in 1 .. MaxId + 1
      BY <3>1 DEF Sessions, Ids
    <3>3. mem' = [mem EXCEPT !.nextSession = @ + 1, !.sessions = @ \cup op.sessions]
      BY <1>17 DEF Register
    <3>. QED
      BY <1>a, <1>b, <3>2, <3>3 DEF Metadata
  <2>2. disk' \in Metadata
    BY <1>a, <1>17, <2>1 DEF Register, Save, TrySave
  <2>3. op' \in Operation
    BY <1>a, <1>b, <1>17, StepNames DEF Register, Operation, Idle
  <2>4. PcapInHand'
    BY <1>a, <1>b, <1>17, UnlinkingTyped DEF Register, PcapInHand, TypeInv, Operation, history, answers
  <2>5. SessionInHand'
    BY <1>a, <1>b, <1>17, UnlinkingTyped DEF Register, SessionInHand, Making, TypeInv, Operation, history, answers
  <2>. QED
    BY <1>a, <1>17, <2>1, <2>2, <2>3, <2>4, <2>5 DEF Register, TypeInv, TypeOK, Library, Folders, Operation, history, answers
<1>18. ASSUME NEW s \in mem.sessions, RemoveSession(s), UNCHANGED workload
      PROVE  TypeInv'
  <2>1. mem' \in Metadata
    BY <1>a, <1>b, <1>18 DEF RemoveSession, Metadata, TypeInv, PcapInHand, SessionInHand, Making, Ids, Pcaps, Sessions
  <2>2. op' \in Operation
    BY <1>a, <1>b, <1>18, StepNames DEF RemoveSession, Operation, Idle
  <2>3. saved' \subseteq Pcaps /\ kept' \subseteq saved' /\ dropped' \subseteq Investigations
    BY <1>a, <1>b, <1>18 DEF RemoveSession, history, Sessions, TypeInv, PcapInHand
  <2>4. PcapInHand'
    BY <1>a, <1>b, <1>18, UnlinkingTyped DEF RemoveSession, PcapInHand, TypeInv, Operation, history, answers
  <2>5. SessionInHand'
    BY <1>a, <1>b, <1>18, UnlinkingTyped DEF RemoveSession, SessionInHand, Making, TypeInv, Operation, history, answers
  <2>. QED
    BY <1>a, <1>18, <2>1, <2>2, <2>3, <2>4, <2>5 DEF RemoveSession, TypeInv, TypeOK, Library, Folders, Operation, history, answers
<1>19. ASSUME NEW d \in mem.domains, NEW force \in BOOLEAN, RemoveDomain(d, force), UNCHANGED workload
      PROVE  TypeInv'
  <2>1. mem' \in Metadata
    BY <1>a, <1>b, <1>19 DEF RemoveDomain, Metadata, TypeInv, PcapInHand, SessionInHand, Making, Ids, Pcaps, Sessions
  <2>2. op' \in Operation
    BY <1>a, <1>b, <1>19, StepNames DEF RemoveDomain, Operation, Idle
  <2>3. saved' \subseteq Pcaps /\ kept' \subseteq saved' /\ dropped' \subseteq Investigations
    BY <1>a, <1>b, <1>19 DEF RemoveDomain, history, Sessions, TypeInv, PcapInHand
  <2>4. PcapInHand'
    BY <1>a, <1>b, <1>19, UnlinkingTyped DEF RemoveDomain, PcapInHand, TypeInv, Operation, history, answers
  <2>5. SessionInHand'
    BY <1>a, <1>b, <1>19, UnlinkingTyped DEF RemoveDomain, SessionInHand, Making, TypeInv, Operation, history, answers
  <2>. QED
    BY <1>a, <1>19, <2>1, <2>2, <2>3, <2>4, <2>5 DEF RemoveDomain, TypeInv, TypeOK, Library, Folders, Operation, history, answers
<1>20. ASSUME PurgePcap, UNCHANGED workload PROVE TypeInv'
  <2>1. file' \in Library
    BY <1>a, <1>b, <1>20, PathTyped DEF PurgePcap, Library, Contents, Pcaps
  <2>2. op' \in Operation
    BY <1>a, <1>b, <1>20, StepNames DEF PurgePcap, Operation, Idle
  <2>3. PcapInHand'
    BY <1>a, <1>b, <1>20, UnlinkingTyped DEF PurgePcap, PcapInHand, TypeInv, Operation, history, answers
  <2>4. SessionInHand'
    BY <1>a, <1>b, <1>20, UnlinkingTyped DEF PurgePcap, SessionInHand, Making, TypeInv, Operation, history, answers
  <2>. QED
    BY <1>a, <1>20, <2>1, <2>2, <2>3, <2>4 DEF PurgePcap, TypeInv, TypeOK, Library, Folders, Operation, history, answers
<1>21. ASSUME WipeSession, UNCHANGED workload PROVE TypeInv'
  <2>1. folder' \in Folders
    BY <1>a, <1>b, <1>21, PathTyped DEF WipeSession, Folders, Library, Contents, Sessions, Wipe, Empty
  <2>2. op' \in Operation
    BY <1>a, <1>b, <1>21, StepNames DEF WipeSession, Operation, Idle
  <2>3. PcapInHand'
    BY <1>a, <1>b, <1>21, UnlinkingTyped DEF WipeSession, PcapInHand, TypeInv, Operation, history, answers
  <2>4. SessionInHand'
    BY <1>a, <1>b, <1>21, UnlinkingTyped DEF WipeSession, SessionInHand, Making, TypeInv, Operation, history, answers
  <2>. QED
    BY <1>a, <1>21, <2>1, <2>2, <2>3, <2>4 DEF WipeSession, TypeInv, TypeOK, Library, Folders, Operation, history, answers
<1>22. ASSUME RemoveTree, UNCHANGED workload PROVE TypeInv'
  <2>1. file' \in Library
    BY <1>a, <1>b, <1>22, PathTyped DEF RemoveTree, Library, Contents, Pcaps
  <2>2. op' \in Operation
    BY <1>a, <1>b, <1>22, StepNames DEF RemoveTree, Operation, Idle
  <2>3. PcapInHand'
    BY <1>a, <1>b, <1>22, UnlinkingTyped DEF RemoveTree, PcapInHand, TypeInv, Operation, history, answers
  <2>4. SessionInHand'
    BY <1>a, <1>b, <1>22, UnlinkingTyped DEF RemoveTree, SessionInHand, Making, TypeInv, Operation, history, answers
  <2>. QED
    BY <1>a, <1>22, <2>1, <2>2, <2>3, <2>4 DEF RemoveTree, TypeInv, TypeOK, Library, Folders, Operation, history, answers
<1>23. ASSUME Publish, UNCHANGED workload PROVE TypeInv'
  <2>1. disk' \in Metadata
    BY <1>a, <1>23 DEF Publish, Save, TrySave
  <2>2. op' \in Operation
    BY <1>a, <1>b, <1>23, StepNames DEF Publish, Operation, Idle
  <2>3. PcapInHand'
    BY <1>a, <1>b, <1>23, UnlinkingTyped DEF Publish, PcapInHand, TypeInv, Operation, history, answers
  <2>4. SessionInHand'
    BY <1>a, <1>b, <1>23, UnlinkingTyped DEF Publish, SessionInHand, Making, TypeInv, Operation, history, answers
  <2>. QED
    BY <1>a, <1>23, <2>1, <2>2, <2>3, <2>4 DEF Publish, TypeInv, TypeOK, Library, Folders, Operation, history, answers
<1>24. ASSUME NEW d \in Domains, AddDomain(d), UNCHANGED workload
      PROVE  TypeInv'
  <2>1. mem' \in Metadata
    BY <1>a, <1>b, <1>24 DEF AddDomain, Metadata, TypeInv, PcapInHand, SessionInHand, Making, Ids, Pcaps, Sessions
  <2>2. disk' \in Metadata
    BY <1>a, <1>24, <2>1 DEF AddDomain, Save, TrySave
  <2>3. PcapInHand'
    BY <1>a, <1>b, <1>24, UnlinkingTyped DEF AddDomain, PcapInHand, TypeInv, Operation, history, answers
  <2>4. SessionInHand'
    BY <1>a, <1>b, <1>24, UnlinkingTyped DEF AddDomain, SessionInHand, Making, TypeInv, Operation, history, answers
  <2>. QED
    BY <1>a, <1>24, <2>1, <2>2, <2>3, <2>4 DEF AddDomain, TypeInv, TypeOK, Library, Folders, Operation, history, answers
<1>25. ASSUME EditMeta, UNCHANGED workload PROVE TypeInv'
  <2>1. disk' \in Metadata
    BY <1>a, <1>25 DEF EditMeta, Save, TrySave
  <2>2. PcapInHand'
    BY <1>a, <1>b, <1>25, UnlinkingTyped DEF EditMeta, PcapInHand, TypeInv, Operation, history, answers
  <2>3. SessionInHand'
    BY <1>a, <1>b, <1>25, UnlinkingTyped DEF EditMeta, SessionInHand, Making, TypeInv, Operation, history, answers
  <2>. QED
    BY <1>a, <1>25, <2>1, <2>2, <2>3 DEF EditMeta, TypeInv, TypeOK, Library, Folders, Operation, history, answers
<1>26. ASSUME Restart, UNCHANGED workload PROVE TypeInv'
  <2>1. mem' \in Metadata
    BY <1>a, <1>b, <1>26 DEF Restart, Metadata, TypeInv, PcapInHand, SessionInHand, Making, Ids, Pcaps, Sessions
  <2>2. op' \in Operation
    BY <1>a, <1>b, <1>26, StepNames DEF Restart, Operation, Idle
  <2>3. PcapInHand'
    BY <1>a, <1>b, <1>26, UnlinkingTyped DEF Restart, PcapInHand, TypeInv, Operation, history, answers
  <2>4. SessionInHand'
    BY <1>a, <1>b, <1>26, UnlinkingTyped DEF Restart, SessionInHand, Making, TypeInv, Operation, history, answers
  <2>. QED
    BY <1>a, <1>26, <2>1, <2>2, <2>3, <2>4 DEF Restart, TypeInv, TypeOK, Library, Folders, Operation, history, answers
<1>27. ASSUME UNCHANGED vars PROVE TypeInv'
  BY <1>27 DEF vars, history, answers, TypeInv, TypeOK, PcapInHand, SessionInHand
<1>28. ASSUME NEW p \in due, Answer(p), UNCHANGED workload PROVE TypeInv'
  BY <1>28 DEF Answer, TypeInv, TypeOK, PcapInHand, SessionInHand
<1>. QED
  BY <1>b, <1>1, <1>2, <1>3, <1>4, <1>5, <1>6, <1>7, <1>8, <1>9, <1>10, <1>11, <1>12, <1>13, <1>14, <1>15, <1>16, <1>17, <1>18, <1>19, <1>20, <1>21, <1>22, <1>23, <1>24, <1>25, <1>26, <1>27, <1>28 DEF Next, Start, Step
-----------------------------------------------------------------------------
(***************************************************************************)
(* The ids.                                                                *)
(***************************************************************************)
(* An entry leaves the memory.                                             *)
LEMMA IdsErased ==
    ASSUME NEW M, NEW D, NEW T, NEW m, NEW d, IdsOK(M, D, T, m, d),
           NEW M2 \in SUBSET M
    PROVE  IdsOK(M2, D, T, m, d)
  BY DEF IdsOK

(* What is in memory is saved, and some of it for the first time.          *)
LEMMA IdsSaved ==
    ASSUME NEW M, NEW D, NEW T, NEW m, NEW d, IdsOK(M, D, T, m, d),
           NEW X \in SUBSET M
    PROVE  IdsOK(M, M, T \cup X, m, m)
  BY DEF IdsOK

(* An entry gets the next id.                                              *)
LEMMA IdsAdded ==
    ASSUME NEW M, NEW D, NEW T, NEW m \in Nat, NEW d, IdsOK(M, D, T, m, d),
           \A e \in M \cup D \cup T : e.id \in Nat,
           NEW x, x.id = m
    PROVE  IdsOK(M \cup {x}, D, T, m + 1, d)
<1>1. \A e \in M \cup D \cup T : e.id < m + 1 /\ e.id # x.id
  BY DEF IdsOK
<1>2. x.id < m + 1
  OBVIOUS
<1>. QED
  BY <1>1, <1>2 DEF IdsOK

(* The process comes up with what is on disk.                              *)
LEMMA IdsRestarted ==
    ASSUME NEW M, NEW D, NEW T, NEW m, NEW d, IdsOK(M, D, T, m, d)
    PROVE  IdsOK(D, D, T, d, d)
  BY DEF IdsOK

(* The ids of uploads stay unique, those of saved uploads also after the   *)
(* entries are gone.                                                       *)
LEMMA PcapIdsStep == TypeInv /\ PcapIds /\ [Next]_vars => PcapIds'
<1>. SUFFICES ASSUME TypeInv, PcapIds, [Next]_vars PROVE PcapIds'
  OBVIOUS
<1>. USE DEF PcapIds
<1>a. /\ mem \in Metadata /\ disk \in Metadata
      /\ mem.nextPcap \in Nat
      /\ \A e \in mem.pcaps \cup disk.pcaps \cup saved : e.id \in Nat
  BY StoreAssumption DEF TypeInv, TypeOK, Metadata, Pcaps, Sessions, Ids
<1>b. workload.domains \subseteq Domains
  BY StoreAssumption DEF TypeInv, TypeOK
<1>c. \A X \in SUBSET mem.pcaps :
        IdsOK(mem.pcaps, mem.pcaps, saved \cup X, mem.nextPcap, mem.nextPcap)
  BY IdsSaved
<1>d. IdsOK(mem.pcaps, mem.pcaps, saved, mem.nextPcap, mem.nextPcap)
  BY <1>c, saved \cup {} = saved
<1>e. \A M2 \in SUBSET mem.pcaps :
        IdsOK(M2, disk.pcaps, saved, mem.nextPcap, disk.nextPcap)
  BY IdsErased
<1>1. ASSUME NEW u \in Uploads, NEW d \in Domains, AddPcap(u, d)
      PROVE  PcapIds'
  BY <1>1 DEF AddPcap, history
<1>2. ASSUME WritePcap PROVE PcapIds'
  <2>1. PICK p \in op.pcaps : mem' = [mem EXCEPT !.nextPcap = @ + 1, !.pcaps = @ \cup {p}]
    BY <1>2 DEF WritePcap
  <2>2. p.id = mem.nextPcap
    BY <1>2 DEF WritePcap, TypeInv, PcapInHand
  <2>3. mem'.nextPcap = mem.nextPcap + 1 /\ mem'.pcaps = mem.pcaps \cup {p}
    BY <1>a, <2>1 DEF Metadata
  <2>4. UNCHANGED <<disk, saved>>
    BY <1>2 DEF WritePcap, history
  <2>. QED
    BY <1>a, <2>2, <2>3, <2>4, IdsAdded
<1>3. ASSUME ShortWrite PROVE PcapIds'
  BY <1>3 DEF ShortWrite, history
<1>4. ASSUME SavePcap PROVE PcapIds'
  BY <1>c, <1>4 DEF SavePcap, Save, TypeInv, PcapInHand
<1>5. ASSUME SavePcapFails PROVE PcapIds'
  <2>1. mem'.pcaps \in SUBSET mem.pcaps /\ mem'.nextPcap = mem.nextPcap
    BY <1>a, <1>5 DEF SavePcapFails, Metadata
  <2>. QED
    BY <1>e, <2>1, <1>5 DEF SavePcapFails, history
<1>6. ASSUME NEW p \in mem.pcaps, RemovePcap(p)
      PROVE  PcapIds'
  <2>1. mem'.pcaps \in SUBSET mem.pcaps /\ mem'.nextPcap = mem.nextPcap
    BY <1>a, <1>6 DEF RemovePcap, Metadata
  <2>. QED
    BY <1>e, <2>1, <1>6 DEF RemovePcap, history
<1>7. ASSUME SaveRemoval PROVE PcapIds'
  BY <1>d, <1>7 DEF SaveRemoval, Save, TrySave, history
<1>8. ASSUME Unlink PROVE PcapIds'
  BY <1>8 DEF Unlink, history
<1>9. ASSUME NEW next \in Roots, SetPcapRoot(next)
      PROVE  PcapIds'
  BY <1>9 DEF SetPcapRoot, history
<1>10. ASSUME CopyPcap PROVE PcapIds'
  BY <1>10 DEF CopyPcap, history
<1>11. ASSUME CopyFails PROVE PcapIds'
  BY <1>11 DEF CopyFails, history
<1>12. ASSUME SaveRoot PROVE PcapIds'
  <2>1. mem'.pcaps = mem.pcaps /\ mem'.nextPcap = mem.nextPcap
    BY <1>a, <1>12 DEF SaveRoot, Metadata
  <2>2. disk' = disk \/ disk' = mem'
    BY <1>12 DEF SaveRoot, Save, TrySave
  <2>. QED
    BY <1>d, <2>1, <2>2, <1>12 DEF SaveRoot, history
<1>13. ASSUME NEW w \in Investigations, NEW pcaps \in SUBSET mem.pcaps, NEW d \in Domains,
             AddSession(w, pcaps, d)
      PROVE  PcapIds'
  BY <1>13 DEF AddSession, history
<1>14. ASSUME CopyCapture PROVE PcapIds'
  BY <1>14 DEF CopyCapture, history
<1>15. ASSUME WriteSidecar PROVE PcapIds'
  BY <1>15 DEF WriteSidecar, history
<1>16. ASSUME Discard PROVE PcapIds'
  BY <1>16 DEF Discard, history
<1>17. ASSUME Register PROVE PcapIds'
  <2>1. mem'.pcaps = mem.pcaps /\ mem'.nextPcap = mem.nextPcap
    BY <1>a, <1>17 DEF Register, Metadata
  <2>2. disk' = disk \/ disk' = mem'
    BY <1>17 DEF Register, Save, TrySave
  <2>. QED
    BY <1>d, <2>1, <2>2, <1>17 DEF Register, history
<1>18. ASSUME NEW s \in mem.sessions, RemoveSession(s)
      PROVE  PcapIds'
  <2>1. mem'.pcaps = mem.pcaps /\ mem'.nextPcap = mem.nextPcap
    BY <1>a, <1>18 DEF RemoveSession, Metadata
  <2>. QED
    BY <2>1, <1>18 DEF RemoveSession, history
<1>19. ASSUME NEW d \in mem.domains, NEW force \in BOOLEAN, RemoveDomain(d, force)
      PROVE  PcapIds'
  <2>1. mem'.pcaps \in SUBSET mem.pcaps /\ mem'.nextPcap = mem.nextPcap
    BY <1>a, <1>19 DEF RemoveDomain, Metadata
  <2>. QED
    BY <1>e, <2>1, <1>19 DEF RemoveDomain, history
<1>20. ASSUME PurgePcap PROVE PcapIds'
  BY <1>20 DEF PurgePcap, history
<1>21. ASSUME WipeSession PROVE PcapIds'
  BY <1>21 DEF WipeSession, history
<1>22. ASSUME RemoveTree PROVE PcapIds'
  BY <1>22 DEF RemoveTree, history
<1>23. ASSUME Publish PROVE PcapIds'
  BY <1>d, <1>23 DEF Publish, Save, TrySave, history
<1>24. ASSUME NEW d \in Domains, AddDomain(d)
      PROVE  PcapIds'
  <2>1. mem'.pcaps = mem.pcaps /\ mem'.nextPcap = mem.nextPcap
    BY <1>a, <1>24 DEF AddDomain, Metadata
  <2>2. disk' = disk \/ disk' = mem'
    BY <1>24 DEF AddDomain, Save, TrySave
  <2>. QED
    BY <1>d, <2>1, <2>2, <1>24 DEF AddDomain, history
<1>25. ASSUME EditMeta PROVE PcapIds'
  BY <1>d, <1>25 DEF EditMeta, Save, TrySave, history
<1>26. ASSUME Restart PROVE PcapIds'
  <2>1. mem'.pcaps = disk.pcaps /\ mem'.nextPcap = disk.nextPcap
    BY <1>a, <1>26 DEF Restart, Metadata
  <2>. QED
    BY <2>1, <1>26, IdsRestarted DEF Restart, history
<1>27. ASSUME UNCHANGED vars PROVE PcapIds'
  BY <1>27 DEF vars, history, answers
<1>28. ASSUME NEW p \in due, Answer(p) PROVE PcapIds'
  BY <1>28 DEF Answer
<1>. QED
  BY <1>b, <1>1, <1>2, <1>3, <1>4, <1>5, <1>6, <1>7, <1>8, <1>9, <1>10, <1>11, <1>12, <1>13, <1>14, <1>15, <1>16, <1>17, <1>18, <1>19, <1>20, <1>21, <1>22, <1>23, <1>24, <1>25, <1>26, <1>27, <1>28 DEF Next, Start, Step

(* The ids of sessions stay unique.                                        *)
LEMMA SessionIdsStep == TypeInv /\ SessionIds /\ [Next]_vars => SessionIds'
<1>. SUFFICES ASSUME TypeInv, SessionIds, [Next]_vars PROVE SessionIds'
  OBVIOUS
<1>. USE DEF SessionIds
<1>a. /\ mem \in Metadata /\ disk \in Metadata
      /\ mem.nextSession \in Nat
      /\ \A e \in mem.sessions \cup disk.sessions : e.id \in Nat
  BY StoreAssumption DEF TypeInv, TypeOK, Metadata, Pcaps, Sessions, Ids
<1>b. workload.domains \subseteq Domains
  BY StoreAssumption DEF TypeInv, TypeOK
<1>c. \A X \in SUBSET mem.sessions :
        IdsOK(mem.sessions, mem.sessions, {} \cup X, mem.nextSession, mem.nextSession)
  BY IdsSaved
<1>d. IdsOK(mem.sessions, mem.sessions, {}, mem.nextSession, mem.nextSession)
  BY <1>c, {} \cup {} = {}
<1>e. \A M2 \in SUBSET mem.sessions :
        IdsOK(M2, disk.sessions, {}, mem.nextSession, disk.nextSession)
  BY IdsErased
<1>1. ASSUME NEW u \in Uploads, NEW d \in Domains, AddPcap(u, d)
      PROVE  SessionIds'
  BY <1>1 DEF AddPcap, history
<1>2. ASSUME WritePcap PROVE SessionIds'
  <2>1. mem'.sessions = mem.sessions /\ mem'.nextSession = mem.nextSession
    BY <1>a, <1>2 DEF WritePcap, Metadata
  <2>. QED
    BY <2>1, <1>2 DEF WritePcap, history
<1>3. ASSUME ShortWrite PROVE SessionIds'
  BY <1>3 DEF ShortWrite, history
<1>4. ASSUME SavePcap PROVE SessionIds'
  BY <1>d, <1>4 DEF SavePcap, Save, TrySave, history
<1>5. ASSUME SavePcapFails PROVE SessionIds'
  <2>1. mem'.sessions = mem.sessions /\ mem'.nextSession = mem.nextSession
    BY <1>a, <1>5 DEF SavePcapFails, Metadata
  <2>. QED
    BY <2>1, <1>5 DEF SavePcapFails, history
<1>6. ASSUME NEW p \in mem.pcaps, RemovePcap(p)
      PROVE  SessionIds'
  <2>1. mem'.sessions = mem.sessions /\ mem'.nextSession = mem.nextSession
    BY <1>a, <1>6 DEF RemovePcap, Metadata
  <2>. QED
    BY <2>1, <1>6 DEF RemovePcap, history
<1>7. ASSUME SaveRemoval PROVE SessionIds'
  BY <1>d, <1>7 DEF SaveRemoval, Save, TrySave, history
<1>8. ASSUME Unlink PROVE SessionIds'
  BY <1>8 DEF Unlink, history
<1>9. ASSUME NEW next \in Roots, SetPcapRoot(next)
      PROVE  SessionIds'
  BY <1>9 DEF SetPcapRoot, history
<1>10. ASSUME CopyPcap PROVE SessionIds'
  BY <1>10 DEF CopyPcap, history
<1>11. ASSUME CopyFails PROVE SessionIds'
  BY <1>11 DEF CopyFails, history
<1>12. ASSUME SaveRoot PROVE SessionIds'
  <2>1. mem'.sessions = mem.sessions /\ mem'.nextSession = mem.nextSession
    BY <1>a, <1>12 DEF SaveRoot, Metadata
  <2>2. disk' = disk \/ disk' = mem'
    BY <1>12 DEF SaveRoot, Save, TrySave
  <2>. QED
    BY <1>d, <2>1, <2>2, <1>12 DEF SaveRoot, history
<1>13. ASSUME NEW w \in Investigations, NEW pcaps \in SUBSET mem.pcaps, NEW d \in Domains,
             AddSession(w, pcaps, d)
      PROVE  SessionIds'
  BY <1>13 DEF AddSession, history
<1>14. ASSUME CopyCapture PROVE SessionIds'
  BY <1>14 DEF CopyCapture, history
<1>15. ASSUME WriteSidecar PROVE SessionIds'
  BY <1>15 DEF WriteSidecar, history
<1>16. ASSUME Discard PROVE SessionIds'
  BY <1>16 DEF Discard, history
<1>17. ASSUME Register PROVE SessionIds'
  <2>1. PICK s \in Sessions : op.sessions = {s} /\ s.id = mem.nextSession
    BY <1>17 DEF Register, TypeInv, SessionInHand, Making
  <2>2. mem'.nextSession = mem.nextSession + 1 /\ mem'.sessions = mem.sessions \cup {s}
    BY <1>a, <2>1, <1>17 DEF Register, Metadata
  <2>3. IdsOK(mem'.sessions, disk.sessions, {}, mem'.nextSession, disk.nextSession)
    BY <1>a, <2>1, <2>2, IdsAdded
  <2>4. IdsOK(mem'.sessions, mem'.sessions, {} \cup {}, mem'.nextSession, mem'.nextSession)
    BY <2>3, IdsSaved, {} \in SUBSET mem'.sessions
  <2>5. disk' = disk \/ disk' = mem'
    BY <1>17 DEF Register, Save, TrySave
  <2>. QED
    BY <2>3, <2>4, <2>5
<1>18. ASSUME NEW s \in mem.sessions, RemoveSession(s)
      PROVE  SessionIds'
  <2>1. mem'.sessions \in SUBSET mem.sessions /\ mem'.nextSession = mem.nextSession
    BY <1>a, <1>18 DEF RemoveSession, Metadata
  <2>. QED
    BY <1>e, <2>1, <1>18 DEF RemoveSession, history
<1>19. ASSUME NEW d \in mem.domains, NEW force \in BOOLEAN, RemoveDomain(d, force)
      PROVE  SessionIds'
  <2>1. mem'.sessions \in SUBSET mem.sessions /\ mem'.nextSession = mem.nextSession
    BY <1>a, <1>19 DEF RemoveDomain, Metadata
  <2>. QED
    BY <1>e, <2>1, <1>19 DEF RemoveDomain, history
<1>20. ASSUME PurgePcap PROVE SessionIds'
  BY <1>20 DEF PurgePcap, history
<1>21. ASSUME WipeSession PROVE SessionIds'
  BY <1>21 DEF WipeSession, history
<1>22. ASSUME RemoveTree PROVE SessionIds'
  BY <1>22 DEF RemoveTree, history
<1>23. ASSUME Publish PROVE SessionIds'
  BY <1>d, <1>23 DEF Publish, Save, TrySave, history
<1>24. ASSUME NEW d \in Domains, AddDomain(d)
      PROVE  SessionIds'
  <2>1. mem'.sessions = mem.sessions /\ mem'.nextSession = mem.nextSession
    BY <1>a, <1>24 DEF AddDomain, Metadata
  <2>2. disk' = disk \/ disk' = mem'
    BY <1>24 DEF AddDomain, Save, TrySave
  <2>. QED
    BY <1>d, <2>1, <2>2, <1>24 DEF AddDomain, history
<1>25. ASSUME EditMeta PROVE SessionIds'
  BY <1>d, <1>25 DEF EditMeta, Save, TrySave, history
<1>26. ASSUME Restart PROVE SessionIds'
  <2>1. mem'.sessions = disk.sessions /\ mem'.nextSession = disk.nextSession
    BY <1>a, <1>26 DEF Restart, Metadata
  <2>. QED
    BY <2>1, <1>26, IdsRestarted DEF Restart, history
<1>27. ASSUME UNCHANGED vars PROVE SessionIds'
  BY <1>27 DEF vars, history, answers
<1>28. ASSUME NEW p \in due, Answer(p) PROVE SessionIds'
  BY <1>28 DEF Answer, SessionIds
<1>. QED
  BY <1>b, <1>1, <1>2, <1>3, <1>4, <1>5, <1>6, <1>7, <1>8, <1>9, <1>10, <1>11, <1>12, <1>13, <1>14, <1>15, <1>16, <1>17, <1>18, <1>19, <1>20, <1>21, <1>22, <1>23, <1>24, <1>25, <1>26, <1>27, <1>28 DEF Next, Start, Step
-----------------------------------------------------------------------------
(***************************************************************************)
(* The library.                                                            *)
(***************************************************************************)
(* The file of a capture is written, or removed.                          *)
Writes(root, p, c) == file' = [file EXCEPT ![At(root, p)] = c]

(* Captures with other ids, and below other roots, are other files.        *)
LEMMA OtherFile ==
    ASSUME file \in Library, NEW root \in Roots, NEW p \in Pcaps, NEW c,
           Writes(root, p, c),
           NEW other \in Roots, NEW q \in Pcaps, p.id # q.id \/ other # root
    PROVE  file'[At(other, q)] = file[At(other, q)]
<1>1. At(other, q) \in Paths /\ At(other, q) # At(root, p)
  BY PathTyped DEF At
<1>. HIDE DEF At
<1>. QED
  BY <1>1 DEF Library, Writes

(* The file written is there, and no other contents are written.           *)
LEMMA ThisFile ==
    ASSUME file \in Library, NEW root \in Roots, NEW p \in Pcaps, NEW c,
           Writes(root, p, c)
    PROVE  /\ file'[At(root, p)] = c
           /\ \A q \in Pcaps, other \in Roots : file'[At(other, q)] \in {file[At(other, q)], c}
<1>1. \A q \in Pcaps, other \in Roots : At(other, q) \in Paths
  BY PathTyped
<1>. QED
  BY <1>1 DEF Library, Writes

(* An operation that changes no file of the library. *)
Quiet == op.at \notin {"write", "added", "erased", "purge", "unlink", "copy"}

(* As long as the roots can be reached, every step keeps what was          *)
(* saved.                                                                  *)
LEMMA LibraryStep ==
    ASSUME MountsFail = FALSE, TypeInv, PcapIds, LibraryInv, [Next]_vars
    PROVE  LibraryInv'
<1>a. /\ mem \in Metadata /\ disk \in Metadata
      /\ file \in Library /\ op \in Operation
  BY DEF TypeInv, TypeOK, Operation, Library
<1>b. /\ mem.pcaps \subseteq Pcaps /\ disk.pcaps \subseteq Pcaps
      /\ mem.root \in Roots /\ kept \subseteq saved /\ kept \subseteq Pcaps
      /\ op.pcaps \subseteq Pcaps /\ op.root \in Roots /\ op.copied \subseteq Pcaps
      /\ workload.domains \subseteq Domains
  BY <1>a, StoreAssumption DEF TypeInv, TypeOK, Metadata, Operation
<1>c. /\ RootsAgree /\ FilesTrue /\ Kept
      /\ ApartInv /\ Added /\ Purging /\ Copying
  BY DEF LibraryInv
<1>d. \A p, q \in mem.pcaps \cup disk.pcaps : p.id = q.id => p = q
  BY DEF PcapIds, IdsOK
<1>f. mem.nextPcap \in Nat
  BY <1>a DEF Metadata
<1>e. \A p \in mem.pcaps \cup disk.pcaps \cup kept : p.id # mem.nextPcap
  BY <1>b, <1>f DEF PcapIds, IdsOK, Pcaps, Ids
<1>1. ASSUME NEW u \in Uploads, NEW d \in Domains, AddPcap(u, d)
      PROVE  LibraryInv'
  <2>. DEFINE p == [id |-> mem.nextPcap, upload |-> u, dom |-> d]
  <2>1. p \in Pcaps /\ p.id = mem.nextPcap
    BY <1>1 DEF AddPcap, Pcaps
  <2>2. /\ Writes(mem.root, p, Part)
        /\ UNCHANGED <<mem, disk, kept>>
    BY <1>1 DEF AddPcap, history, Writes
  <2>3. op'.at = "write" /\ op'.pcaps = {p}
    BY <1>1 DEF AddPcap, Idle
  <2>. HIDE DEF p
  <2>4. ASSUME NEW q \in mem.pcaps \cup disk.pcaps
       PROVE  file'[At(mem.root, q)] = file[At(mem.root, q)]
    BY <1>a, <1>b, <1>e, <2>1, <2>2, OtherFile
  <2>5. RootsAgree' /\ FilesTrue' /\ Kept'
    BY <1>c, <2>2, <2>4 DEF RootsAgree, FilesTrue, Kept
  <2>6. ApartInv' /\ Added' /\ Purging' /\ Copying'
    BY <1>e, <2>1, <2>2, <2>3 DEF ApartInv, Touching, Apart, Added, Purging, Copying
  <2>. QED
    BY <2>5, <2>6 DEF LibraryInv
<1>2. ASSUME WritePcap PROVE LibraryInv'
  <2>1. PICK p \in op.pcaps :
          /\ Writes(mem.root, p, p.upload)
          /\ mem' = [mem EXCEPT !.nextPcap = @ + 1, !.pcaps = @ \cup {p}]
          /\ op' = [op EXCEPT !.at = "added"]
    BY <1>2 DEF WritePcap, Writes
  <2>2. op.pcaps = {p} /\ p.id = mem.nextPcap /\ p \in Pcaps
    BY <1>2, <1>b, <2>1 DEF WritePcap, TypeInv, PcapInHand
  <2>3. UNCHANGED <<disk, kept>>
    BY <1>2 DEF WritePcap, history
  <2>4. mem'.pcaps = mem.pcaps \cup {p} /\ mem'.root = mem.root
    BY <1>a, <2>1 DEF Metadata
  <2>5. op'.at = "added" /\ op'.pcaps = {p}
    BY <1>a, <2>1, <2>2 DEF Operation
  <2>6. file'[At(mem.root, p)] = p.upload
    BY <1>a, <1>b, <2>1, <2>2, ThisFile
  <2>7. ASSUME NEW q \in mem.pcaps \cup disk.pcaps
       PROVE  file'[At(mem.root, q)] = file[At(mem.root, q)]
    BY <1>a, <1>b, <1>e, <2>1, <2>2, OtherFile
  <2>8. RootsAgree' /\ FilesTrue' /\ Kept'
    BY <1>c, <2>3, <2>4, <2>6, <2>7 DEF RootsAgree, FilesTrue, Kept
  <2>9. ApartInv' /\ Added' /\ Purging' /\ Copying'
    BY <1>e, <2>2, <2>3, <2>4, <2>5, <2>6 DEF ApartInv, Touching, Apart, Added, Purging, Copying
  <2>. QED
    BY <2>8, <2>9 DEF LibraryInv
<1>3. ASSUME ShortWrite PROVE LibraryInv'
  <2>1. Quiet'
    BY <1>3, <1>a, IdleTyped DEF ShortWrite, Quiet, Operation, Idle
  <2>2. mem'.pcaps = mem.pcaps /\ mem'.root = mem.root
    BY <1>3, <1>a DEF ShortWrite, Metadata
  <2>3. \/ (disk'.root = disk.root /\ disk'.pcaps = disk.pcaps)
        \/ (disk'.root = mem.root /\ disk'.pcaps = mem.pcaps)
    BY <1>3, <2>2 DEF ShortWrite, Save, TrySave
  <2>4. UNCHANGED <<file, kept>>
    BY <1>3 DEF ShortWrite, history
  <2>5. RootsAgree' /\ FilesTrue' /\ Kept'
    BY <1>c, <2>2, <2>3, <2>4 DEF RootsAgree, FilesTrue, Kept
  <2>. QED
    BY <2>1, <2>5 DEF LibraryInv, Quiet, ApartInv, Touching, Added, Purging, Copying
<1>4. ASSUME SavePcap PROVE LibraryInv'
  <2>1. /\ disk' = mem /\ kept' = kept \cup op.pcaps /\ UNCHANGED <<mem, file>>
        /\ op.pcaps \subseteq mem.pcaps /\ op.at = "added"
    BY <1>4 DEF SavePcap, Save, TypeInv, PcapInHand
  <2>2. Quiet'
    BY <1>4, IdleTyped DEF SavePcap, Quiet
  <2>3. RootsAgree' /\ FilesTrue' /\ Kept'
    BY <1>c, <2>1 DEF RootsAgree, FilesTrue, Kept, Added
  <2>. QED
    BY <2>2, <2>3 DEF LibraryInv, Quiet, ApartInv, Touching, Added, Purging, Copying
<1>5. ASSUME SavePcapFails PROVE LibraryInv'
  <2>1. PICK p \in op.pcaps :
          /\ Writes(mem.root, p, NoFile)
          /\ mem' = [mem EXCEPT !.pcaps = @ \ {p}]
    BY <1>5 DEF SavePcapFails, Writes
  <2>2. p \in Pcaps /\ \A q \in kept : p.id # q.id
    BY <1>5, <1>b, <1>c, <2>1 DEF SavePcapFails, ApartInv, Touching, Apart
  <2>3. mem'.pcaps = mem.pcaps \ {p} /\ mem'.root = mem.root /\ UNCHANGED <<disk, kept>>
    BY <1>5, <1>a, <2>1 DEF SavePcapFails, history, Metadata
  <2>4. ASSUME NEW q \in kept
       PROVE  file'[At(mem.root, q)] = file[At(mem.root, q)]
    BY <1>a, <1>b, <2>1, <2>2, OtherFile
  <2>5. \A q \in mem.pcaps \cup disk.pcaps :
          file'[At(mem.root, q)] \in {file[At(mem.root, q)], NoFile}
    BY <1>a, <1>b, <2>1, <2>2, ThisFile
  <2>6. Quiet'
    BY <1>5, IdleTyped DEF SavePcapFails, Quiet
  <2>7. RootsAgree' /\ FilesTrue' /\ Kept'
    BY <1>c, <2>2, <2>3, <2>4, <2>5 DEF RootsAgree, FilesTrue, Kept
  <2>. QED
    BY <2>6, <2>7 DEF LibraryInv, Quiet, ApartInv, Touching, Added, Purging, Copying
<1>6. ASSUME NEW p \in mem.pcaps, RemovePcap(p)
      PROVE  LibraryInv'
  <2>1. mem'.pcaps = mem.pcaps \ {p} /\ mem'.root = mem.root /\ UNCHANGED <<disk, file>>
    BY <1>6, <1>a DEF RemovePcap, Metadata
  <2>2. kept' = kept \ {p}
    BY <1>6 DEF RemovePcap
  <2>3. op'.at = "erased" /\ op'.pcaps = {p}
    BY <1>6 DEF RemovePcap, Idle
  <2>4. RootsAgree' /\ FilesTrue' /\ Kept'
    BY <1>c, <2>1, <2>2 DEF RootsAgree, FilesTrue, Kept
  <2>5. \A q \in kept' : p.id # q.id
    BY <1>c, <1>d, <2>2 DEF Kept
  <2>6. ApartInv' /\ Added' /\ Purging' /\ Copying'
    BY <2>3, <2>5 DEF ApartInv, Touching, Apart, Added, Purging, Copying
  <2>. QED
    BY <2>4, <2>6 DEF LibraryInv
<1>7. ASSUME SaveRemoval PROVE LibraryInv'
  <2>1. UNCHANGED <<mem, file, kept>> /\ (disk' = mem \/ disk' = disk) /\ op.at = "erased"
    BY <1>7 DEF SaveRemoval, history, Save
  <2>2. \/ op'.at = "idle"
        \/ op'.at = "unlink" /\ op'.pcaps = op.pcaps
    BY <1>7, <1>b, IdleTyped, UnlinkingTyped DEF SaveRemoval
  <2>3. RootsAgree' /\ FilesTrue' /\ Kept'
    BY <1>c, <2>1 DEF RootsAgree, FilesTrue, Kept
  <2>4. ApartInv' /\ Added' /\ Purging' /\ Copying'
    BY <1>c, <2>1, <2>2 DEF ApartInv, Touching, Apart, Added, Purging, Copying
  <2>. QED
    BY <2>3, <2>4 DEF LibraryInv
<1>8. ASSUME Unlink PROVE LibraryInv'
  <2>1. PICK p \in op.pcaps :
          /\ Writes(op.root, p, NoFile)
          /\ op' = Unlinking(op.pcaps \ {p}, op.root)
    BY <1>8 DEF Unlink, Writes
  <2>2. UNCHANGED <<mem, disk, kept>> /\ op.at = "unlink" /\ p \in Pcaps
    BY <1>8, <1>b, <2>1 DEF Unlink, history
  <2>3. \/ op'.at = "idle"
        \/ op'.at = "unlink" /\ op'.pcaps = op.pcaps \ {p} /\ op'.root = op.root
    BY <2>1 DEF Unlinking, Idle
  <2>4. op.root = mem.root => \A q \in kept : p.id # q.id
    BY <1>c, <2>1, <2>2 DEF ApartInv, Touching, Apart
  <2>5. ASSUME NEW q \in kept
       PROVE  file'[At(mem.root, q)] = file[At(mem.root, q)]
    BY <1>a, <1>b, <2>1, <2>2, <2>4, OtherFile
  <2>6. \A q \in mem.pcaps \cup disk.pcaps :
          file'[At(mem.root, q)] \in {file[At(mem.root, q)], NoFile}
    BY <1>a, <1>b, <2>1, <2>2, ThisFile
  <2>7. RootsAgree' /\ FilesTrue' /\ Kept'
    BY <1>c, <2>2, <2>5, <2>6 DEF RootsAgree, FilesTrue, Kept
  <2>8. ApartInv' /\ Added' /\ Purging' /\ Copying'
    BY <1>c, <2>2, <2>3 DEF ApartInv, Touching, Apart, Added, Purging, Copying
  <2>. QED
    BY <2>7, <2>8 DEF LibraryInv
<1>9. ASSUME NEW next \in Roots, SetPcapRoot(next)
      PROVE  LibraryInv'
  <2>1. UNCHANGED <<mem, disk, file, kept>> /\ next # mem.root
    BY <1>9 DEF SetPcapRoot, history
  <2>2. op'.at = "copy" /\ op'.pcaps = mem.pcaps /\ op'.root = next
    BY <1>9 DEF SetPcapRoot, Idle
  <2>3. RootsAgree' /\ FilesTrue' /\ Kept'
    BY <1>c, <2>1 DEF RootsAgree, FilesTrue, Kept
  <2>4. ApartInv' /\ Added' /\ Purging' /\ Copying'
    BY <2>1, <2>2 DEF ApartInv, Touching, Apart, Added, Purging, Copying
  <2>. QED
    BY <2>3, <2>4 DEF LibraryInv
<1>10. ASSUME CopyPcap PROVE LibraryInv'
  <2>1. PICK p \in op.pcaps :
          /\ Writes(op.root, p, file[At(mem.root, p)])
          /\ op' = [op EXCEPT !.pcaps = @ \ {p}, !.copied = @ \cup {p}]
    BY <1>10 DEF CopyPcap, Writes
  <2>2. UNCHANGED <<mem, disk, kept>> /\ op.at = "copy"
    BY <1>10 DEF CopyPcap, history
  <2>3. op'.at = "copy" /\ op'.pcaps = op.pcaps \ {p} /\ op'.root = op.root
    BY <1>a, <2>1, <2>2 DEF Operation
  <2>4. op.root # mem.root /\ op.pcaps \subseteq mem.pcaps /\ p \in mem.pcaps /\ p \in Pcaps
    BY <1>b, <1>c, <2>1, <2>2 DEF Copying
  <2>5. ASSUME NEW q \in mem.pcaps \cup disk.pcaps
       PROVE  file'[At(mem.root, q)] = file[At(mem.root, q)]
    BY <1>a, <1>b, <2>1, <2>4, OtherFile
  <2>6. file'[At(op.root, p)] = file[At(mem.root, p)]
    BY <1>a, <1>b, <2>1, <2>4, ThisFile
  <2>7. ASSUME NEW q \in mem.pcaps, q # p
       PROVE  file'[At(op.root, q)] = file[At(op.root, q)]
    <3>1. p.id # q.id /\ q \in Pcaps
      BY <1>b, <1>d, <2>4, <2>7
    <3>. QED
      BY <1>a, <1>b, <2>1, <2>4, <3>1, OtherFile
  <2>8. RootsAgree' /\ FilesTrue' /\ Kept'
    BY <1>c, <2>2, <2>5 DEF RootsAgree, FilesTrue, Kept
  <2>9. Copying'
    BY <1>c, <2>2, <2>3, <2>4, <2>5, <2>6, <2>7 DEF Copying
  <2>10. ApartInv' /\ Added' /\ Purging'
    BY <2>3 DEF ApartInv, Touching, Added, Purging
  <2>. QED
    BY <2>8, <2>9, <2>10 DEF LibraryInv
<1>11. ASSUME CopyFails PROVE LibraryInv'
  <2>1. PICK p \in op.pcaps :
          \/ UNCHANGED file
          \/ Writes(op.root, p, Part)
    BY <1>11 DEF CopyFails, Writes
  <2>2. UNCHANGED <<mem, disk, kept>> /\ op.at = "copy" /\ p \in Pcaps
    BY <1>11, <1>b, <2>1 DEF CopyFails, history
  <2>3. op'.at = "idle" \/ (op'.at = "unlink" /\ op'.root = op.root)
    BY <1>11, <1>b, UnlinkingTyped DEF CopyFails
  <2>4. op.root # mem.root
    BY <1>c, <2>2 DEF Copying
  <2>5. ASSUME NEW q \in mem.pcaps \cup disk.pcaps
       PROVE  file'[At(mem.root, q)] = file[At(mem.root, q)]
    BY <1>a, <1>b, <2>1, <2>2, <2>4, OtherFile
  <2>6. RootsAgree' /\ FilesTrue' /\ Kept'
    BY <1>c, <2>2, <2>5 DEF RootsAgree, FilesTrue, Kept
  <2>7. ApartInv' /\ Added' /\ Purging' /\ Copying'
    BY <2>2, <2>3, <2>4 DEF ApartInv, Touching, Added, Purging, Copying
  <2>. QED
    BY <2>6, <2>7 DEF LibraryInv
<1>12. ASSUME SaveRoot PROVE LibraryInv'
  <2>1. /\ op.at = "copy" /\ op.pcaps = {} /\ op.root # mem.root
        /\ \A p \in mem.pcaps : file[At(op.root, p)] = file[At(mem.root, p)]
        /\ UNCHANGED <<file, kept>>
    BY <1>12, <1>c DEF SaveRoot, Copying, history
  <2>2. CASE mem' = [mem EXCEPT !.root = op.root] /\ Save(mem') /\ op' = Unlinking(mem.pcaps, mem.root)
    <3>1. mem'.root = op.root /\ mem'.pcaps = mem.pcaps /\ disk' = mem'
      BY <1>a, <2>2 DEF Metadata, Save
    <3>2. op'.at = "idle" \/ (op'.at = "unlink" /\ op'.root = mem.root)
      BY <1>b, <2>2, UnlinkingTyped
    <3>3. RootsAgree' /\ FilesTrue' /\ Kept'
      BY <1>c, <2>1, <3>1 DEF RootsAgree, FilesTrue, Kept
    <3>4. ApartInv' /\ Added' /\ Purging' /\ Copying'
      BY <2>1, <3>1, <3>2 DEF ApartInv, Touching, Added, Purging, Copying
    <3>. QED
      BY <3>3, <3>4 DEF LibraryInv
  <2>3. CASE UNCHANGED <<mem, disk>> /\ op' = Unlinking(op.copied, op.root)
    <3>1. op'.at = "idle" \/ (op'.at = "unlink" /\ op'.root = op.root)
      BY <1>b, <2>3, UnlinkingTyped
    <3>2. RootsAgree' /\ FilesTrue' /\ Kept'
      BY <1>c, <2>1, <2>3 DEF RootsAgree, FilesTrue, Kept
    <3>3. ApartInv' /\ Added' /\ Purging' /\ Copying'
      BY <2>1, <2>3, <3>1 DEF ApartInv, Touching, Added, Purging, Copying
    <3>. QED
      BY <3>2, <3>3 DEF LibraryInv
  <2>. QED
    BY <1>12, <2>2, <2>3 DEF SaveRoot
<1>13. ASSUME NEW w \in Investigations, NEW pcaps \in SUBSET mem.pcaps, NEW d \in Domains,
             AddSession(w, pcaps, d)
      PROVE  LibraryInv'
  <2>1. Quiet'
    BY <1>13, <1>a, IdleTyped DEF AddSession, Quiet, Operation, Idle
  <2>2. mem'.pcaps = mem.pcaps /\ mem'.root = mem.root
    BY <1>13, <1>a DEF AddSession, Metadata
  <2>3. \/ (disk'.root = disk.root /\ disk'.pcaps = disk.pcaps)
        \/ (disk'.root = mem.root /\ disk'.pcaps = mem.pcaps)
    BY <1>13, <2>2 DEF AddSession, Save, TrySave
  <2>4. UNCHANGED <<file, kept>>
    BY <1>13 DEF AddSession, history
  <2>5. RootsAgree' /\ FilesTrue' /\ Kept'
    BY <1>c, <2>2, <2>3, <2>4 DEF RootsAgree, FilesTrue, Kept
  <2>. QED
    BY <2>1, <2>5 DEF LibraryInv, Quiet, ApartInv, Touching, Added, Purging, Copying
<1>14. ASSUME CopyCapture PROVE LibraryInv'
  <2>1. Quiet'
    BY <1>14, <1>a, IdleTyped DEF CopyCapture, Quiet, Operation, Idle
  <2>2. mem'.pcaps = mem.pcaps /\ mem'.root = mem.root
    BY <1>14, <1>a DEF CopyCapture, Metadata
  <2>3. \/ (disk'.root = disk.root /\ disk'.pcaps = disk.pcaps)
        \/ (disk'.root = mem.root /\ disk'.pcaps = mem.pcaps)
    BY <1>14, <2>2 DEF CopyCapture, Save, TrySave
  <2>4. UNCHANGED <<file, kept>>
    BY <1>14 DEF CopyCapture, history
  <2>5. RootsAgree' /\ FilesTrue' /\ Kept'
    BY <1>c, <2>2, <2>3, <2>4 DEF RootsAgree, FilesTrue, Kept
  <2>. QED
    BY <2>1, <2>5 DEF LibraryInv, Quiet, ApartInv, Touching, Added, Purging, Copying
<1>15. ASSUME WriteSidecar PROVE LibraryInv'
  <2>1. Quiet'
    BY <1>15, <1>a, IdleTyped DEF WriteSidecar, Quiet, Operation, Idle
  <2>2. mem'.pcaps = mem.pcaps /\ mem'.root = mem.root
    BY <1>15, <1>a DEF WriteSidecar, Metadata
  <2>3. \/ (disk'.root = disk.root /\ disk'.pcaps = disk.pcaps)
        \/ (disk'.root = mem.root /\ disk'.pcaps = mem.pcaps)
    BY <1>15, <2>2 DEF WriteSidecar, Save, TrySave
  <2>4. UNCHANGED <<file, kept>>
    BY <1>15 DEF WriteSidecar, history
  <2>5. RootsAgree' /\ FilesTrue' /\ Kept'
    BY <1>c, <2>2, <2>3, <2>4 DEF RootsAgree, FilesTrue, Kept
  <2>. QED
    BY <2>1, <2>5 DEF LibraryInv, Quiet, ApartInv, Touching, Added, Purging, Copying
<1>16. ASSUME Discard PROVE LibraryInv'
  <2>1. Quiet'
    BY <1>16, <1>a, IdleTyped DEF Discard, Quiet, Operation, Idle
  <2>2. mem'.pcaps = mem.pcaps /\ mem'.root = mem.root
    BY <1>16, <1>a DEF Discard, Metadata
  <2>3. \/ (disk'.root = disk.root /\ disk'.pcaps = disk.pcaps)
        \/ (disk'.root = mem.root /\ disk'.pcaps = mem.pcaps)
    BY <1>16, <2>2 DEF Discard, Save, TrySave
  <2>4. UNCHANGED <<file, kept>>
    BY <1>16 DEF Discard, history
  <2>5. RootsAgree' /\ FilesTrue' /\ Kept'
    BY <1>c, <2>2, <2>3, <2>4 DEF RootsAgree, FilesTrue, Kept
  <2>. QED
    BY <2>1, <2>5 DEF LibraryInv, Quiet, ApartInv, Touching, Added, Purging, Copying
<1>17. ASSUME Register PROVE LibraryInv'
  <2>1. Quiet'
    BY <1>17, <1>a, IdleTyped DEF Register, Quiet, Operation, Idle
  <2>2. mem'.pcaps = mem.pcaps /\ mem'.root = mem.root
    BY <1>17, <1>a DEF Register, Metadata
  <2>3. \/ (disk'.root = disk.root /\ disk'.pcaps = disk.pcaps)
        \/ (disk'.root = mem.root /\ disk'.pcaps = mem.pcaps)
    BY <1>17, <2>2 DEF Register, Save, TrySave
  <2>4. UNCHANGED <<file, kept>>
    BY <1>17 DEF Register, history
  <2>5. RootsAgree' /\ FilesTrue' /\ Kept'
    BY <1>c, <2>2, <2>3, <2>4 DEF RootsAgree, FilesTrue, Kept
  <2>. QED
    BY <2>1, <2>5 DEF LibraryInv, Quiet, ApartInv, Touching, Added, Purging, Copying
<1>18. ASSUME NEW s \in mem.sessions, RemoveSession(s)
      PROVE  LibraryInv'
  <2>1. Quiet'
    BY <1>18, <1>a, IdleTyped DEF RemoveSession, Quiet, Operation, Idle
  <2>2. mem'.pcaps = mem.pcaps /\ mem'.root = mem.root
    BY <1>18, <1>a DEF RemoveSession, Metadata
  <2>3. \/ (disk'.root = disk.root /\ disk'.pcaps = disk.pcaps)
        \/ (disk'.root = mem.root /\ disk'.pcaps = mem.pcaps)
    BY <1>18, <2>2 DEF RemoveSession, Save, TrySave
  <2>4. UNCHANGED <<file, kept>>
    BY <1>18 DEF RemoveSession, history
  <2>5. RootsAgree' /\ FilesTrue' /\ Kept'
    BY <1>c, <2>2, <2>3, <2>4 DEF RootsAgree, FilesTrue, Kept
  <2>. QED
    BY <2>1, <2>5 DEF LibraryInv, Quiet, ApartInv, Touching, Added, Purging, Copying
<1>19. ASSUME NEW d \in mem.domains, NEW force \in BOOLEAN, RemoveDomain(d, force)
      PROVE  LibraryInv'
  <2>1. /\ mem'.pcaps = mem.pcaps \ {p \in mem.pcaps : p.dom = d} /\ mem'.root = mem.root
        /\ UNCHANGED <<disk, file>>
    BY <1>19, <1>a DEF RemoveDomain, Metadata
  <2>2. kept' = kept \ {p \in mem.pcaps : p.dom = d}
    BY <1>19 DEF RemoveDomain
  <2>3. op'.at = "purge" /\ op'.pcaps = {p \in mem.pcaps : p.dom = d} /\ op'.dom = d
    BY <1>19 DEF RemoveDomain, Idle
  <2>4. \A q \in kept' : q \in mem.pcaps /\ q.dom # d
    BY <1>c, <2>2 DEF Kept
  <2>5. RootsAgree' /\ FilesTrue' /\ Kept'
    BY <1>c, <2>1, <2>2 DEF RootsAgree, FilesTrue, Kept
  <2>6. \A p \in op'.pcaps, q \in kept' : p.id # q.id
    BY <1>d, <2>3, <2>4
  <2>7. ApartInv' /\ Added' /\ Purging' /\ Copying'
    BY <2>3, <2>4, <2>6 DEF ApartInv, Touching, Apart, Added, Purging, Copying
  <2>. QED
    BY <2>5, <2>7 DEF LibraryInv
<1>20. ASSUME PurgePcap PROVE LibraryInv'
  <2>1. PICK p \in op.pcaps :
          /\ Writes(mem.root, p, NoFile)
          /\ op' = [op EXCEPT !.pcaps = @ \ {p}]
    BY <1>20 DEF PurgePcap, Writes
  <2>2. UNCHANGED <<mem, disk, kept>> /\ op.at = "purge" /\ p \in Pcaps
    BY <1>20, <1>b, <2>1 DEF PurgePcap, history
  <2>3. op'.at = "purge" /\ op'.pcaps = op.pcaps \ {p} /\ op'.dom = op.dom
    BY <1>a, <2>1, <2>2 DEF Operation
  <2>4. \A q \in kept : p.id # q.id
    BY <1>c, <2>1, <2>2 DEF ApartInv, Touching, Apart
  <2>5. ASSUME NEW q \in kept
       PROVE  file'[At(mem.root, q)] = file[At(mem.root, q)]
    BY <1>a, <1>b, <2>1, <2>2, <2>4, OtherFile
  <2>6. \A q \in mem.pcaps \cup disk.pcaps :
          file'[At(mem.root, q)] \in {file[At(mem.root, q)], NoFile}
    BY <1>a, <1>b, <2>1, <2>2, ThisFile
  <2>7. RootsAgree' /\ FilesTrue' /\ Kept'
    BY <1>c, <2>2, <2>5, <2>6 DEF RootsAgree, FilesTrue, Kept
  <2>8. ApartInv' /\ Added' /\ Purging' /\ Copying'
    BY <1>c, <2>2, <2>3 DEF ApartInv, Touching, Apart, Added, Purging, Copying
  <2>. QED
    BY <2>7, <2>8 DEF LibraryInv
<1>21. ASSUME WipeSession PROVE LibraryInv'
  <2>1. /\ UNCHANGED <<mem, disk, file, kept>> /\ op.pcaps = {}
        /\ op.at \in {"wipe", "purge"}
    BY <1>21 DEF WipeSession, history
  <2>2. PICK s \in op.sessions :
          op' = IF folder'[s.id] # Empty THEN op
                ELSE IF op.at = "wipe" THEN [Idle EXCEPT !.at = "publish"]
                ELSE [op EXCEPT !.sessions = @ \ {s}]
    BY <1>21 DEF WipeSession
  <2>3. \/ op'.at = "publish"
        \/ op'.at = op.at /\ op'.pcaps = op.pcaps /\ op'.dom = op.dom
    BY <1>a, <2>2 DEF Operation, Idle
  <2>4. RootsAgree' /\ FilesTrue' /\ Kept'
    BY <1>c, <2>1 DEF RootsAgree, FilesTrue, Kept
  <2>5. ApartInv' /\ Added' /\ Purging' /\ Copying'
    BY <1>c, <2>1, <2>3 DEF ApartInv, Touching, Apart, Added, Purging, Copying
  <2>. QED
    BY <2>4, <2>5 DEF LibraryInv
<1>22. ASSUME RemoveTree PROVE LibraryInv'
  <2>1. UNCHANGED <<mem, disk, kept>> /\ op.at = "purge" /\ op'.at = "publish"
    BY <1>22 DEF RemoveTree, history, Idle
  <2>2. \A q \in Pcaps : /\ At(mem.root, q) \in Paths
                         /\ At(mem.root, q)[1] = mem.root /\ At(mem.root, q)[2] = q.dom
    BY <1>b, PathTyped DEF At
  <2>. HIDE DEF At
  <2>3. \A q \in Pcaps : file'[At(mem.root, q)] =
          IF q.dom = op.dom THEN NoFile ELSE file[At(mem.root, q)]
    BY <1>22, <2>2 DEF RemoveTree
  <2>4. RootsAgree' /\ FilesTrue' /\ Kept'
    BY <1>b, <1>c, <2>1, <2>3 DEF RootsAgree, FilesTrue, Kept, Purging
  <2>5. ApartInv' /\ Added' /\ Purging' /\ Copying'
    BY <2>1 DEF ApartInv, Touching, Added, Purging, Copying
  <2>. QED
    BY <2>4, <2>5 DEF LibraryInv
<1>23. ASSUME Publish PROVE LibraryInv'
  <2>1. Quiet'
    BY <1>23, <1>a, IdleTyped DEF Publish, Quiet, Operation, Idle
  <2>2. mem'.pcaps = mem.pcaps /\ mem'.root = mem.root
    BY <1>23, <1>a DEF Publish, Metadata
  <2>3. \/ (disk'.root = disk.root /\ disk'.pcaps = disk.pcaps)
        \/ (disk'.root = mem.root /\ disk'.pcaps = mem.pcaps)
    BY <1>23, <2>2 DEF Publish, Save, TrySave
  <2>4. UNCHANGED <<file, kept>>
    BY <1>23 DEF Publish, history
  <2>5. RootsAgree' /\ FilesTrue' /\ Kept'
    BY <1>c, <2>2, <2>3, <2>4 DEF RootsAgree, FilesTrue, Kept
  <2>. QED
    BY <2>1, <2>5 DEF LibraryInv, Quiet, ApartInv, Touching, Added, Purging, Copying
<1>24. ASSUME NEW d \in Domains, AddDomain(d)
      PROVE  LibraryInv'
  <2>1. /\ mem'.pcaps = mem.pcaps /\ mem'.root = mem.root /\ disk' = mem'
        /\ UNCHANGED <<file, kept, op>> /\ op = Idle
    BY <1>24, <1>a DEF AddDomain, Metadata, history, Save
  <2>2. RootsAgree' /\ FilesTrue' /\ Kept'
    BY <1>c, <2>1 DEF RootsAgree, FilesTrue, Kept
  <2>3. Quiet'
    BY <2>1, IdleTyped DEF Quiet
  <2>. QED
    BY <2>2, <2>3 DEF LibraryInv, Quiet, ApartInv, Touching, Added, Purging, Copying
<1>25. ASSUME EditMeta PROVE LibraryInv'
  <2>1. disk' = mem /\ UNCHANGED <<mem, file, kept, op>> /\ op = Idle
    BY <1>25 DEF EditMeta, history, Save
  <2>2. RootsAgree' /\ FilesTrue' /\ Kept'
    BY <1>c, <2>1 DEF RootsAgree, FilesTrue, Kept
  <2>3. Quiet'
    BY <2>1, IdleTyped DEF Quiet
  <2>. QED
    BY <2>2, <2>3 DEF LibraryInv, Quiet, ApartInv, Touching, Added, Purging, Copying
<1>26. ASSUME Restart PROVE LibraryInv'
  <2>1. mem'.pcaps = disk.pcaps /\ mem'.root = disk.root /\ UNCHANGED <<disk, file, kept>>
    BY <1>26, <1>a DEF Restart, Metadata, history
  <2>2. RootsAgree' /\ FilesTrue' /\ Kept'
    BY <1>c, <2>1 DEF RootsAgree, FilesTrue, Kept
  <2>3. Quiet'
    BY <1>26, IdleTyped DEF Restart, Quiet
  <2>. QED
    BY <2>2, <2>3 DEF LibraryInv, Quiet, ApartInv, Touching, Added, Purging, Copying
<1>27. ASSUME UNCHANGED vars PROVE LibraryInv'
  BY <1>c, <1>27 DEF vars, history, answers, LibraryInv, RootsAgree, FilesTrue, Kept, ApartInv, Touching, Apart, Added, Purging, Copying
<1>28. ASSUME NEW p \in due, Answer(p) PROVE LibraryInv'
  BY <1>28 DEF Answer, LibraryInv, RootsAgree, FilesTrue, Kept, ApartInv, Touching, Apart, Added, Purging, Copying
<1>. QED
  BY <1>b, <1>1, <1>2, <1>3, <1>4, <1>5, <1>6, <1>7, <1>8, <1>9, <1>10, <1>11, <1>12, <1>13, <1>14, <1>15, <1>16, <1>17, <1>18, <1>19, <1>20, <1>21, <1>22, <1>23, <1>24, <1>25, <1>26, <1>27, <1>28 DEF Next, Start, Step
-----------------------------------------------------------------------------
(***************************************************************************)
(* The sessions.                                                           *)
(***************************************************************************)
Folder == [capture : SUBSET Contents, sidecar : SUBSET Contents]

(* The steps that have a session folder in hand. *)
Foldering == Making \cup {"wipe", "purge"}

(* Nothing is to be shown of a step that changes no folder, lists no       *)
(* session anew, and leaves none in hand.                                  *)
LEMMA OtherWork ==
    ASSUME SessionsInv, op'.at \notin Foldering,
           mem'.sessions \subseteq mem.sessions \cup disk.sessions,
           disk'.sessions \subseteq mem.sessions \cup disk.sessions,
           UNCHANGED folder, dropped \subseteq dropped'
    PROVE  SessionsInv'
<1>1. \A s \in (mem.sessions \cup disk.sessions)' : s.name \notin dropped' => Whole(s)'
  BY DEF SessionsInv, Whole
<1>2. MakingOK'
  BY DEF MakingOK, Foldering, Making
<1>. QED
  BY <1>1, <1>2 DEF SessionsInv, Foldering

(* The folder of one session is changed in some way. *)
Changes(t) == /\ folder' \in Folders
              /\ \A i \in Ids : i # t.id => folder'[i] = folder[i]

(* Nor of sessions with other ids than the one whose folder is changed. *)
LEMMA OtherSessions ==
    ASSUME SessionsInv, NEW t \in Sessions, Changes(t),
           mem.sessions \cup disk.sessions \subseteq Sessions,
           \A s \in mem.sessions \cup disk.sessions : s.id = t.id => s.name \in dropped,
           UNCHANGED <<mem, disk, dropped>>
    PROVE  \A s \in (mem.sessions \cup disk.sessions)' :
             s.name \notin dropped' => Whole(s)'
<1>1. \A s \in mem.sessions \cup disk.sessions :
        s.name \notin dropped => s.id \in Ids /\ s.id # t.id
  BY DEF Sessions
<1>2. \A s \in mem.sessions \cup disk.sessions :
        s.name \notin dropped => folder'[s.id] = folder[s.id]
  BY <1>1 DEF Changes
<1>. QED
  BY <1>2 DEF SessionsInv, Whole

(* What remove_all leaves of a folder. *)
LEMMA WipeChanges ==
    ASSUME folder \in Folders, NEW t \in Sessions, Wipe(t)
    PROVE  Changes(t)
<1>1. t.id \in Ids /\ {} \in SUBSET Contents
  BY DEF Sessions
<1>. QED
  BY <1>1 DEF Wipe, Changes, Folders, Empty

(* Every step keeps the sessions self-contained.                           *)
LEMMA SessionsStep ==
    ASSUME TypeInv, FilesTrue, SessionIds, SessionsInv, [Next]_vars
    PROVE  SessionsInv'
<1>a. /\ mem \in Metadata /\ disk \in Metadata
      /\ folder \in Folders /\ op \in Operation
  BY DEF TypeInv, TypeOK, Operation, Folders
<1>b. /\ mem.sessions \subseteq Sessions /\ disk.sessions \subseteq Sessions
      /\ op.sessions \subseteq Sessions /\ mem.pcaps \subseteq Pcaps
      /\ op.pcaps \subseteq Pcaps /\ op.copied \subseteq Pcaps
      /\ mem.root \in Roots /\ op.root \in Roots /\ mem.nextSession \in Nat
      /\ workload.domains \subseteq Domains
  BY <1>a, StoreAssumption DEF TypeInv, TypeOK, Metadata, Operation
<1>c. \A s \in mem.sessions \cup disk.sessions : s.id # mem.nextSession
  BY <1>b DEF SessionIds, IdsOK, Sessions, Ids
<1>d. \A s, t \in mem.sessions \cup disk.sessions : s.id = t.id => s = t
  BY DEF SessionIds, IdsOK
<1>1. ASSUME NEW u \in Uploads, NEW d \in Domains, AddPcap(u, d)
      PROVE  SessionsInv'
  <2>1. op'.at \notin Foldering
    BY <1>1, <1>a, <1>b, IdleTyped, UnlinkingTyped DEF AddPcap, Foldering, Making, Idle, Operation
  <2>2. /\ mem'.sessions \subseteq mem.sessions \cup disk.sessions
        /\ disk'.sessions \subseteq mem.sessions \cup disk.sessions
    BY <1>1, <1>a DEF AddPcap, Metadata, Save, TrySave
  <2>. QED
    BY <1>1, <2>1, <2>2, OtherWork DEF AddPcap, history
<1>2. ASSUME WritePcap PROVE SessionsInv'
  <2>1. op'.at \notin Foldering
    BY <1>2, <1>a, <1>b, IdleTyped, UnlinkingTyped DEF WritePcap, Foldering, Making, Idle, Operation
  <2>2. /\ mem'.sessions \subseteq mem.sessions \cup disk.sessions
        /\ disk'.sessions \subseteq mem.sessions \cup disk.sessions
    BY <1>2, <1>a DEF WritePcap, Metadata, Save, TrySave
  <2>. QED
    BY <1>2, <2>1, <2>2, OtherWork DEF WritePcap, history
<1>3. ASSUME ShortWrite PROVE SessionsInv'
  <2>1. op'.at \notin Foldering
    BY <1>3, <1>a, <1>b, IdleTyped, UnlinkingTyped DEF ShortWrite, Foldering, Making, Idle, Operation
  <2>2. /\ mem'.sessions \subseteq mem.sessions \cup disk.sessions
        /\ disk'.sessions \subseteq mem.sessions \cup disk.sessions
    BY <1>3, <1>a DEF ShortWrite, Metadata, Save, TrySave
  <2>. QED
    BY <1>3, <2>1, <2>2, OtherWork DEF ShortWrite, history
<1>4. ASSUME SavePcap PROVE SessionsInv'
  <2>1. op'.at \notin Foldering
    BY <1>4, <1>a, <1>b, IdleTyped, UnlinkingTyped DEF SavePcap, Foldering, Making, Idle, Operation
  <2>2. /\ mem'.sessions \subseteq mem.sessions \cup disk.sessions
        /\ disk'.sessions \subseteq mem.sessions \cup disk.sessions
    BY <1>4, <1>a DEF SavePcap, Metadata, Save, TrySave
  <2>. QED
    BY <1>4, <2>1, <2>2, OtherWork DEF SavePcap, history
<1>5. ASSUME SavePcapFails PROVE SessionsInv'
  <2>1. op'.at \notin Foldering
    BY <1>5, <1>a, <1>b, IdleTyped, UnlinkingTyped DEF SavePcapFails, Foldering, Making, Idle, Operation
  <2>2. /\ mem'.sessions \subseteq mem.sessions \cup disk.sessions
        /\ disk'.sessions \subseteq mem.sessions \cup disk.sessions
    BY <1>5, <1>a DEF SavePcapFails, Metadata, Save, TrySave
  <2>. QED
    BY <1>5, <2>1, <2>2, OtherWork DEF SavePcapFails, history
<1>6. ASSUME NEW p \in mem.pcaps, RemovePcap(p)
      PROVE  SessionsInv'
  <2>1. op'.at \notin Foldering
    BY <1>6, <1>a, <1>b, IdleTyped, UnlinkingTyped DEF RemovePcap, Foldering, Making, Idle, Operation
  <2>2. /\ mem'.sessions \subseteq mem.sessions \cup disk.sessions
        /\ disk'.sessions \subseteq mem.sessions \cup disk.sessions
    BY <1>6, <1>a DEF RemovePcap, Metadata, Save, TrySave
  <2>. QED
    BY <1>6, <2>1, <2>2, OtherWork DEF RemovePcap, history
<1>7. ASSUME SaveRemoval PROVE SessionsInv'
  <2>1. op'.at \notin Foldering
    BY <1>7, <1>b, IdleTyped, UnlinkingTyped DEF SaveRemoval, Foldering, Making
  <2>2. /\ mem'.sessions \subseteq mem.sessions \cup disk.sessions
        /\ disk'.sessions \subseteq mem.sessions \cup disk.sessions
    BY <1>7, <1>a DEF SaveRemoval, Metadata, Save, TrySave
  <2>. QED
    BY <1>7, <2>1, <2>2, OtherWork DEF SaveRemoval, history
<1>8. ASSUME Unlink PROVE SessionsInv'
  <2>1. op'.at \notin Foldering
    BY <1>8 DEF Unlinking, Unlink, Foldering, Making, Idle
  <2>2. /\ mem'.sessions \subseteq mem.sessions \cup disk.sessions
        /\ disk'.sessions \subseteq mem.sessions \cup disk.sessions
    BY <1>8, <1>a DEF Unlink, Metadata, Save, TrySave
  <2>. QED
    BY <1>8, <2>1, <2>2, OtherWork DEF Unlink, history
<1>9. ASSUME NEW next \in Roots, SetPcapRoot(next)
      PROVE  SessionsInv'
  <2>1. op'.at \notin Foldering
    BY <1>9, <1>a, <1>b, IdleTyped, UnlinkingTyped DEF SetPcapRoot, Foldering, Making, Idle, Operation
  <2>2. /\ mem'.sessions \subseteq mem.sessions \cup disk.sessions
        /\ disk'.sessions \subseteq mem.sessions \cup disk.sessions
    BY <1>9, <1>a DEF SetPcapRoot, Metadata, Save, TrySave
  <2>. QED
    BY <1>9, <2>1, <2>2, OtherWork DEF SetPcapRoot, history
<1>10. ASSUME CopyPcap PROVE SessionsInv'
  <2>1. op'.at \notin Foldering
    BY <1>10, <1>a, <1>b, IdleTyped, UnlinkingTyped DEF CopyPcap, Foldering, Making, Idle, Operation
  <2>2. /\ mem'.sessions \subseteq mem.sessions \cup disk.sessions
        /\ disk'.sessions \subseteq mem.sessions \cup disk.sessions
    BY <1>10, <1>a DEF CopyPcap, Metadata, Save, TrySave
  <2>. QED
    BY <1>10, <2>1, <2>2, OtherWork DEF CopyPcap, history
<1>11. ASSUME CopyFails PROVE SessionsInv'
  <2>1. op'.at \notin Foldering
    BY <1>11, <1>a, <1>b, IdleTyped, UnlinkingTyped DEF CopyFails, Foldering, Making, Idle, Operation
  <2>2. /\ mem'.sessions \subseteq mem.sessions \cup disk.sessions
        /\ disk'.sessions \subseteq mem.sessions \cup disk.sessions
    BY <1>11, <1>a DEF CopyFails, Metadata, Save, TrySave
  <2>. QED
    BY <1>11, <2>1, <2>2, OtherWork DEF CopyFails, history
<1>12. ASSUME SaveRoot PROVE SessionsInv'
  <2>1. op'.at \notin Foldering
    BY <1>12, <1>b, UnlinkingTyped DEF SaveRoot, Foldering, Making
  <2>2. /\ mem'.sessions \subseteq mem.sessions \cup disk.sessions
        /\ disk'.sessions \subseteq mem.sessions \cup disk.sessions
    BY <1>12, <1>a DEF SaveRoot, Metadata, Save, TrySave
  <2>. QED
    BY <1>12, <2>1, <2>2, OtherWork DEF SaveRoot, history
<1>13. ASSUME NEW w \in Investigations, NEW pcaps \in SUBSET mem.pcaps, NEW d \in Domains,
             AddSession(w, pcaps, d)
      PROVE  SessionsInv'
  <2>. DEFINE s0 == [id |-> mem.nextSession, name |-> w, dom |-> d,
                     sources |-> {p.upload : p \in pcaps}]
  <2>1. op'.at = "capture" /\ op'.pcaps = pcaps /\ op'.sessions = {s0}
    BY <1>13 DEF AddSession, Idle
  <2>2. s0.sources = {p.upload : p \in pcaps}
    OBVIOUS
  <2>3. UNCHANGED <<mem, disk, folder, dropped>> /\ pcaps \subseteq mem.pcaps
    BY <1>13 DEF AddSession, history
  <2>. HIDE DEF s0
  <2>4. MakingOK'
    BY <2>1, <2>2, <2>3 DEF MakingOK
  <2>. QED
    BY <2>1, <2>3, <2>4 DEF SessionsInv, Whole
<1>14. ASSUME CopyCapture PROVE SessionsInv'
  <2>1. PICK t \in Sessions : op.sessions = {t} /\ t.id = mem.nextSession
    BY <1>14 DEF CopyCapture, TypeInv, SessionInHand, Making
  <2>2. UNCHANGED <<mem, disk, dropped>> /\ op.at = "capture"
    BY <1>14 DEF CopyCapture, history
  <2>. DEFINE read == {file[At(mem.root, p)] : p \in op.pcaps}
  <2>3. \/ /\ NoFile \notin read
           /\ folder' = [folder EXCEPT ![t.id].capture = read]
           /\ op' = [op EXCEPT !.at = IF Combined(t) THEN "sidecar" ELSE "register"]
        \/ /\ \/ UNCHANGED folder
              \/ folder' = [folder EXCEPT ![t.id].capture = {Part}]
           /\ op' = [op EXCEPT !.at = "discard"]
    BY <1>14, <2>1 DEF CopyCapture
  <2>4. op'.sessions = op.sessions /\ op'.at \in {"sidecar", "register", "discard"}
    BY <1>a, <2>3 DEF Operation
  <2>5. Changes(t)
    <3>1. read \subseteq Contents
      <4>1. file \in Library /\ \A p \in op.pcaps : At(mem.root, p) \in Paths
        BY <1>b, PathTyped DEF TypeInv, TypeOK, Library
      <4>. QED
        BY <4>1 DEF Library
    <3>. HIDE DEF read
    <3>. QED
      BY <1>a, <2>1, <2>3, <3>1 DEF Changes, Folders, Sessions, Contents
  <2>6. \A s \in (mem.sessions \cup disk.sessions)' : s.name \notin dropped' => Whole(s)'
    BY <1>b, <1>c, <2>1, <2>2, <2>5, OtherSessions
  <2>7. op'.at # "discard" => folder'[t.id].capture = t.sources
    <3>1. ASSUME op'.at # "discard"
          PROVE  NoFile \notin read /\ folder' = [folder EXCEPT ![t.id].capture = read]
      BY <1>a, <2>3, <3>1 DEF Operation
    <3>2. ASSUME op'.at # "discard", NEW p \in op.pcaps
          PROVE  file[At(mem.root, p)] = p.upload
      BY <2>2, <3>1, <3>2 DEF FilesTrue, SessionsInv, MakingOK
    <3>3. t.sources = {p.upload : p \in op.pcaps}
      BY <2>1, <2>2 DEF SessionsInv, MakingOK
    <3>4. op'.at # "discard" => read = t.sources
      BY <3>2, <3>3
    <3>. HIDE DEF read
    <3>. QED
      BY <1>a, <2>1, <3>1, <3>4 DEF Folders, Sessions
  <2>8. op'.at = "register" => ~ Combined(t)
    BY <1>a, <2>3 DEF Operation
  <2>9. MakingOK'
    BY <2>1, <2>4, <2>7, <2>8 DEF MakingOK, Whole
  <2>. QED
    BY <2>4, <2>6, <2>9 DEF SessionsInv
<1>15. ASSUME WriteSidecar PROVE SessionsInv'
  <2>1. PICK t \in Sessions : op.sessions = {t} /\ t.id = mem.nextSession
    BY <1>15 DEF WriteSidecar, TypeInv, SessionInHand, Making
  <2>2. UNCHANGED <<mem, disk, dropped>> /\ op.at = "sidecar"
    BY <1>15 DEF WriteSidecar, history
  <2>3. \/ /\ folder' = [folder EXCEPT ![t.id].sidecar = t.sources]
           /\ op' = [op EXCEPT !.at = "register"]
        \/ /\ \/ UNCHANGED folder
              \/ folder' = [folder EXCEPT ![t.id].sidecar = {Part}]
           /\ op' = [op EXCEPT !.at = "discard"]
    BY <1>15, <2>1 DEF WriteSidecar
  <2>4. op'.sessions = op.sessions /\ op'.at \in {"register", "discard"}
    BY <1>a, <2>3 DEF Operation
  <2>5. Changes(t)
    BY <1>a, <2>1, <2>3 DEF Changes, Folders, Sessions, Contents
  <2>6. \A s \in (mem.sessions \cup disk.sessions)' : s.name \notin dropped' => Whole(s)'
    BY <1>b, <1>c, <2>1, <2>2, <2>5, OtherSessions
  <2>7. op'.at = "register" => folder' = [folder EXCEPT ![t.id].sidecar = t.sources]
    BY <1>a, <2>3 DEF Operation
  <2>8. op'.at = "register" => Whole(t)'
    BY <1>a, <2>1, <2>2, <2>7 DEF SessionsInv, MakingOK, Whole, Folders, Sessions
  <2>9. MakingOK'
    BY <2>1, <2>4, <2>8 DEF MakingOK
  <2>. QED
    BY <2>4, <2>6, <2>9 DEF SessionsInv
<1>16. ASSUME Discard PROVE SessionsInv'
  <2>1. PICK t \in Sessions : op.sessions = {t} /\ t.id = mem.nextSession
    BY <1>16 DEF Discard, TypeInv, SessionInHand, Making
  <2>2. UNCHANGED <<mem, disk, dropped>> /\ op.at = "discard"
    BY <1>16 DEF Discard, history
  <2>3. op'.at \in {"idle", "discard"} /\ Wipe(t)
    BY <1>16, <2>1, <2>2, IdleTyped DEF Discard
  <2>4. \A s \in (mem.sessions \cup disk.sessions)' : s.name \notin dropped' => Whole(s)'
    BY <1>a, <1>b, <1>c, <2>1, <2>2, <2>3, OtherSessions, WipeChanges
  <2>5. MakingOK'
    BY <2>3 DEF MakingOK
  <2>. QED
    BY <2>3, <2>4, <2>5 DEF SessionsInv
<1>17. ASSUME Register PROVE SessionsInv'
  <2>1. /\ mem'.sessions = mem.sessions \cup op.sessions
        /\ disk' = mem' \/ disk' = disk
        /\ UNCHANGED <<folder, dropped>> /\ op.at = "register"
    BY <1>17, <1>a DEF Register, Metadata, history, Save, TrySave
  <2>2. \A s \in (mem.sessions \cup disk.sessions)' : s.name \notin dropped' => Whole(s)'
    BY <2>1 DEF SessionsInv, MakingOK, Whole
  <2>3. op'.at = "idle"
    BY <1>17, IdleTyped DEF Register
  <2>4. MakingOK'
    BY <2>3 DEF MakingOK
  <2>. QED
    BY <2>2, <2>3, <2>4 DEF SessionsInv
<1>18. ASSUME NEW s \in mem.sessions, RemoveSession(s)
      PROVE  SessionsInv'
  <2>1. /\ mem'.sessions \subseteq mem.sessions /\ UNCHANGED <<disk, folder>>
        /\ dropped' = dropped \cup {s.name}
    BY <1>18, <1>a DEF RemoveSession, Metadata
  <2>2. op'.at = "wipe" /\ op'.sessions = {s}
    BY <1>18 DEF RemoveSession, Idle
  <2>3. \A r \in (mem.sessions \cup disk.sessions)' : r.name \notin dropped' => Whole(r)'
    BY <2>1 DEF SessionsInv, Whole
  <2>4. \A r \in (mem.sessions \cup disk.sessions)' : r.id = s.id => r.name \in dropped'
    BY <1>d, <2>1
  <2>5. MakingOK'
    BY <2>2 DEF MakingOK
  <2>. QED
    BY <2>2, <2>3, <2>4, <2>5 DEF SessionsInv
<1>19. ASSUME NEW d \in mem.domains, NEW force \in BOOLEAN, RemoveDomain(d, force)
      PROVE  SessionsInv'
  <2>. DEFINE gone == {s \in mem.sessions : s.dom = d}
  <2>1. /\ mem'.sessions \subseteq mem.sessions /\ UNCHANGED <<disk, folder>>
        /\ dropped' = dropped \cup {s.name : s \in gone}
    BY <1>19, <1>a DEF RemoveDomain, Metadata
  <2>2. op'.at = "purge" /\ op'.sessions = gone
    BY <1>19 DEF RemoveDomain, Idle
  <2>3. \A r \in (mem.sessions \cup disk.sessions)' : r.name \notin dropped' => Whole(r)'
    BY <2>1 DEF SessionsInv, Whole
  <2>4. \A t \in gone, r \in (mem.sessions \cup disk.sessions)' :
          r.id = t.id => r.name \in dropped'
    BY <1>d, <2>1
  <2>5. MakingOK'
    BY <2>2 DEF MakingOK
  <2>. QED
    BY <2>2, <2>3, <2>4, <2>5 DEF SessionsInv
<1>20. ASSUME PurgePcap PROVE SessionsInv'
  <2>1. UNCHANGED <<mem, disk, folder, dropped>> /\ op.at = "purge"
    BY <1>20 DEF PurgePcap, history
  <2>2. op'.at = "purge" /\ op'.sessions = op.sessions
    BY <1>20, <1>a DEF PurgePcap, Operation
  <2>3. MakingOK'
    BY <2>2 DEF MakingOK
  <2>. QED
    BY <2>1, <2>2, <2>3 DEF SessionsInv, Whole
<1>21. ASSUME WipeSession PROVE SessionsInv'
  <2>1. UNCHANGED <<mem, disk, dropped>> /\ op.at \in {"wipe", "purge"}
    BY <1>21 DEF WipeSession, history
  <2>2. PICK t \in op.sessions :
          /\ Wipe(t)
          /\ op' = IF folder'[t.id] # Empty THEN op
                   ELSE IF op.at = "wipe" THEN [Idle EXCEPT !.at = "publish"]
                   ELSE [op EXCEPT !.sessions = @ \ {t}]
    BY <1>21 DEF WipeSession
  <2>3. \/ op'.at = "publish"
        \/ op'.at = op.at /\ op'.sessions \subseteq op.sessions
    BY <1>a, <2>2 DEF Operation, Idle
  <2>4. \A s \in mem.sessions \cup disk.sessions : s.id = t.id => s.name \in dropped
    BY <2>1, <2>2 DEF SessionsInv
  <2>5. \A s \in (mem.sessions \cup disk.sessions)' : s.name \notin dropped' => Whole(s)'
    BY <1>a, <1>b, <2>1, <2>2, <2>4, OtherSessions, WipeChanges
  <2>6. MakingOK'
    BY <2>1, <2>3 DEF MakingOK
  <2>. QED
    BY <2>1, <2>3, <2>5, <2>6 DEF SessionsInv
<1>22. ASSUME RemoveTree PROVE SessionsInv'
  <2>1. op'.at \notin Foldering
    BY <1>22, <1>a, <1>b, IdleTyped, UnlinkingTyped DEF RemoveTree, Foldering, Making, Idle, Operation
  <2>2. /\ mem'.sessions \subseteq mem.sessions \cup disk.sessions
        /\ disk'.sessions \subseteq mem.sessions \cup disk.sessions
    BY <1>22, <1>a DEF RemoveTree, Metadata, Save, TrySave
  <2>. QED
    BY <1>22, <2>1, <2>2, OtherWork DEF RemoveTree, history
<1>23. ASSUME Publish PROVE SessionsInv'
  <2>1. op'.at \notin Foldering
    BY <1>23, <1>a, <1>b, IdleTyped, UnlinkingTyped DEF Publish, Foldering, Making, Idle, Operation
  <2>2. /\ mem'.sessions \subseteq mem.sessions \cup disk.sessions
        /\ disk'.sessions \subseteq mem.sessions \cup disk.sessions
    BY <1>23, <1>a DEF Publish, Metadata, Save, TrySave
  <2>. QED
    BY <1>23, <2>1, <2>2, OtherWork DEF Publish, history
<1>24. ASSUME NEW d \in Domains, AddDomain(d)
      PROVE  SessionsInv'
  <2>1. op'.at \notin Foldering
    BY <1>24, <1>a, <1>b, IdleTyped, UnlinkingTyped DEF AddDomain, Foldering, Making, Idle, Operation
  <2>2. /\ mem'.sessions \subseteq mem.sessions \cup disk.sessions
        /\ disk'.sessions \subseteq mem.sessions \cup disk.sessions
    BY <1>24, <1>a DEF AddDomain, Metadata, Save, TrySave
  <2>. QED
    BY <1>24, <2>1, <2>2, OtherWork DEF AddDomain, history
<1>25. ASSUME EditMeta PROVE SessionsInv'
  <2>1. op'.at \notin Foldering
    BY <1>25, <1>a, <1>b, IdleTyped, UnlinkingTyped DEF EditMeta, Foldering, Making, Idle, Operation
  <2>2. /\ mem'.sessions \subseteq mem.sessions \cup disk.sessions
        /\ disk'.sessions \subseteq mem.sessions \cup disk.sessions
    BY <1>25, <1>a DEF EditMeta, Metadata, Save, TrySave
  <2>. QED
    BY <1>25, <2>1, <2>2, OtherWork DEF EditMeta, history
<1>26. ASSUME Restart PROVE SessionsInv'
  <2>1. op'.at \notin Foldering
    BY <1>26, <1>a, <1>b, IdleTyped, UnlinkingTyped DEF Restart, Foldering, Making, Idle, Operation
  <2>2. /\ mem'.sessions \subseteq mem.sessions \cup disk.sessions
        /\ disk'.sessions \subseteq mem.sessions \cup disk.sessions
    BY <1>26, <1>a DEF Restart, Metadata, Save, TrySave
  <2>. QED
    BY <1>26, <2>1, <2>2, OtherWork DEF Restart, history
<1>27. ASSUME UNCHANGED vars PROVE SessionsInv'
  BY <1>27 DEF vars, history, answers, SessionsInv, MakingOK, Whole
<1>28. ASSUME NEW p \in due, Answer(p) PROVE SessionsInv'
  BY <1>28 DEF Answer, SessionsInv, MakingOK, Whole
<1>. QED
  BY <1>b, <1>1, <1>2, <1>3, <1>4, <1>5, <1>6, <1>7, <1>8, <1>9, <1>10, <1>11, <1>12, <1>13, <1>14, <1>15, <1>16, <1>17, <1>18, <1>19, <1>20, <1>21, <1>22, <1>23, <1>24, <1>25, <1>26, <1>27, <1>28 DEF Next, Start, Step
-----------------------------------------------------------------------------
(***************************************************************************)
(* The library as its users see it.                                        *)
(***************************************************************************)
(* What is in memory was saved, but for the upload in hand; what was       *)
(* removed was saved before and is neither in memory nor on disk.          *)
Listing ==
    /\ disk.pcaps \subseteq saved
    /\ op.at # "added" => mem.pcaps \subseteq saved
    /\ op.at = "added" =>
         \E p : op.pcaps = {p} /\ p \notin saved /\ mem.pcaps \subseteq saved \cup {p}

Removing ==
    /\ removed \subseteq saved \ (mem.pcaps \cup disk.pcaps)
    /\ op.at = "erased" => \E p \in saved \ mem.pcaps : op.pcaps = {p}

ShelfInv == Listing /\ Removing

(* A step that neither adds to what is listed nor takes from it. *)
Elsewhere ==
    /\ op.at # "added" /\ op'.at \notin {"added", "erased"}
    /\ mem'.pcaps = mem.pcaps
    /\ disk'.pcaps \in {disk.pcaps, mem.pcaps}
    /\ UNCHANGED <<saved, acked, kept, removed>>

(* Eight actions and no other change what is listed or known to users.     *)
LEMMA StepKinds ==
    ASSUME TypeInv, [Next]_vars
    PROVE  \/ Elsewhere
           \/ WritePcap \/ SavePcap \/ SavePcapFails
           \/ \E p \in mem.pcaps : RemovePcap(p)
           \/ SaveRemoval
           \/ \E d \in mem.domains, force \in BOOLEAN : RemoveDomain(d, force)
           \/ Restart \/ (\E p \in due : Answer(p)) \/ UNCHANGED vars
<1>a. /\ mem \in Metadata /\ disk \in Metadata /\ op \in Operation
      /\ op.pcaps \subseteq Pcaps /\ op.copied \subseteq Pcaps
      /\ mem.pcaps \subseteq Pcaps /\ mem.root \in Roots /\ op.root \in Roots
  BY DEF TypeInv, TypeOK, Operation, Metadata
<1>b. workload.domains \subseteq Domains
  BY StoreAssumption DEF TypeInv, TypeOK
<1>1. ASSUME NEW u \in Uploads, NEW d \in Domains, AddPcap(u, d)
      PROVE  Elsewhere
  <2>1. op.at # "added" /\ op'.at \notin {"added", "erased"}
    BY <1>a, <1>1, IdleTyped DEF AddPcap, Idle, Operation
  <2>2. mem'.pcaps = mem.pcaps /\ disk'.pcaps \in {disk.pcaps, mem.pcaps}
    BY <1>a, <1>1 DEF AddPcap, Save, TrySave, history, Metadata
  <2>. QED
    BY <1>1, <2>1, <2>2 DEF AddPcap, Elsewhere, history, answers
<1>2. ASSUME ShortWrite PROVE Elsewhere
  <2>1. op.at # "added" /\ op'.at \notin {"added", "erased"}
    BY <1>a, <1>2, IdleTyped DEF ShortWrite, Idle, Operation
  <2>2. mem'.pcaps = mem.pcaps /\ disk'.pcaps \in {disk.pcaps, mem.pcaps}
    BY <1>a, <1>2 DEF ShortWrite, Save, TrySave, history, Metadata
  <2>. QED
    BY <1>2, <2>1, <2>2 DEF ShortWrite, Elsewhere, history, answers
<1>3. ASSUME Unlink PROVE Elsewhere
  <2>1. op.at # "added" /\ op'.at \notin {"added", "erased"}
    BY <1>a, <1>3, IdleTyped, UnlinkingTyped DEF Unlink
  <2>2. mem'.pcaps = mem.pcaps /\ disk'.pcaps \in {disk.pcaps, mem.pcaps}
    BY <1>a, <1>3 DEF Unlink, Save, TrySave, history, Metadata
  <2>. QED
    BY <1>3, <2>1, <2>2 DEF Unlink, Elsewhere, history, answers
<1>4. ASSUME NEW next \in Roots, SetPcapRoot(next)
      PROVE  Elsewhere
  <2>1. op.at # "added" /\ op'.at \notin {"added", "erased"}
    BY <1>a, <1>4, IdleTyped DEF SetPcapRoot, Idle, Operation
  <2>2. mem'.pcaps = mem.pcaps /\ disk'.pcaps \in {disk.pcaps, mem.pcaps}
    BY <1>a, <1>4 DEF SetPcapRoot, Save, TrySave, history, Metadata
  <2>. QED
    BY <1>4, <2>1, <2>2 DEF SetPcapRoot, Elsewhere, history, answers
<1>5. ASSUME CopyPcap PROVE Elsewhere
  <2>1. op.at # "added" /\ op'.at \notin {"added", "erased"}
    BY <1>a, <1>5, IdleTyped DEF CopyPcap, Idle, Operation
  <2>2. mem'.pcaps = mem.pcaps /\ disk'.pcaps \in {disk.pcaps, mem.pcaps}
    BY <1>a, <1>5 DEF CopyPcap, Save, TrySave, history, Metadata
  <2>. QED
    BY <1>5, <2>1, <2>2 DEF CopyPcap, Elsewhere, history, answers
<1>6. ASSUME CopyFails PROVE Elsewhere
  <2>1. op.at # "added" /\ op'.at \notin {"added", "erased"}
    BY <1>a, <1>6, IdleTyped, UnlinkingTyped DEF CopyFails
  <2>2. mem'.pcaps = mem.pcaps /\ disk'.pcaps \in {disk.pcaps, mem.pcaps}
    BY <1>a, <1>6 DEF CopyFails, Save, TrySave, history, Metadata
  <2>. QED
    BY <1>6, <2>1, <2>2 DEF CopyFails, Elsewhere, history, answers
<1>7. ASSUME SaveRoot PROVE Elsewhere
  <2>1. op.at # "added" /\ op'.at \notin {"added", "erased"}
    BY <1>a, <1>7, IdleTyped, UnlinkingTyped DEF SaveRoot
  <2>2. mem'.pcaps = mem.pcaps /\ disk'.pcaps \in {disk.pcaps, mem.pcaps}
    BY <1>a, <1>7 DEF SaveRoot, Save, TrySave, history, Metadata
  <2>. QED
    BY <1>7, <2>1, <2>2 DEF SaveRoot, Elsewhere, history, answers
<1>8. ASSUME NEW w \in Investigations, NEW pcaps \in SUBSET mem.pcaps, NEW d \in Domains,
             AddSession(w, pcaps, d)
      PROVE  Elsewhere
  <2>1. op.at # "added" /\ op'.at \notin {"added", "erased"}
    BY <1>a, <1>8, IdleTyped DEF AddSession, Idle, Operation
  <2>2. mem'.pcaps = mem.pcaps /\ disk'.pcaps \in {disk.pcaps, mem.pcaps}
    BY <1>a, <1>8 DEF AddSession, Save, TrySave, history, Metadata
  <2>. QED
    BY <1>8, <2>1, <2>2 DEF AddSession, Elsewhere, history, answers
<1>9. ASSUME CopyCapture PROVE Elsewhere
  <2>1. op.at # "added" /\ op'.at \notin {"added", "erased"}
    BY <1>a, <1>9, IdleTyped DEF CopyCapture, Idle, Operation
  <2>2. mem'.pcaps = mem.pcaps /\ disk'.pcaps \in {disk.pcaps, mem.pcaps}
    BY <1>a, <1>9 DEF CopyCapture, Save, TrySave, history, Metadata
  <2>. QED
    BY <1>9, <2>1, <2>2 DEF CopyCapture, Elsewhere, history, answers
<1>10. ASSUME WriteSidecar PROVE Elsewhere
  <2>1. op.at # "added" /\ op'.at \notin {"added", "erased"}
    BY <1>a, <1>10, IdleTyped DEF WriteSidecar, Idle, Operation
  <2>2. mem'.pcaps = mem.pcaps /\ disk'.pcaps \in {disk.pcaps, mem.pcaps}
    BY <1>a, <1>10 DEF WriteSidecar, Save, TrySave, history, Metadata
  <2>. QED
    BY <1>10, <2>1, <2>2 DEF WriteSidecar, Elsewhere, history, answers
<1>11. ASSUME Discard PROVE Elsewhere
  <2>1. op.at # "added" /\ op'.at \notin {"added", "erased"}
    BY <1>a, <1>11, IdleTyped DEF Discard, Idle, Operation
  <2>2. mem'.pcaps = mem.pcaps /\ disk'.pcaps \in {disk.pcaps, mem.pcaps}
    BY <1>a, <1>11 DEF Discard, Save, TrySave, history, Metadata
  <2>. QED
    BY <1>11, <2>1, <2>2 DEF Discard, Elsewhere, history, answers
<1>12. ASSUME Register PROVE Elsewhere
  <2>1. op.at # "added" /\ op'.at \notin {"added", "erased"}
    BY <1>a, <1>12, IdleTyped DEF Register, Idle, Operation
  <2>2. mem'.pcaps = mem.pcaps /\ disk'.pcaps \in {disk.pcaps, mem.pcaps}
    BY <1>a, <1>12 DEF Register, Save, TrySave, history, Metadata
  <2>. QED
    BY <1>12, <2>1, <2>2 DEF Register, Elsewhere, history, answers
<1>13. ASSUME NEW s \in mem.sessions, RemoveSession(s)
      PROVE  Elsewhere
  <2>1. op.at # "added" /\ op'.at \notin {"added", "erased"}
    BY <1>a, <1>13, IdleTyped DEF RemoveSession, Idle, Operation
  <2>2. mem'.pcaps = mem.pcaps /\ disk'.pcaps \in {disk.pcaps, mem.pcaps}
    BY <1>a, <1>13 DEF RemoveSession, Save, TrySave, history, Metadata
  <2>. QED
    BY <1>13, <2>1, <2>2 DEF RemoveSession, Elsewhere, history, answers
<1>14. ASSUME PurgePcap PROVE Elsewhere
  <2>1. op.at # "added" /\ op'.at \notin {"added", "erased"}
    BY <1>a, <1>14, IdleTyped DEF PurgePcap, Idle, Operation
  <2>2. mem'.pcaps = mem.pcaps /\ disk'.pcaps \in {disk.pcaps, mem.pcaps}
    BY <1>a, <1>14 DEF PurgePcap, Save, TrySave, history, Metadata
  <2>. QED
    BY <1>14, <2>1, <2>2 DEF PurgePcap, Elsewhere, history, answers
<1>15. ASSUME WipeSession PROVE Elsewhere
  <2>1. op.at # "added" /\ op'.at \notin {"added", "erased"}
    BY <1>a, <1>15, IdleTyped DEF WipeSession, Idle, Operation
  <2>2. mem'.pcaps = mem.pcaps /\ disk'.pcaps \in {disk.pcaps, mem.pcaps}
    BY <1>a, <1>15 DEF WipeSession, Save, TrySave, history, Metadata
  <2>. QED
    BY <1>15, <2>1, <2>2 DEF WipeSession, Elsewhere, history, answers
<1>16. ASSUME RemoveTree PROVE Elsewhere
  <2>1. op.at # "added" /\ op'.at \notin {"added", "erased"}
    BY <1>a, <1>16, IdleTyped DEF RemoveTree, Idle, Operation
  <2>2. mem'.pcaps = mem.pcaps /\ disk'.pcaps \in {disk.pcaps, mem.pcaps}
    BY <1>a, <1>16 DEF RemoveTree, Save, TrySave, history, Metadata
  <2>. QED
    BY <1>16, <2>1, <2>2 DEF RemoveTree, Elsewhere, history, answers
<1>17. ASSUME Publish PROVE Elsewhere
  <2>1. op.at # "added" /\ op'.at \notin {"added", "erased"}
    BY <1>a, <1>17, IdleTyped DEF Publish, Idle, Operation
  <2>2. mem'.pcaps = mem.pcaps /\ disk'.pcaps \in {disk.pcaps, mem.pcaps}
    BY <1>a, <1>17 DEF Publish, Save, TrySave, history, Metadata
  <2>. QED
    BY <1>17, <2>1, <2>2 DEF Publish, Elsewhere, history, answers
<1>18. ASSUME NEW d \in Domains, AddDomain(d)
      PROVE  Elsewhere
  <2>1. op.at # "added" /\ op'.at \notin {"added", "erased"}
    BY <1>a, <1>18, IdleTyped DEF AddDomain, Idle, Operation
  <2>2. mem'.pcaps = mem.pcaps /\ disk'.pcaps \in {disk.pcaps, mem.pcaps}
    BY <1>a, <1>18 DEF AddDomain, Save, TrySave, history, Metadata
  <2>. QED
    BY <1>18, <2>1, <2>2 DEF AddDomain, Elsewhere, history, answers
<1>19. ASSUME EditMeta PROVE Elsewhere
  <2>1. op.at # "added" /\ op'.at \notin {"added", "erased"}
    BY <1>a, <1>19, IdleTyped DEF EditMeta, Idle, Operation
  <2>2. mem'.pcaps = mem.pcaps /\ disk'.pcaps \in {disk.pcaps, mem.pcaps}
    BY <1>a, <1>19 DEF EditMeta, Save, TrySave, history, Metadata
  <2>. QED
    BY <1>19, <2>1, <2>2 DEF EditMeta, Elsewhere, history, answers
<1>. QED
  BY <1>b, <1>1, <1>2, <1>3, <1>4, <1>5, <1>6, <1>7, <1>8, <1>9, <1>10, <1>11, <1>12, <1>13, <1>14, <1>15, <1>16, <1>17, <1>18, <1>19 DEF Next, Start, Step

(* Every step keeps what is listed within what was saved, and what was     *)
(* removed out of it.                                                      *)
LEMMA ShelfStep ==
    ASSUME TypeInv, PcapIds, ShelfInv, [Next]_vars
    PROVE  ShelfInv'
<1>a. /\ mem \in Metadata /\ disk \in Metadata /\ op \in Operation
      /\ mem.nextPcap \in Nat /\ saved \subseteq Pcaps
      /\ \A e \in saved : e.id \in Nat
  BY DEF TypeInv, TypeOK, Operation, Metadata, Pcaps, Ids
<1>b. \A e \in saved : e.id # mem.nextPcap
  BY <1>a DEF PcapIds, IdsOK
<1>c. Listing /\ Removing
  BY DEF ShelfInv
<1>1. ASSUME Elsewhere PROVE ShelfInv'
  BY <1>c, <1>1 DEF Elsewhere, ShelfInv, Listing, Removing
<1>2. ASSUME WritePcap PROVE ShelfInv'
  <2>1. PICK p \in op.pcaps : /\ mem' = [mem EXCEPT !.nextPcap = @ + 1, !.pcaps = @ \cup {p}]
                              /\ op' = [op EXCEPT !.at = "added"]
    BY <1>2 DEF WritePcap
  <2>2. op.pcaps = {p} /\ p \notin saved /\ op.at = "write"
    BY <1>2, <1>b, <2>1 DEF WritePcap, TypeInv, PcapInHand
  <2>3. mem'.pcaps = mem.pcaps \cup {p} /\ op'.at = "added" /\ op'.pcaps = {p}
    BY <1>a, <2>1, <2>2 DEF Metadata, Operation
  <2>4. UNCHANGED <<disk, saved, kept, removed>>
    BY <1>2 DEF WritePcap, history
  <2>. QED
    BY <1>c, <2>2, <2>3, <2>4 DEF ShelfInv, Listing, Removing
<1>3. ASSUME SavePcap PROVE ShelfInv'
  <2>1. /\ op.at = "added" /\ op'.at = "idle" /\ disk' = mem /\ UNCHANGED <<mem, removed>>
        /\ saved' = saved \cup op.pcaps
    BY <1>3, IdleTyped DEF SavePcap, Save
  <2>. QED
    BY <1>c, <2>1 DEF ShelfInv, Listing, Removing
<1>4. ASSUME SavePcapFails PROVE ShelfInv'
  <2>1. PICK p \in op.pcaps : mem' = [mem EXCEPT !.pcaps = @ \ {p}]
    BY <1>4 DEF SavePcapFails
  <2>2. mem'.pcaps = mem.pcaps \ {p}
    BY <1>a, <2>1 DEF Metadata
  <2>3. op.at = "added" /\ op'.at = "idle" /\ UNCHANGED <<disk, saved, removed>>
    BY <1>4, IdleTyped DEF SavePcapFails, history
  <2>. QED
    BY <1>c, <2>1, <2>2, <2>3 DEF ShelfInv, Listing, Removing
<1>5. ASSUME NEW p \in mem.pcaps, RemovePcap(p)
      PROVE  ShelfInv'
  <2>1. mem'.pcaps = mem.pcaps \ {p}
    BY <1>5, <1>a DEF RemovePcap, Metadata
  <2>2. op.at = "idle" /\ op'.at = "erased" /\ op'.pcaps = {p}
    BY <1>5, IdleTyped DEF RemovePcap, Idle
  <2>3. UNCHANGED <<disk, saved, removed>>
    BY <1>5 DEF RemovePcap
  <2>. QED
    BY <1>c, <2>1, <2>2, <2>3 DEF ShelfInv, Listing, Removing
<1>6. ASSUME SaveRemoval PROVE ShelfInv'
  <2>1. /\ op.at = "erased" /\ UNCHANGED <<mem, saved>>
        /\ \/ disk' = mem /\ removed' = removed \cup op.pcaps
           \/ UNCHANGED <<disk, removed>>
    BY <1>6 DEF SaveRemoval, Save
  <2>2. op'.at \in {"idle", "unlink"}
    <3>1. op.pcaps \in SUBSET Pcaps /\ mem.root \in Roots
      BY <1>a DEF Operation, Metadata
    <3>2. op' = Idle \/ op' = Unlinking(op.pcaps, mem.root)
      BY <1>6 DEF SaveRemoval
    <3>. QED
      BY <3>1, <3>2, IdleTyped, UnlinkingTyped
  <2>. QED
    BY <1>c, <2>1, <2>2 DEF ShelfInv, Listing, Removing
<1>7. ASSUME NEW d \in mem.domains, NEW force \in BOOLEAN, RemoveDomain(d, force)
      PROVE  ShelfInv'
  <2>1. mem'.pcaps \subseteq mem.pcaps
    BY <1>7, <1>a DEF RemoveDomain, Metadata
  <2>2. op.at = "idle" /\ op'.at = "purge" /\ UNCHANGED <<disk, saved, removed>>
    BY <1>7, IdleTyped DEF RemoveDomain, Idle
  <2>. QED
    BY <1>c, <2>1, <2>2 DEF ShelfInv, Listing, Removing
<1>8. ASSUME Restart PROVE ShelfInv'
  <2>1. mem'.pcaps = disk.pcaps
    BY <1>8, <1>a DEF Restart, Metadata
  <2>2. op'.at = "idle" /\ UNCHANGED <<disk, saved, removed>>
    BY <1>8, IdleTyped DEF Restart, history
  <2>. QED
    BY <1>c, <2>1, <2>2 DEF ShelfInv, Listing, Removing
<1>9. ASSUME NEW p \in due, Answer(p) PROVE ShelfInv'
  BY <1>c, <1>9 DEF Answer, ShelfInv, Listing, Removing
<1>10. ASSUME UNCHANGED vars PROVE ShelfInv'
  BY <1>c, <1>10 DEF vars, history, ShelfInv, Listing, Removing
<1>. QED
  BY <1>1, <1>2, <1>3, <1>4, <1>5, <1>6, <1>7, <1>8, <1>9, <1>10, StepKinds

(* The captures whose bytes are where the server looks. *)
Readable == {p \in Listed : file[At(mem.root, p)] = p.upload}

(* Every step is a step of the library, or its users see nothing of it.    *)
LEMMA LibraryMoves ==
    ASSUME TypeInv, PcapIds, LibraryInv, LibraryInv', ShelfInv, ShelfInv', [Next]_vars
    PROVE  Shelf!Next \/ UNCHANGED Shelf!libraryVars
<1>a. /\ mem \in Metadata /\ disk \in Metadata /\ op \in Operation /\ file \in Library
      /\ saved \subseteq Pcaps /\ mem.pcaps \subseteq Pcaps /\ due \subseteq saved
  BY DEF TypeInv, TypeOK, Operation, Metadata, Library
<1>b. Listing /\ Listing' /\ Removing /\ Kept /\ Kept' /\ Added
  BY DEF ShelfInv, LibraryInv
<1>c. kept \subseteq saved
  BY DEF TypeInv, TypeOK
<1>d. Listed \subseteq mem.pcaps /\ Listed \subseteq saved /\ kept \subseteq Listed
  BY <1>b, <1>c DEF Listing, Listed, Kept
<1>e. kept \subseteq Readable /\ Readable \subseteq Listed
  BY <1>b, <1>d DEF Kept, Readable
<1>1. ASSUME Listed' = Listed, UNCHANGED <<saved, acked, kept, removed>>
      PROVE  Shelf!Next
  <2>1. kept \subseteq Readable' /\ Readable' \subseteq Listed
    BY <1>1, <1>b, <1>d DEF Kept, Readable
  <2>2. Shelf!Move
    BY <1>1, <2>1 DEF Shelf!Move, Readable
  <2>. QED
    BY <2>2 DEF Shelf!Next
<1>2. ASSUME Elsewhere PROVE Shelf!Next
  <2>1. Listed' = Listed
    BY <1>2 DEF Elsewhere, Listed
  <2>2. UNCHANGED <<saved, acked, kept, removed>>
    BY <1>2 DEF Elsewhere
  <2>. QED
    BY <1>1, <2>1, <2>2
<1>3. ASSUME WritePcap PROVE Shelf!Next
  <2>1. PICK p \in op.pcaps : /\ mem' = [mem EXCEPT !.nextPcap = @ + 1, !.pcaps = @ \cup {p}]
                              /\ op' = [op EXCEPT !.at = "added"]
    BY <1>3 DEF WritePcap
  <2>2. op.pcaps = {p} /\ op.at = "write"
    BY <1>3, <2>1 DEF WritePcap, TypeInv, PcapInHand
  <2>3. mem'.pcaps = mem.pcaps \cup {p} /\ op'.at = "added" /\ op'.pcaps = {p}
    BY <1>a, <2>1, <2>2 DEF Metadata, Operation
  <2>4. UNCHANGED <<saved, acked, kept, removed>>
    BY <1>3 DEF WritePcap, history, answers
  <2>5. p \notin mem.pcaps
    BY <1>b, <2>2, <2>3, <2>4 DEF Listing
  <2>6. Listed' = Listed
    BY <2>2, <2>3, <2>5 DEF Listed
  <2>. QED
    BY <1>1, <2>4, <2>6
<1>4. ASSUME SavePcap PROVE Shelf!Next
  <2>1. /\ op.at = "added" /\ op'.at = "idle" /\ UNCHANGED <<mem, file, acked, removed>>
        /\ saved' = saved \cup op.pcaps /\ kept' = kept \cup op.pcaps
        /\ op.pcaps \subseteq mem.pcaps
    BY <1>4, IdleTyped DEF SavePcap, TypeInv, PcapInHand
  <2>2. PICK p \in mem.pcaps : op.pcaps = {p} /\ p \notin saved
    BY <1>b, <2>1 DEF Listing
  <2>3. \A q \in saved : q.id # p.id
    BY <2>2 DEF PcapIds, IdsOK
  <2>4. Listed = mem.pcaps \ {p} /\ Listed' = mem.pcaps
    BY <2>1, <2>2 DEF Listed
  <2>5. Listed' = Listed \cup {p}
    BY <2>2, <2>4
  <2>6. file[At(mem.root, p)] = p.upload
    BY <1>b, <2>1, <2>2 DEF Added
  <2>7. Readable' = Readable \cup {p}
    BY <2>1, <2>5, <2>6 DEF Readable
  <2>8. Shelf!Upload(p)
    BY <2>1, <2>2, <2>3, <2>5, <2>7 DEF Shelf!Upload, Readable
  <2>. QED
    BY <1>a, <2>2, <2>8 DEF Shelf!Next
<1>5. ASSUME SavePcapFails PROVE Shelf!Next
  <2>1. PICK p \in op.pcaps : mem' = [mem EXCEPT !.pcaps = @ \ {p}]
    BY <1>5 DEF SavePcapFails
  <2>2. op.pcaps = {p} /\ op.at = "added" /\ op'.at = "idle"
    BY <1>5, <1>b, <2>1, IdleTyped DEF SavePcapFails, Listing
  <2>3. mem'.pcaps = mem.pcaps \ {p}
    BY <1>a, <2>1 DEF Metadata
  <2>4. Listed' = Listed
    BY <2>2, <2>3 DEF Listed
  <2>5. UNCHANGED <<saved, acked, kept, removed>>
    BY <1>5 DEF SavePcapFails, history, answers
  <2>. QED
    BY <1>1, <2>4, <2>5
<1>6. ASSUME NEW some \in SUBSET mem.pcaps, op = Idle, op'.at # "added",
             mem'.pcaps = mem.pcaps \ some, mem'.root = mem.root,
             kept' = kept \ some, UNCHANGED <<file, saved, acked, removed>>
      PROVE  Shelf!Next
  <2>1. Listed = mem.pcaps /\ Listed' = Listed \ some
    BY <1>6, IdleTyped DEF Listed
  <2>2. Readable' = Readable \ some
    BY <1>6, <2>1 DEF Readable
  <2>3. Shelf!AskToRemove(some)
    BY <1>6, <2>1, <2>2 DEF Shelf!AskToRemove, Readable
  <2>. QED
    BY <2>1, <2>3 DEF Shelf!Next
<1>7. ASSUME NEW p \in mem.pcaps, RemovePcap(p)
      PROVE  Shelf!Next
  <2>1. mem'.pcaps = mem.pcaps \ {p} /\ mem'.root = mem.root
    BY <1>7, <1>a DEF RemovePcap, Metadata
  <2>2. op = Idle /\ op'.at = "erased" /\ kept' = kept \ {p}
        /\ UNCHANGED <<file, saved, acked, removed>>
    BY <1>7 DEF RemovePcap, answers, Idle
  <2>. QED
    BY <1>6, <2>1, <2>2
<1>8. ASSUME SaveRemoval PROVE Shelf!Next
  <2>1. op.at = "erased" /\ UNCHANGED <<mem, file, saved, acked, kept>>
    BY <1>8 DEF SaveRemoval, answers
  <2>2. PICK p \in saved \ mem.pcaps : op.pcaps = {p}
    BY <1>b, <2>1 DEF Removing
  <2>3. op'.at # "added"
    <3>1. op.pcaps \in SUBSET Pcaps /\ mem.root \in Roots
      BY <1>a DEF Operation, Metadata
    <3>2. op' = Idle \/ op' = Unlinking(op.pcaps, mem.root)
      BY <1>8 DEF SaveRemoval
    <3>. QED
      BY <3>1, <3>2, IdleTyped, UnlinkingTyped
  <2>4. Listed' = Listed /\ p \notin Listed \cup kept
    BY <1>d, <2>1, <2>2, <2>3 DEF Listed
  <2>5. Readable' = Readable
    BY <2>1, <2>4 DEF Readable
  <2>6. CASE removed' = removed \cup op.pcaps
    <3>1. Shelf!Remove(p)
      BY <2>1, <2>2, <2>4, <2>5, <2>6 DEF Shelf!Remove, Readable
    <3>. QED
      BY <2>2, <3>1 DEF Shelf!Next
  <2>7. CASE UNCHANGED removed
    BY <1>1, <2>1, <2>4, <2>7
  <2>. QED
    BY <1>8, <2>6, <2>7 DEF SaveRemoval
<1>9. ASSUME NEW d \in mem.domains, NEW force \in BOOLEAN, RemoveDomain(d, force)
      PROVE  Shelf!Next
  <2>. DEFINE some == {p \in mem.pcaps : p.dom = d}
  <2>1. mem'.pcaps = mem.pcaps \ some /\ mem'.root = mem.root
    BY <1>9, <1>a DEF RemoveDomain, Metadata
  <2>2. op = Idle /\ op'.at = "purge" /\ kept' = kept \ some
        /\ UNCHANGED <<file, saved, acked, removed>>
    BY <1>9 DEF RemoveDomain, answers, Idle
  <2>3. some \in SUBSET mem.pcaps
    OBVIOUS
  <2>. HIDE DEF some
  <2>. QED
    BY <1>6, <2>1, <2>2, <2>3
<1>10. ASSUME Restart PROVE Shelf!Next
  <2>1. mem'.pcaps = disk.pcaps /\ op'.at = "idle"
    BY <1>10, <1>a, IdleTyped DEF Restart, Metadata
  <2>2. UNCHANGED <<saved, acked, kept, removed>>
    BY <1>10 DEF Restart
  <2>3. Listed' = disk.pcaps
    BY <2>1 DEF Listed
  <2>4. Listed' \subseteq saved \ removed
    BY <1>b, <2>3 DEF Listing, Removing
  <2>5. kept \subseteq Readable' /\ Readable' \subseteq Listed'
    BY <1>b, <2>1, <2>2 DEF Kept, Readable, Listed
  <2>6. Shelf!Restart
    BY <2>2, <2>4, <2>5 DEF Shelf!Restart, Readable
  <2>. QED
    BY <2>6 DEF Shelf!Next
<1>11. ASSUME NEW p \in due, Answer(p) PROVE Shelf!Next
  <2>1. /\ UNCHANGED <<mem, op, file, saved, kept, removed>>
        /\ acked' = acked \cup {p}
    BY <1>11 DEF Answer
  <2>2. Listed' = Listed /\ Readable' = Readable
    BY <2>1 DEF Listed, Readable
  <2>3. Shelf!Answer(p)
    BY <2>1, <2>2 DEF Shelf!Answer, Readable
  <2>. QED
    BY <1>a, <2>3 DEF Shelf!Next
<1>12. ASSUME UNCHANGED vars PROVE UNCHANGED Shelf!libraryVars
  BY <1>12 DEF vars, history, answers, Shelf!libraryVars, Listed
<1>. QED
  BY <1>2, <1>3, <1>4, <1>5, <1>7, <1>8, <1>9, <1>10, <1>11, <1>12, StepKinds
-----------------------------------------------------------------------------
(***************************************************************************)
(* The theorems.                                                           *)
(***************************************************************************)
(* In the beginning there is nothing. *)
LEMMA InitOK == Init => TypeInv /\ PcapIds /\ SessionIds /\ LibraryInv /\ SessionsInv
<1>. SUFFICES ASSUME Init PROVE TypeInv /\ PcapIds /\ SessionIds /\ LibraryInv /\ SessionsInv
  OBVIOUS
<1>1. Fresh \in Metadata /\ Fresh.pcaps = {} /\ Fresh.sessions = {}
      /\ Fresh.nextPcap = 1 /\ Fresh.nextSession = 1
  BY StoreAssumption DEF Fresh, Metadata
<1>2. op = Idle /\ op \in Operation /\ op.at = "idle"
  BY IdleTyped DEF Init
<1>3. mem = Fresh /\ disk = Fresh /\ saved = {} /\ due = {} /\ acked = {}
      /\ kept = {} /\ removed = {} /\ dropped = {}
  BY DEF Init
<1>4. file \in Library
  BY DEF Init, Library, Contents
<1>5. folder \in Folders
  BY DEF Init, Folders, Empty
<1>6. TypeOK
  BY <1>1, <1>2, <1>3, <1>4, <1>5 DEF Init, TypeOK, Operation, Library, Folders
<1>7. TypeInv
  BY <1>2, <1>6 DEF TypeInv, PcapInHand, SessionInHand, Making
<1>8. PcapIds /\ SessionIds
  BY <1>1, <1>3 DEF PcapIds, SessionIds, IdsOK
<1>9. LibraryInv
  BY <1>1, <1>2, <1>3 DEF LibraryInv, RootsAgree, FilesTrue, Kept, ApartInv, Touching,
     Added, Purging, Copying
<1>10. SessionsInv
  BY <1>1, <1>2, <1>3 DEF SessionsInv, MakingOK
<1>. QED
  BY <1>7, <1>8, <1>9, <1>10

(* The state is well typed, whatever fails and whenever the process dies   *)
(* (store.cpp).                                                            *)
THEOREM TypeCorrect == Spec => []TypeOK
<1>1. Init => TypeInv
  BY InitOK
<1>2. TypeInv => TypeOK
  BY DEF TypeInv
<1>. QED
  BY <1>1, <1>2, TypeStep, PTL DEF Spec

(* The id of a saved upload, whether its client was told or not, never     *)
(* names another capture: the ids in use in memory, on disk and of all     *)
(* that was ever saved stay below the counters (addPcap, init).            *)
THEOREM IdsUnique == Spec => []UploadIdsUnique
<1>1. Init => TypeInv /\ PcapIds
  BY InitOK
<1>2. PcapIds => UploadIdsUnique
  BY DEF PcapIds, IdsOK, UploadIdsUnique
<1>. QED
  BY <1>1, <1>2, TypeStep, PcapIdsStep, PTL DEF Spec

(* As long as the roots can be reached, a saved upload, answered or not,   *)
(* that nobody asked to remove is listed and whole, in memory and on disk, *)
(* at every step of every operation and after every crash (addPcap,        *)
(* removePcap, setPcapRoot, removeDomain).                                 *)
THEOREM UploadsSurvive == ASSUME MountsFail = FALSE PROVE Spec => []UploadsKept
<1>1. Init => TypeInv /\ PcapIds /\ LibraryInv
  BY InitOK
<1>2. TypeInv /\ PcapIds /\ LibraryInv /\ [Next]_vars => LibraryInv'
  BY LibraryStep
<1>3. LibraryInv => UploadsKept
  BY DEF LibraryInv, RootsAgree, Kept, UploadsKept
<1>. QED
  BY <1>1, <1>2, <1>3, TypeStep, PcapIdsStep, PTL DEF Spec

(* A session nobody asked to remove has its captures and its sidecar in    *)
(* its own folder, although ids are given out again after crashes and      *)
(* failed saves, as long as the roots can be reached (addSession,          *)
(* removeSession, removeDomain).                                           *)
THEOREM SessionsStand == ASSUME MountsFail = FALSE PROVE Spec => []SelfContained
<1>1. Init => TypeInv /\ PcapIds /\ SessionIds /\ LibraryInv /\ SessionsInv
  BY InitOK
<1>2. TypeInv /\ PcapIds /\ LibraryInv /\ [Next]_vars => LibraryInv'
  BY LibraryStep
<1>3. TypeInv /\ SessionIds /\ LibraryInv /\ SessionsInv /\ [Next]_vars => SessionsInv'
  BY SessionsStep DEF LibraryInv
<1>4. SessionsInv => SelfContained
  BY DEF SessionsInv, Whole, SelfContained
<1>. QED
  BY <1>1, <1>2, <1>3, <1>4, TypeStep, PcapIdsStep, SessionIdsStep, PTL DEF Spec

(* As long as the roots can be reached, the store behaves as the library   *)
(* its users see, in which an upload and a removal take place when they    *)
(* are saved and are answered later, or never, if the process dies: what   *)
(* took place and was not undone stays, and nothing else comes up          *)
(* (addPcap, removePcap, setPcapRoot, removeDomain, init).                 *)
THEOREM LibraryImplemented == ASSUME MountsFail = FALSE PROVE Spec => ImplementsLibrary
<1>1. Init => TypeInv /\ PcapIds /\ LibraryInv
  BY InitOK
<1>2. Init => ShelfInv /\ Shelf!Init
  <2>1. ASSUME Init PROVE mem.pcaps = {} /\ disk.pcaps = {} /\ op.at = "idle" /\ saved = {}
                          /\ acked = {} /\ kept = {} /\ removed = {}
    BY <2>1, IdleTyped DEF Init, Fresh
  <2>. QED
    BY <2>1 DEF ShelfInv, Listing, Removing, Shelf!Init, Listed
<1>3. TypeInv /\ PcapIds /\ LibraryInv /\ [Next]_vars => LibraryInv'
  BY LibraryStep
<1>4. TypeInv /\ PcapIds /\ ShelfInv /\ [Next]_vars => ShelfInv'
  BY ShelfStep
<1>5. /\ TypeInv /\ PcapIds /\ LibraryInv /\ LibraryInv' /\ ShelfInv /\ ShelfInv'
      /\ [Next]_vars
      => [Shelf!Next]_Shelf!libraryVars
  BY LibraryMoves
<1>. QED
  BY <1>1, <1>2, <1>3, <1>4, <1>5, TypeStep, PcapIdsStep, PTL
     DEF Spec, ImplementsLibrary, Shelf!Spec
=============================================================================
