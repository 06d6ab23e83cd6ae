------------------------------- MODULE Store --------------------------------
(***************************************************************************)
(* The library of captures and the session folders on disk                 *)
(* (backend/src/store/store.cpp).  Every operation runs under the mutex    *)
(* mMu, so one is in progress at a time; it is cut at every change it      *)
(* makes to the disk, because the process may die between any two.  A save *)
(* of meta.json is one step that happens or does not (writeFileAtomic).    *)
(* Library folders, aliases, notes, device names and the owners of domains *)
(* are left out; the operations on them save the metadata, too (EditMeta). *)
(* A write error is taken to show before the stream is looked at.          *)
(***************************************************************************)
EXTENDS Naturals

CONSTANTS Uploads,         \* what users upload: the bytes of a capture
          Investigations,  \* what users call their sessions
          Roots, DefaultRoot,      \* directories for the library; <data>/pcaps
          Domains, DefaultDomain,
          NoFile, Part,    \* contents of a file: none, and cut off
          MaxId,           \* bound on the ids given out
          MountsFail,      \* the other roots may be gone after a restart
          Workloads        \* what users do: operations and domains

VARIABLES workload,
          mem,      \* the members of Store
          disk,     \* meta.json
          file,     \* the library: contents by root, domain and id
          folder,   \* the session folders: capture.pcap and capture.src
          mounted,  \* the roots besides the default one can be reached
          op,       \* the operation in progress
          saved,    \* uploads whose entry was saved
          due,      \* those whose answer, the id, is on its way
          acked,    \* those that were answered
          kept,     \* those saved that nobody asked to remove
          removed,  \* those whose removal was saved; its answer comes later
          dropped   \* investigations somebody asked to remove

answers == <<due, acked>>
history == <<saved, answers, kept, removed, dropped>>
vars == <<workload, mem, disk, file, folder, mounted, op, history>>

Contents == Uploads \cup {NoFile, Part}

ASSUME StoreAssumption ==
    /\ MaxId \in Nat
    /\ MountsFail \in BOOLEAN
    /\ DefaultRoot \in Roots
    /\ DefaultDomain \in Domains
    /\ \A w \in Workloads : w.domains \subseteq Domains
    /\ NoFile \notin Uploads /\ Part \notin Uploads /\ NoFile # Part

Ids == 1 .. MaxId

Pcaps == [id : Ids, upload : Uploads, dom : Domains]
Sessions == [id : Ids, name : Investigations, sources : SUBSET Uploads,
             dom : Domains]

Metadata == [nextPcap : 1 .. MaxId + 1, nextSession : 1 .. MaxId + 1,
             root : Roots, domains : SUBSET Domains,
             pcaps : SUBSET Pcaps, sessions : SUBSET Sessions]

Fresh == [nextPcap |-> 1, nextSession |-> 1, root |-> DefaultRoot,
          domains |-> {}, pcaps |-> {}, sessions |-> {}]

Paths == Roots \X Domains \X Ids

(* Where a capture is kept below a root. *)
At(root, p) == <<root, p.dom, p.id>>

Empty == [capture |-> {}, sidecar |-> {}]

Idle == [at |-> "idle", pcaps |-> {}, copied |-> {}, sessions |-> {},
         root |-> DefaultRoot, dom |-> DefaultDomain]

Init ==
    /\ workload \in Workloads
    /\ mem = Fresh
    /\ disk = Fresh
    /\ file = [path \in Paths |-> NoFile]
    /\ folder = [i \in Ids |-> Empty]
    /\ mounted = TRUE
    /\ op = Idle
    /\ saved = {} /\ due = {} /\ acked = {}
    /\ kept = {} /\ removed = {} /\ dropped = {}
-----------------------------------------------------------------------------
(* A save of the members as m. *)
Save(m) == disk' = m

(* A save whose failure is not looked at. *)
TrySave(m) == \/ Save(m)
              \/ UNCHANGED disk

Reachable(root) == root = DefaultRoot \/ mounted

(* The vector mPcaps is in the order of ids. *)
First(p, pcaps) == p \in pcaps /\ \A q \in pcaps : p.id <= q.id

(* The operation goes on to remove the files of pcaps below root. *)
Unlinking(pcaps, root) ==
    IF pcaps = {} THEN Idle
    ELSE [Idle EXCEPT !.at = "unlink", !.pcaps = pcaps, !.root = root]
-----------------------------------------------------------------------------
(* addPcap.  The domain is the caller's; that it exists is not checked.    *)
(* Uploads that were saved differ, so that their bytes tell them apart.    *)
AddPcap(u, d) ==
    LET p == [id |-> mem.nextPcap, upload |-> u, dom |-> d] IN
    /\ op = Idle
    /\ mem.nextPcap \in Ids
    /\ \A a \in saved : a.upload # u
    /\ file' = [file EXCEPT ![At(mem.root, p)] = Part]
    /\ op' = [Idle EXCEPT !.at = "write", !.pcaps = {p}]
    /\ UNCHANGED <<mem, disk, folder, mounted, history>>

(* Mutant: the next id is not taken up before the save. *)
WritePcapLate ==
    /\ op.at = "write"
    /\ \E p \in op.pcaps :
         /\ file' = [file EXCEPT ![At(mem.root, p)] = p.upload]
         /\ mem' = [mem EXCEPT !.pcaps = @ \cup {p}]
         /\ op' = [op EXCEPT !.at = "added"]
    /\ UNCHANGED <<disk, folder, mounted, history>>

WritePcap ==
    /\ op.at = "write"
    /\ \E p \in op.pcaps :
         /\ file' = [file EXCEPT ![At(mem.root, p)] = p.upload]
         /\ mem' = [mem EXCEPT !.nextPcap = @ + 1, !.pcaps = @ \cup {p}]
         /\ op' = [op EXCEPT !.at = "added"]
    /\ UNCHANGED <<disk, folder, mounted, history>>

(* The disk is full. *)
ShortWrite ==
    /\ op.at = "write"
    /\ op' = Idle
    /\ UNCHANGED <<mem, disk, file, folder, mounted, history>>

(* Mutant: the save of an upload is not looked at.                         *)
SavePcapUnchecked ==
    /\ op.at = "added"
    /\ TrySave(mem)
    /\ saved' = saved \cup op.pcaps
    /\ due' = due \cup op.pcaps
    /\ kept' = kept \cup op.pcaps
    /\ op' = Idle
    /\ UNCHANGED <<mem, file, folder, mounted, acked, removed, dropped>>

SavePcap ==
    /\ op.at = "added"
    /\ Save(mem)
    /\ saved' = saved \cup op.pcaps
    /\ due' = due \cup op.pcaps
    /\ kept' = kept \cup op.pcaps
    /\ op' = Idle
    /\ UNCHANGED <<mem, file, folder, mounted, acked, removed, dropped>>

(* The client gets the id, long after mMu is free (handlePcapsPost).       *)
Answer(p) ==
    /\ due' = due \ {p}
    /\ acked' = acked \cup {p}
    /\ UNCHANGED <<mem, disk, file, folder, mounted, op,
                   saved, kept, removed, dropped>>

SavePcapFails ==
    /\ op.at = "added"
    /\ \E p \in op.pcaps :
         /\ file' = [file EXCEPT ![At(mem.root, p)] = NoFile]
         /\ mem' = [mem EXCEPT !.pcaps = @ \ {p}]
    /\ op' = Idle
    /\ UNCHANGED <<disk, folder, mounted, history>>
-----------------------------------------------------------------------------
(* removePcap.  After a failed save the entry stays out of mPcaps. *)
RemovePcap(p) ==
    /\ op = Idle
    /\ p \in mem.pcaps
    /\ mem' = [mem EXCEPT !.pcaps = @ \ {p}]
    /\ kept' = kept \ {p}
    /\ op' = [Idle EXCEPT !.at = "erased", !.pcaps = {p}]
    /\ UNCHANGED <<disk, file, folder, mounted, saved, answers, removed, dropped>>

(* Mutant: the save of a removal is not looked at.                         *)
SaveRemovalUnchecked ==
    /\ op.at = "erased"
    /\ TrySave(mem)
    /\ op' = Unlinking(op.pcaps, mem.root)
    /\ removed' = removed \cup op.pcaps
    /\ UNCHANGED <<mem, file, folder, mounted, saved, answers, kept, dropped>>

SaveRemoval ==
    /\ op.at = "erased"
    /\ \/ /\ Save(mem)
          /\ op' = Unlinking(op.pcaps, mem.root)
          /\ removed' = removed \cup op.pcaps
       \/ /\ UNCHANGED <<disk, removed>>
          /\ op' = Idle
    /\ UNCHANGED <<mem, file, folder, mounted, saved, answers, kept, dropped>>

(* The files an operation has done with, one by one. *)
Unlink ==
    /\ op.at = "unlink"
    /\ \E p \in op.pcaps :
         /\ First(p, op.pcaps)
         /\ file' = [file EXCEPT ![At(op.root, p)] = NoFile]
         /\ op' = Unlinking(op.pcaps \ {p}, op.root)
    /\ UNCHANGED <<mem, disk, folder, mounted, history>>
-----------------------------------------------------------------------------
(* setPcapRoot: copy every capture, save, remove the originals; or remove  *)
(* the copies when a copy or the save fails.                               *)
SetPcapRoot(next) ==
    /\ op = Idle
    /\ next # mem.root
    /\ Reachable(next)
    /\ op' = [Idle EXCEPT !.at = "copy", !.pcaps = mem.pcaps, !.root = next]
    /\ UNCHANGED <<mem, disk, file, folder, mounted, history>>

CopyPcap ==
    /\ op.at = "copy"
    /\ \E p \in op.pcaps :
         /\ First(p, op.pcaps)
         /\ file[At(mem.root, p)] # NoFile
         /\ file' = [file EXCEPT ![At(op.root, p)] = file[At(mem.root, p)]]
         /\ op' = [op EXCEPT !.pcaps = @ \ {p}, !.copied = @ \cup {p}]
    /\ UNCHANGED <<mem, disk, folder, mounted, history>>

(* There is nothing to copy, or the copy is cut off. *)
CopyFails ==
    /\ op.at = "copy"
    /\ \E p \in op.pcaps :
         /\ First(p, op.pcaps)
         /\ \/ UNCHANGED file
            \/ /\ file[At(mem.root, p)] # NoFile
               /\ file' = [file EXCEPT ![At(op.root, p)] = Part]
    /\ op' = Unlinking(op.copied, op.root)
    /\ UNCHANGED <<mem, disk, folder, mounted, history>>

(* Mutant: the originals are removed although the save failed. *)
SaveRootUnchecked ==
    /\ op.at = "copy" /\ op.pcaps = {}
    /\ mem' = [mem EXCEPT !.root = op.root]
    /\ TrySave(mem')
    /\ op' = Unlinking(mem.pcaps, mem.root)
    /\ UNCHANGED <<file, folder, mounted, history>>

SaveRoot ==
    /\ op.at = "copy" /\ op.pcaps = {}
    /\ \/ /\ mem' = [mem EXCEPT !.root = op.root]
          /\ Save(mem')
          /\ op' = Unlinking(mem.pcaps, mem.root)
       \/ /\ UNCHANGED <<mem, disk>>
          /\ op' = Unlinking(op.copied, op.root)
    /\ UNCHANGED <<file, folder, mounted, history>>
-----------------------------------------------------------------------------
Combined(s) == \E u, v \in s.sources : u # v

(* addSession, of captures in one domain.  A capture opened by a path of   *)
(* the server is a source like any other and left out.                     *)
AddSession(w, pcaps, d) ==
    LET s == [id |-> mem.nextSession, name |-> w, dom |-> d,
              sources |-> {p.upload : p \in pcaps}] IN
    /\ op = Idle
    /\ mem.nextSession \in Ids
    /\ w \notin dropped /\ \A t \in mem.sessions \cup disk.sessions : t.name # w
    /\ pcaps \subseteq mem.pcaps /\ pcaps # {}
    /\ \A p \in pcaps : p.dom = d
    /\ op' = [Idle EXCEPT !.at = "capture", !.pcaps = pcaps, !.sessions = {s}]
    /\ UNCHANGED <<mem, disk, file, folder, mounted, history>>

(* copy_file of the one source, or mergePcaps of several up to its sidecar. *)
CopyCapture ==
    LET read == {file[At(mem.root, p)] : p \in op.pcaps} IN
    /\ op.at = "capture"
    /\ \E s \in op.sessions :
         \/ /\ NoFile \notin read
            /\ folder' = [folder EXCEPT ![s.id].capture = read]
            /\ op' = [op EXCEPT !.at = IF Combined(s) THEN "sidecar" ELSE "register"]
         \/ /\ \/ UNCHANGED folder
               \/ folder' = [folder EXCEPT ![s.id].capture = {Part}]
            /\ op' = [op EXCEPT !.at = "discard"]
    /\ UNCHANGED <<mem, disk, file, mounted, history>>

WriteSidecar ==
    /\ op.at = "sidecar"
    /\ \E s \in op.sessions :
         \/ /\ folder' = [folder EXCEPT ![s.id].sidecar = s.sources]
            /\ op' = [op EXCEPT !.at = "register"]
         \/ /\ \/ UNCHANGED folder
               \/ folder' = [folder EXCEPT ![s.id].sidecar = {Part}]
            /\ op' = [op EXCEPT !.at = "discard"]
    /\ UNCHANGED <<mem, disk, file, mounted, history>>

(* remove_all of one session folder, which may be interrupted. *)
Wipe(s) ==
    \/ folder' = [folder EXCEPT ![s.id] = Empty]
    \/ folder' = [folder EXCEPT ![s.id].capture = {}]
    \/ folder' = [folder EXCEPT ![s.id].sidecar = {}]

Discard ==
    /\ op.at = "discard"
    /\ \E s \in op.sessions :
         /\ Wipe(s)
         /\ op' = IF folder'[s.id] = Empty THEN Idle ELSE op
    /\ UNCHANGED <<mem, disk, file, mounted, history>>

(* Mutant: the next id is taken up after the save. *)
RegisterLate ==
    /\ op.at = "register"
    /\ mem' = [mem EXCEPT !.nextSession = @ + 1, !.sessions = @ \cup op.sessions]
    /\ TrySave([mem' EXCEPT !.nextSession = mem.nextSession])
    /\ op' = Idle
    /\ UNCHANGED <<file, folder, mounted, history>>

Register ==
    /\ op.at = "register"
    /\ mem' = [mem EXCEPT !.nextSession = @ + 1, !.sessions = @ \cup op.sessions]
    /\ TrySave(mem')
    /\ op' = Idle
    /\ UNCHANGED <<file, folder, mounted, history>>
-----------------------------------------------------------------------------
RemoveSession(s) ==
    /\ op = Idle
    /\ s \in mem.sessions
    /\ mem' = [mem EXCEPT !.sessions = @ \ {s}]
    /\ dropped' = dropped \cup {s.name}
    /\ op' = [Idle EXCEPT !.at = "wipe", !.sessions = {s}]
    /\ UNCHANGED <<disk, file, folder, mounted, saved, answers, kept, removed>>

(* removeDomain.  What it erases from memory nobody sees before the end.   *)
RemoveDomain(d, force) ==
    LET pcaps == {p \in mem.pcaps : p.dom = d}
        sessions == {s \in mem.sessions : s.dom = d}
    IN
    /\ op = Idle
    /\ d \in mem.domains
    /\ force \/ (pcaps = {} /\ sessions = {})
    /\ mem' = [mem EXCEPT !.domains = @ \ {d}, !.pcaps = @ \ pcaps,
                          !.sessions = @ \ sessions]
    /\ kept' = kept \ pcaps
    /\ dropped' = dropped \cup {s.name : s \in sessions}
    /\ op' = [Idle EXCEPT !.at = "purge", !.pcaps = pcaps, !.sessions = sessions,
                          !.dom = d]
    /\ UNCHANGED <<disk, file, folder, mounted, saved, answers, removed>>

PurgePcap ==
    /\ op.at = "purge"
    /\ \E p \in op.pcaps :
         /\ First(p, op.pcaps)
         /\ file' = [file EXCEPT ![At(mem.root, p)] = NoFile]
         /\ op' = [op EXCEPT !.pcaps = @ \ {p}]
    /\ UNCHANGED <<mem, disk, folder, mounted, history>>

WipeSession ==
    /\ op.at \in {"wipe", "purge"} /\ op.pcaps = {}
    /\ \E s \in op.sessions :
         /\ Wipe(s)
         /\ op' = IF folder'[s.id] # Empty THEN op
                  ELSE IF op.at = "wipe" THEN [Idle EXCEPT !.at = "publish"]
                  ELSE [op EXCEPT !.sessions = @ \ {s}]
    /\ UNCHANGED <<mem, disk, file, mounted, history>>

(* The subtree of the domain, with whatever is left in it. *)
RemoveTree ==
    /\ op.at = "purge" /\ op.pcaps = {} /\ op.sessions = {}
    /\ file' = [path \in Paths |->
                  IF path[1] = mem.root /\ path[2] = op.dom THEN NoFile
                  ELSE file[path]]
    /\ op' = [Idle EXCEPT !.at = "publish"]
    /\ UNCHANGED <<mem, disk, folder, mounted, history>>

Publish ==
    /\ op.at = "publish"
    /\ TrySave(mem)
    /\ op' = Idle
    /\ UNCHANGED <<mem, file, folder, mounted, history>>

AddDomain(d) ==
    /\ op = Idle
    /\ d \notin mem.domains \cup {DefaultDomain}
    /\ mem' = [mem EXCEPT !.domains = @ \cup {d}]
    /\ Save(mem')
    /\ UNCHANGED <<file, folder, mounted, op, history>>

(* setPcapFolder, addPcapFolder, removePcapFolder, setSessionAlias. *)
EditMeta ==
    /\ op = Idle
    /\ Save(mem)
    /\ UNCHANGED <<mem, file, folder, mounted, op, history>>
-----------------------------------------------------------------------------
(* Mutant: the ids last given out are read as the next ones. *)
RestartOneBehind ==
    /\ mounted' \in (IF MountsFail THEN BOOLEAN ELSE {TRUE})
    /\ mem' = [disk EXCEPT !.nextPcap = @ - 1, !.nextSession = @ - 1]
    /\ op' = Idle
    /\ due' = {}
    /\ UNCHANGED <<disk, file, folder, saved, acked, kept, removed, dropped>>

(* The process dies, at any point, and is started again: init reads        *)
(* meta.json, and falls back to the default root if it cannot create the   *)
(* one that is set.  Answers on their way are lost.                        *)
Restart ==
    /\ mounted' \in (IF MountsFail THEN BOOLEAN ELSE {TRUE})
    /\ mem' = [disk EXCEPT !.root = IF mounted' THEN @ ELSE DefaultRoot]
    /\ op' = Idle
    /\ due' = {}
    /\ UNCHANGED <<disk, file, folder, saved, acked, kept, removed, dropped>>

Start ==
    \/ \E u \in Uploads, d \in workload.domains : AddPcap(u, d)
    \/ "remove" \in workload.does /\ \E p \in mem.pcaps : RemovePcap(p)
    \/ "relocate" \in workload.does /\ \E next \in Roots : SetPcapRoot(next)
    \/ /\ "session" \in workload.does
       /\ \/ \E w \in Investigations, pcaps \in SUBSET mem.pcaps, d \in Domains :
               AddSession(w, pcaps, d)
          \/ \E s \in mem.sessions : RemoveSession(s)
    \/ /\ "domain" \in workload.does
       /\ \/ \E d \in workload.domains : AddDomain(d)
          \/ \E d \in mem.domains, force \in BOOLEAN : RemoveDomain(d, force)

Step ==
    \/ WritePcap \/ ShortWrite \/ SavePcap \/ SavePcapFails
    \/ \E p \in due : Answer(p)
    \/ SaveRemoval \/ Unlink
    \/ CopyPcap \/ CopyFails \/ SaveRoot
    \/ CopyCapture \/ WriteSidecar \/ Discard \/ Register
    \/ PurgePcap \/ WipeSession \/ RemoveTree \/ Publish

Next == (Start \/ Step \/ EditMeta \/ Restart) /\ UNCHANGED workload

Spec == Init /\ [][Next]_vars
-----------------------------------------------------------------------------
Steps == {"idle", "write", "added", "erased", "unlink", "copy", "capture",
          "sidecar", "discard", "register", "wipe", "purge", "publish"}

TypeOK ==
    /\ workload \in Workloads
    /\ mem \in Metadata
    /\ disk \in Metadata
    /\ file \in [Paths -> Contents]
    /\ folder \in [Ids -> [capture : SUBSET Contents, sidecar : SUBSET Contents]]
    /\ mounted \in BOOLEAN
    /\ op \in [at : Steps, pcaps : SUBSET Pcaps, copied : SUBSET Pcaps,
               sessions : SUBSET Sessions, root : Roots, dom : Domains]
    /\ saved \subseteq Pcaps
    /\ due \subseteq saved /\ acked \subseteq saved
    /\ kept \subseteq saved
    /\ removed \subseteq Pcaps
    /\ dropped \subseteq Investigations

(* Whatever step an operation is at, and whichever saves and copies have   *)
(* failed before: if the process dies now, every upload that was saved,    *)
(* answered or not, and not asked to be removed is in meta.json and its    *)
(* bytes are whole at the root meta.json names; and if it goes on, they    *)
(* are where the running server looks.                                     *)
UploadsKept ==
    \A p \in kept : /\ p \in disk.pcaps /\ file[At(disk.root, p)] = p.upload
                    /\ p \in mem.pcaps /\ file[At(mem.root, p)] = p.upload

(* The id of an upload that was saved, which a client was told or may yet  *)
(* be told, never names another capture, although ids of uploads that      *)
(* failed or were cut off are used again.                                  *)
UploadIdsUnique ==
    \A a \in saved, p \in saved \cup mem.pcaps \cup disk.pcaps :
      p.id = a.id => p = a

(* A session in meta.json that nobody asked to remove has, in its folder,  *)
(* the captures it was made of, and if it combines several, the sidecar    *)
(* that says so, whatever has happened to the library since and to the     *)
(* session ids lost in crashes and failed saves.                           *)
SelfContained ==
    \A s \in disk.sessions :
      s.name \notin dropped =>
        /\ folder[s.id].capture = s.sources
        /\ Combined(s) => folder[s.id].sidecar = s.sources

(* "A failure never strands the library" (store.cpp): the bytes of a kept  *)
(* upload are in the library under its id, at one root or the other,       *)
(* whatever relocations were tried, failed, or were made again after the   *)
(* server came up without the root.                                        *)
NeverStranded == \A p \in kept : \E root \in Roots : file[At(root, p)] = p.upload

(* What pcaps() answers; the entry of an upload that is not saved yet is   *)
(* in memory, but mMu is held.                                             *)
Listed == IF op.at = "added" THEN mem.pcaps \ op.pcaps ELSE mem.pcaps

(* The library as its users see it: an upload or a removal takes place     *)
(* when it is saved, and whole are the captures whose bytes are where the  *)
(* server looks.                                                           *)
Shelf == INSTANCE CaptureLibrary WITH
             listed <- Listed, uploaded <- saved, told <- acked,
             whole <- {p \in Listed : file[At(mem.root, p)] = p.upload}

(* Through saves, relocations and crashes the store behaves as a library   *)
(* without any of them.  An upload takes place under an id of its own,     *)
(* before it is answered, and stays listed and whole until somebody asks   *)
(* to remove it.  After a restart no capture is listed whose removal was   *)
(* saved or whose upload was not; one that was saved and never answered    *)
(* may be (addPcap, removePcap, setPcapRoot, removeDomain, init).          *)
ImplementsLibrary == Shelf!Spec
=============================================================================
