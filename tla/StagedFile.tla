------------------------------- MODULE StagedFile -------------------------------
(***************************************************************************)
(* One staging name of core/publication.py: it is reserved, written and    *)
(* sealed, claimed by the publication and cleaned up, all of it by names   *)
(* that other programs may give to other files meanwhile.  A file is only  *)
(* removed by moving it into a private quarantine and looking at what came.*)
(*                                                                         *)
(* An identity is <<file, written, touched>>: a write changes both numbers,*)
(* a rename the second (POSIX, without birth times).                       *)
(***************************************************************************)
EXTENDS Naturals, Sequences, Functions, TLC

CONSTANTS
  Kinds,      \* who writes: subset of {"bytes", "library"}
  MaxChanges  \* bound on what other programs do, and on errors

VARIABLES
  kind,
  files,       \* files[f]: [own, data, text, written, touched]; text tells contents apart
  path,        \* file under the staging name, or 0
  registry,    \* _STAGING_IDENTITIES of the name: [id, sealed, digest]
  quarantine,  \* <<>> without one, <<0>> when empty, else the file in it
  pc, my,      \* where the thread is, and its local variables
  claimed,     \* what the publication took over: [file, data], or <<>>
  theirs,      \* history: files that other programs put there and did not remove
  clock, changes
vars == <<kind, files, path, registry, quarantine, pc, my, claimed, theirs, clock, changes>>

Unregistered == [id |-> <<>>, sealed |-> FALSE, digest |-> "none"]

Id(f) == <<f, files[f].written, files[f].touched>>
IdAtPath == IF path = 0 THEN <<>> ELSE Id(path)
Unmoved(a, b) == a[1] = b[1] /\ a[2] = b[2]   \* unchanged, _descriptor_survived_move

Init ==
  /\ kind \in Kinds
  /\ files = <<>> /\ path = 0 /\ registry = Unregistered
  /\ quarantine = <<>>
  /\ pc = "new"
  /\ my = [fd |-> 0, given |-> FALSE, res |-> Unregistered, id |-> <<>>, seen |-> <<>>,
           moved |-> 0, digest |-> "none", then |-> "done"]
  /\ claimed = <<>> /\ theirs = {} /\ clock = 1 /\ changes = 0

-------------------------------------------------------------------------------
At(here) == pc = here
Go(there) == pc' = there
Note(r) == my' = r @@ my
World == UNCHANGED <<kind, claimed, theirs, changes>>
Disk == UNCHANGED <<files, path, quarantine, clock>>

(* Something may go wrong at any system call.                              *)
Fails == changes < MaxChanges /\ changes' = changes + 1 /\ UNCHANGED <<kind, claimed, theirs>>

(* staging_path                                                            *)
Reserve ==
  /\ At("new") /\ Go("reserved")
  /\ files' = <<[own |-> TRUE, data |-> "empty", text |-> clock, written |-> clock, touched |-> clock]>>
  /\ path' = 1 /\ registry' = [id |-> <<1, clock, clock>>, sealed |-> FALSE, digest |-> "none"]
  /\ clock' = clock + 1
  /\ UNCHANGED <<quarantine, my>> /\ World

(* An open descriptor of whatever has the name; an error before there is   *)
(* one leaves the cleaning to the caller.                                  *)
OpenAtPath(here, there, otherwise) ==
  /\ At(here)
  /\ \/ /\ path # 0 /\ Note([fd |-> path, res |-> registry]) /\ Go(there) /\ World
     \/ /\ path = 0 /\ Go(otherwise) /\ UNCHANGED my /\ World
     \/ /\ Fails /\ Go(otherwise) /\ UNCHANGED my
  /\ Disk /\ UNCHANGED registry

-------------------------------------------------------------------------------
(* write_staged_bytes                                                      *)
Reserved == registry # Unregistered /\ ~ registry.sealed

WriteOpen ==
  /\ kind = "bytes" /\ Reserved /\ OpenAtPath("reserved", "verify", "over")

NotReserved ==
  /\ At("reserved") /\ ~ Reserved /\ Go("over")
  /\ Disk /\ World /\ UNCHANGED <<registry, my>>

fd == my.fd
res == my.res

WriteVerify ==
  /\ At("verify")
  /\ Go(IF res.id = Id(fd) /\ Id(fd) = IdAtPath THEN "write" ELSE "not owned")
  /\ Disk /\ World /\ UNCHANGED <<registry, my>>

Changed(f, data) ==
  /\ files' = [files EXCEPT ![f] = [@ EXCEPT !.data = data, !.text = clock, !.written = clock, !.touched = clock]]
  /\ clock' = clock + 1

WriteData ==
  /\ At("write")
  /\ \/ Changed(fd, "payload") /\ Go("written") /\ World
     \/ Changed(fd, "half") /\ Go("failed") /\ Fails
  /\ UNCHANGED <<path, quarantine, registry, my>>

WriteCheck ==
  /\ At("written")
  /\ Note([id |-> Id(fd)])
  /\ Go(IF Id(fd) = IdAtPath THEN "digest" ELSE "failed")
  /\ Disk /\ World /\ UNCHANGED registry

WriteDigest ==
  /\ At("digest")
  /\ Note([digest |-> files[fd].data])
  /\ Go(IF files[fd].data = "payload" THEN "seal" ELSE "failed")
  /\ Disk /\ World /\ UNCHANGED registry

Seals == registry' = [id |-> my.id, sealed |-> TRUE, digest |-> my.digest]

WriteSeal ==
  /\ At("seal")
  /\ IF registry = res /\ my.id = IdAtPath
       THEN Seals /\ Go("sealed")
       ELSE UNCHANGED registry /\ Go("failed")
  /\ Disk /\ World /\ UNCHANGED my

(* A native library writes by name; seal_staged_path follows.              *)
LibraryWrites ==
  /\ kind = "library" /\ At("reserved") /\ UNCHANGED <<kind, claimed>>
  /\ \/ /\ path # 0 /\ Changed(path, "payload") /\ theirs' = theirs \ {path}
        /\ Go("filled") /\ UNCHANGED changes
     \/ path = 0 /\ Go("over") /\ UNCHANGED <<files, clock, theirs, changes>>
  /\ UNCHANGED <<path, quarantine, registry, my>>

SealOpen == Reserved /\ OpenAtPath("filled", "sealing", "over")

SealNot ==
  /\ At("filled") /\ ~ Reserved /\ Go("over")
  /\ Disk /\ World /\ UNCHANGED <<registry, my>>

SealBefore ==
  /\ At("sealing")
  /\ Note([id |-> Id(fd)])
  /\ Go(IF res.id[1] = fd /\ Id(fd) = IdAtPath THEN "hashing" ELSE "over")
  /\ Disk /\ World /\ UNCHANGED registry

SealDigest ==
  /\ At("hashing") /\ Go("hashed")
  /\ Note([digest |-> files[fd].data])
  /\ Disk /\ World /\ UNCHANGED registry

SealAfter ==
  /\ At("hashed")
  /\ IF Id(fd) = my.id /\ Id(fd) = IdAtPath /\ registry = res
       THEN Seals /\ Go("sealed")
       ELSE UNCHANGED registry /\ Go("over")
  /\ Disk /\ World /\ UNCHANGED my

-------------------------------------------------------------------------------
(* claim_staged_path, _claim_for_publication: what is read is what was     *)
(* sealed, and still has the name.                                         *)
ClaimOpen == OpenAtPath("sealed", "claiming", "over")

ClaimRead ==
  /\ At("claiming") /\ Go("claim")
  /\ Note([id |-> Id(fd), digest |-> files[fd].data])
  /\ Disk /\ World /\ UNCHANGED registry

Claimable ==
  /\ Id(fd) = my.id /\ Id(fd) = IdAtPath
  /\ registry = [id |-> Id(fd), sealed |-> TRUE, digest |-> my.digest]

Claim ==
  /\ At("claim") /\ Go("over")
  /\ claimed' = IF Claimable THEN <<fd, files[fd].data>> ELSE <<>>
  /\ Disk /\ UNCHANGED <<registry, my, kind, theirs, changes>>

-------------------------------------------------------------------------------
(* _cleanup_failed_staged_write: a file that was written to is bound again *)
(* and removed by its descriptor; then, and whenever the caller is done,   *)
(* cleanup_staged_path.                                                    *)
WriteFails ==
  /\ At("failed")
  /\ registry' = IF Id(fd) = IdAtPath /\ registry = res
                   THEN [id |-> Id(fd), sealed |-> FALSE, digest |-> "none"] ELSE registry
  /\ Note([given |-> TRUE, then |-> "over", id |-> Id(fd)])
  /\ Go("look")
  /\ Disk /\ World

CleanUp ==
  /\ pc \in {"over", "not owned"}
  /\ registry' = Unregistered
  /\ IF registry = Unregistered THEN Go("done") /\ UNCHANGED my
     ELSE Go("look") /\ Note([given |-> FALSE, then |-> "done", id |-> registry.id])
  /\ Disk /\ World

-------------------------------------------------------------------------------
(* _unlink_if_owned.  Whatever fails leaves the file where it is.          *)
Ends == Go(my.then)
Gives == Fails /\ Ends /\ UNCHANGED my /\ Disk /\ UNCHANGED registry

Look ==
  /\ At("look")
  /\ \/ /\ IF path = 0 THEN Ends /\ UNCHANGED my
           ELSE Go(IF my.given THEN "match" ELSE "bind") /\ Note([seen |-> IdAtPath])
        /\ Disk /\ World /\ UNCHANGED registry
     \/ Gives

Bind ==
  /\ OpenAtPath("bind", "match", my.then)

Match ==
  /\ At("match")
  /\ IF my.id = Id(my.fd) /\ Id(my.fd) = my.seen THEN Go("mkdir") ELSE Ends
  /\ Disk /\ World /\ UNCHANGED <<registry, my>>

MakeQuarantine ==
  /\ At("mkdir")
  /\ \/ /\ quarantine' = <<0>> /\ Go("move")
        /\ UNCHANGED <<files, path, clock, registry, my>> /\ World
     \/ Gives

Move ==
  /\ At("move")
  /\ \/ /\ path # 0 /\ quarantine' = <<path>> /\ path' = 0
        /\ files' = [files EXCEPT ![path].touched = clock] /\ clock' = clock + 1
        /\ Note([moved |-> path]) /\ Go("moved") /\ World
     \/ path = 0 /\ Go("close") /\ UNCHANGED my /\ Disk /\ World
     \/ Fails /\ Go("close") /\ UNCHANGED my /\ Disk
  /\ UNCHANGED registry

DiscardMoved ==  \* one possible bug: what was moved is not looked at
  /\ At("moved") /\ Note([fd |-> my.moved]) /\ Go("discard")
  /\ Disk /\ World /\ UNCHANGED registry

(* What came has to be the open file, as it was but for the move.  When    *)
(* nothing can be told of it, the open file is copied back.                *)
MatchMoved ==
  /\ At("moved")
  /\ \/ /\ Note([seen |-> Id(my.moved)])
        /\ Go(IF my.moved = my.fd /\ Unmoved(my.seen, Id(my.fd)) THEN "discard" ELSE "restore")
        /\ World
     \/ Fails /\ UNCHANGED my /\ Go(IF Unmoved(my.seen, Id(my.fd)) THEN "restore open" ELSE "close")
  /\ Disk /\ UNCHANGED registry

Copied(f) ==
  /\ path = 0 /\ path' = Len(files) + 1
  /\ files' = Append(files, [files[f] EXCEPT !.touched = clock])
  /\ clock' = clock + 1

(* _restore_quarantined_path, _restore_open_descriptor: nothing that has   *)
(* the name by now is overwritten.                                         *)
Restore ==
  /\ At("restore")
  /\ \/ /\ Copied(my.moved) /\ Note([id |-> <<Len(files) + 1, files[my.moved].written, clock>>])
        /\ Go("restored") /\ World
     \/ path # 0 /\ Go("close") /\ UNCHANGED <<files, path, clock, my>> /\ World
     \/ Fails /\ Go("close") /\ UNCHANGED <<files, path, clock, my>>
  /\ UNCHANGED <<quarantine, registry>>

RestoreOpen ==
  /\ At("restore open") /\ Go("close") /\ World
  /\ \/ Copied(my.fd)
     \/ path # 0 /\ UNCHANGED <<files, path, clock>>
  /\ UNCHANGED <<quarantine, registry, my>>

(* _discard_quarantined_path: after a restoration the original goes only   *)
(* while it is as it was when it came, and its copy has the name.          *)
Stays == At("restored") /\ (my.id # IdAtPath \/ my.seen # Id(my.moved))

Discard ==
  /\ pc \in {"discard", "restored"} /\ Go("close")
  /\ quarantine' = IF Stays THEN quarantine ELSE <<0>>
  /\ UNCHANGED <<files, path, clock, registry, my>> /\ World

(* _close_quarantine removes an empty directory.                           *)
Close ==
  /\ At("close") /\ Ends
  /\ quarantine' = IF quarantine = <<0>> THEN <<>> ELSE quarantine
  /\ UNCHANGED <<files, path, clock, registry, my>> /\ World

-------------------------------------------------------------------------------
(* Other programs replace or remove what has the name, or write into it    *)
(* wherever it has been moved to.                                          *)
Names == {path} \cup Range(quarantine)
Kept == {x \in theirs : path = 0 \/ files[x].text # files[path].text}
Meddles == changes < MaxChanges /\ changes' = changes + 1 /\ pc # "new"
              /\ UNCHANGED <<kind, registry, quarantine, pc, my, claimed>>

Swap ==
  /\ files' = Append(files, [own |-> FALSE, data |-> "other", text |-> clock, written |-> clock, touched |-> clock])
  /\ path' = Len(files) + 1 /\ clock' = clock + 1
  /\ theirs' = (IF path = 0 THEN theirs ELSE Kept) \cup {Len(files) + 1}
  /\ Meddles
Take ==
  /\ path # 0 /\ path' = 0 /\ theirs' = Kept
  /\ UNCHANGED <<files, clock>> /\ Meddles
Scribble ==
  /\ \E f \in Names \ {0} :
       /\ Changed(f, "other")
       /\ LET same == {x \in theirs : files[x].text = files[f].text}
          IN theirs' = (theirs \ same) \cup (IF same = {} THEN {} ELSE {f})
  /\ UNCHANGED path /\ Meddles

Unlink ==
  \/ Look \/ Bind \/ Match \/ MakeQuarantine \/ Move \/ MatchMoved
  \/ Restore \/ RestoreOpen \/ Discard \/ Close

Next ==
  \/ Reserve \/ WriteOpen \/ NotReserved \/ WriteVerify \/ WriteData \/ WriteCheck \/ WriteDigest \/ WriteSeal
  \/ LibraryWrites \/ SealOpen \/ SealNot \/ SealBefore \/ SealDigest \/ SealAfter
  \/ ClaimOpen \/ ClaimRead \/ Claim \/ WriteFails
  \/ CleanUp \/ Unlink
  \/ Swap \/ Take \/ Scribble

Spec == Init /\ [][Next]_vars
-------------------------------------------------------------------------------
TypeOK ==
  /\ Names \subseteq 0..Len(files)
  /\ registry # Unregistered => registry.id[1] \in DOMAIN files
  /\ theirs \subseteq DOMAIN files

(* No file of another program is lost, whatever happens meanwhile: it      *)
(* keeps the name, or is found in a quarantine                             *)
(* (_unlink_if_owned, _restore_quarantined_path).                          *)
OthersKeep ==
  \A x \in theirs : \E f \in Names \ {0} : files[f].text = files[x].text

(* What the publication takes over is the reserved file with what was      *)
(* sealed in it: with the payload, when it was written by its descriptor   *)
(* (write_staged_bytes, seal_staged_path, claim_staged_path).              *)
ClaimsTheSealed ==
  claimed # <<>> =>
    /\ claimed[1] = 1
    /\ kind = "bytes" => claimed[2] = "payload"

(* When nobody interferes and nothing fails, nothing stays behind; and the *)
(* name is not kept registered (cleanup_staged_path).                      *)
NothingStays ==
  pc = "done" =>
    /\ registry = Unregistered
    /\ changes = 0 => path = 0 /\ quarantine = <<>>
===============================================================================
