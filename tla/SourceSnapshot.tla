----------------------------- MODULE SourceSnapshot -----------------------------
(***************************************************************************)
(* How a RootsMagic database is read while RootsMagic may be using it: the *)
(* main file and its SQLite companions are fingerprinted, copied, verified *)
(* again and again, and only the copy is opened.  The files are not locked.*)
(*                                                                         *)
(* The content of a file is a number that no other content has: a          *)
(* FileSnapshot (device, inode, size, times) with a digest tells any two   *)
(* apart.  0 is a file that is not there.                                  *)
(***************************************************************************)
EXTENDS Naturals, Sequences

CONSTANTS
  Kinds,      \* operations: subset of {"operation", "table"}
  MaxChanges  \* bound on what RootsMagic does meanwhile

VARIABLES
  main, wal, shm, journal, root,  \* the source; root: the allowed directory is still the same one
  changes,                        \* made so far
  moments,                        \* [main, wal, journal] of the source since the operation began
  todo,                           \* instructions left
  print,                          \* the fingerprint, with 0 for what is missing
  copy,                           \* what the temporary directory holds
  connection,                     \* "none", "open" or "closed"
  read,                           \* what the caller got from it, and whether the source still was the same
  late, wanted, reason,           \* past the deadline; cancellation requested; interruption_reason
  closing,                        \* connection's finally clause has begun
  error, outcome
vars == <<main, wal, shm, journal, root, changes, moments, todo, print, copy, connection, read,
          late, wanted, reason, closing, error, outcome>>

source == <<main, wal, shm, journal, root, changes, moments>>
clock == <<late, wanted>>

Nothing == [main |-> 0, wal |-> 0, shm |-> 0]

-------------------------------------------------------------------------------
(* The instructions.                                                       *)
Fingerprint ==
  <<"no journal", "find shm", "find wal", "print main", "print wal", "print shm", "still no journal">>

Verify == <<"same journal", "same main", "same wal", "same shm", "same journal">>

(* connection, once the fingerprint is known; the body of operation or     *)
(* read_table; then the finally clause.                                    *)
Snapshot ==
  <<"mkdtemp", "copy main">> \o (IF print.wal = 0 THEN <<>> ELSE <<"copy wal">>) \o Verify
    \o (IF print.wal = 0 THEN <<>> ELSE <<"consolidate">> \o Verify) \o <<"open">>

Body(kind) ==
  IF kind = "table" THEN <<"read">>
  ELSE <<"read">> \o Verify \o <<"read">> \o Verify \o Verify

Finally == <<"close">> \o Verify \o <<"rmdtemp">>

(* fingerprint_source is followed by its own verification and by that of   *)
(* connection, which is given the fingerprint.                             *)
Program(kind) == Fingerprint \o Verify \o Verify \o <<kind>>

Init ==
  /\ main = 1 /\ wal \in {0, 1} /\ shm \in {0, 1} /\ journal \in BOOLEAN /\ root = TRUE /\ changes = 0
  /\ journal => wal = 0
  /\ moments = {[main |-> main, wal |-> wal, journal |-> journal]}
  /\ todo \in {Program(kind) : kind \in Kinds}
  /\ print = Nothing /\ copy = {} /\ connection = "none" /\ read = [files |-> {}, fresh |-> FALSE]
  /\ late = FALSE /\ wanted \in BOOLEAN /\ reason = "none"
  /\ closing = FALSE /\ error = "none" /\ outcome = "none"

-------------------------------------------------------------------------------
Doing(instruction) == todo # <<>> /\ Head(todo) = instruction

Go == todo' = Tail(todo) /\ UNCHANGED <<closing, error>>

(* An error of connection's body leads to its finally clause; one before   *)
(* that only to the end of the temporary directory.  The first one counts. *)
Raise(kind) ==
  /\ error' = IF error = "none" THEN kind ELSE error
  /\ closing' = (connection # "none")
  /\ todo' = IF closing THEN <<"rmdtemp">> ELSE IF connection # "none" THEN Finally ELSE <<"rmdtemp">>

(* Any access is by way of the directory that was captured at the start    *)
(* (_open_posix_parent), and a file of any size may be cancelled or fail.  *)
Access(finds, otherwise) ==
  IF ~ root THEN Raise("changed") ELSE IF finds THEN Go ELSE Raise(otherwise)

Interrupts ==
  \/ wanted /\ Raise("cancelled")
  \/ Raise("io")

Rest == UNCHANGED <<source, clock, copy, connection, read, reason, outcome>>

(* _assert_no_unsafe_sidecars: one look at a time.                         *)
FindJournal ==
  /\ Doing("no journal") /\ Access(~ journal, "sidecar")
  /\ UNCHANGED print /\ Rest

FindShm ==
  /\ Doing("find shm")
  /\ IF root /\ shm = 0 THEN todo' = Tail(Tail(todo)) /\ UNCHANGED <<closing, error>> ELSE Access(TRUE, "sidecar")
  /\ UNCHANGED print /\ Rest

FindWal ==
  /\ Doing("find wal") /\ Access(wal # 0, "sidecar")
  /\ UNCHANGED print /\ Rest

(* fingerprint_source                                                      *)
Printing(instruction, part, content, otherwise) ==
  /\ Doing(instruction)
  /\ \/ Access(otherwise = "none", otherwise) /\ print' = IF root THEN [print EXCEPT ![part] = content] ELSE print
     \/ Interrupts /\ UNCHANGED print
  /\ Rest

PrintMain == Printing("print main", "main", main, "none")
PrintWal == Printing("print wal", "wal", wal, "none")
PrintShm == Printing("print shm", "shm", shm, IF print.wal = 0 /\ shm # 0 THEN "sidecar" ELSE "none")

StillNoJournal ==
  /\ Doing("still no journal") /\ Access(~ journal, "sidecar")
  /\ UNCHANGED print /\ Rest

(* verify_source                                                           *)
Same(instruction, holds) ==
  /\ Doing(instruction)
  /\ Access(holds, "changed") \/ Interrupts
  /\ UNCHANGED print /\ Rest

VerifySource ==
  \/ Same("same journal", ~ journal)
  \/ Same("same main", main = print.main)
  \/ Same("same wal", wal = print.wal)
  \/ Same("same shm", shm = print.shm)

Begin(kind) ==
  /\ Doing(kind)
  /\ todo' = Snapshot \o Body(kind) \o Finally
  /\ UNCHANGED <<print, closing, error>> /\ Rest

-------------------------------------------------------------------------------
(* connection                                                              *)
MakeTemporary ==
  /\ Doing("mkdtemp") /\ Go /\ copy' = {<<"directory", 0>>}
  /\ UNCHANGED <<source, clock, print, connection, read, reason, outcome>>

(* _copy_bound_to, _copy_auxiliary_bound_to: what is copied is what was    *)
(* fingerprinted, or nothing.                                              *)
Copy(instruction, part, content) ==
  /\ Doing(instruction)
  /\ \/ Access(content = print[part], "changed")
        /\ copy' = IF root /\ content = print[part] THEN copy \cup {<<part, content>>} ELSE copy
     \/ Interrupts /\ UNCHANGED copy
  /\ UNCHANGED <<source, clock, print, connection, read, reason, outcome>>

CopyMain == Copy("copy main", "main", main)
CopyWal == Copy("copy wal", "wal", wal)

(* _consolidate_wal_snapshot works on the copies alone; a log without a    *)
(* transaction or with damage is refused.                                  *)
Consolidate ==
  /\ Doing("consolidate")
  /\ \/ Go /\ copy' = copy \cup {<<"consolidated", 0>>}
     \/ UNCHANGED copy /\ (Raise("sidecar") \/ Interrupts)
  /\ UNCHANGED <<source, clock, print, connection, read, reason, outcome>>

(* From here on a cancellation is noted when it is requested; one that was *)
(* requested before is noted at once.                                      *)
Open ==
  /\ Doing("open")
  /\ \/ connection' = "open" /\ reason' = (IF wanted THEN "cancelled" ELSE "none") /\ Go
     \/ connection' = "open" /\ UNCHANGED reason /\ error' = "sqlite" /\ closing' = TRUE /\ todo' = Finally
     \/ UNCHANGED <<connection, reason>> /\ Raise("sqlite")
  /\ UNCHANGED <<source, clock, print, copy, read, outcome>>

(* The caller reads; the progress handler interrupts what runs too long or *)
(* is not wanted any more, and the first reason is the one that is told.   *)
Why == IF reason # "none" THEN reason ELSE IF late THEN "timeout" ELSE IF wanted THEN "cancelled" ELSE "none"

Read ==
  /\ Doing("read")
  /\ \/ Go /\ UNCHANGED reason
        /\ read' = [files |-> copy, fresh |-> root /\ main = print.main /\ wal = print.wal]
     \/ /\ UNCHANGED read
        /\ \/ Why # "none" /\ reason' = Why /\ Raise(Why)
           \/ wanted /\ Raise("cancelled") /\ UNCHANGED reason
           \/ Raise("sqlite") /\ UNCHANGED reason
  /\ UNCHANGED <<source, clock, print, copy, connection, outcome>>

(* The finally clause goes on to verify whatever the closing does.         *)
Close ==
  /\ Doing("close") /\ closing' = TRUE /\ connection' = "closed"
  /\ todo' = Tail(todo)
  /\ error' \in {error, IF error = "none" THEN "sqlite" ELSE error}
  /\ UNCHANGED <<source, clock, print, copy, read, reason, outcome>>

RemoveTemporary ==
  /\ Doing("rmdtemp") /\ Go /\ copy' = {}
  /\ outcome' = IF error = "none" THEN "ok" ELSE error
  /\ UNCHANGED <<source, clock, print, connection, read, reason>>

-------------------------------------------------------------------------------
(* What RootsMagic does, or whoever else.  It writes the main file under a *)
(* rollback journal or after a log; a log is written after its index.      *)
Changed ==
  /\ changes < MaxChanges /\ changes' = changes + 1
  /\ todo # <<>>
  /\ moments' = moments \cup {[main |-> main', wal |-> wal', journal |-> journal']}
  /\ UNCHANGED <<todo, print, copy, connection, read, clock, reason, closing, error, outcome>>

New == changes + 2

Journals ==
  wal = 0 /\ journal' = ~ journal /\ UNCHANGED <<main, wal, shm, root>> /\ Changed
Writes ==
  (journal \/ wal # 0) /\ main' = New /\ UNCHANGED <<wal, shm, journal, root>> /\ Changed
Indexes ==
  /\ ~ journal /\ shm' \in {New} \cup (IF wal = 0 THEN {0} \ {shm} ELSE {})
  /\ UNCHANGED <<main, wal, journal, root>> /\ Changed
Logs ==
  /\ ~ journal /\ shm # 0 /\ wal' \in {New} \cup ({0} \ {wal})
  /\ UNCHANGED <<main, shm, journal, root>> /\ Changed
Moves ==
  root /\ root' = FALSE /\ UNCHANGED <<main, wal, shm, journal>> /\ Changed

(* note_cancellation, and the clock.                                       *)
Cancel ==
  /\ ~ wanted /\ todo # <<>> /\ wanted' = TRUE
  /\ reason' = IF connection # "open" \/ reason # "none" THEN reason ELSE IF late THEN "timeout" ELSE "cancelled"
  /\ UNCHANGED <<source, todo, print, copy, connection, read, late, closing, error, outcome>>

PassDeadline ==
  /\ ~ late /\ connection = "open" /\ late' = TRUE
  /\ UNCHANGED <<source, todo, print, copy, connection, read, wanted, reason, closing, error, outcome>>

Step ==
  \/ FindJournal \/ FindShm \/ FindWal \/ PrintMain \/ PrintWal \/ PrintShm \/ StillNoJournal
  \/ VerifySource \/ \E kind \in Kinds : Begin(kind)
  \/ MakeTemporary \/ CopyMain \/ CopyWal \/ Consolidate \/ Open \/ Read \/ Close \/ RemoveTemporary

Next == Step \/ Journals \/ Writes \/ Indexes \/ Logs \/ Moves \/ Cancel \/ PassDeadline

Spec == Init /\ [][Next]_vars
-------------------------------------------------------------------------------
TypeOK ==
  /\ {main, wal, shm, print.main, print.wal, print.shm} \subseteq 0..(MaxChanges + 1)
  /\ connection \in {"none", "open", "closed"}
  /\ {reason, error, outcome} \subseteq {"none", "ok", "changed", "sidecar", "io", "sqlite", "cancelled", "timeout"}

(* What a successful operation returns was the database at one moment of   *)
(* it, main file and log of one generation, with no transaction of a       *)
(* rollback journal half written; and the source was still the same when   *)
(* the caller read last (fingerprint_source, verify_source, connection).   *)
OneGeneration ==
  outcome = "ok" =>
    /\ [main |-> print.main, wal |-> print.wal, journal |-> FALSE] \in moments
    /\ read.fresh
    /\ <<"main", print.main>> \in read.files
    /\ IF print.wal = 0 THEN read.files = {<<"directory", 0>>, <<"main", print.main>>}
       ELSE {<<"wal", print.wal>>, <<"consolidated", 0>>} \subseteq read.files

(* No copy of somebody's family outlives its operation, and the operation  *)
(* tells why it failed: a change that was one, a timeout that was late, a  *)
(* cancellation that was asked for (connection).                           *)
EndsTruly ==
  outcome # "none" =>
    /\ copy = {} /\ connection # "open"
    /\ outcome = "changed" => changes > 0
    /\ outcome = "timeout" => late /\ reason = "timeout"
    /\ outcome = "cancelled" => wanted
===============================================================================
