------------------------------- MODULE FileIngress -------------------------------
(***************************************************************************)
(* FileIngressPolicy: how a file that the user names is read, digested or  *)
(* copied within its limits, while other programs may write, replace or    *)
(* remove it (core/ingress.py).                                            *)
(*                                                                         *)
(* A file is the sequence of its bytes; "n" ends a line.  Every change of  *)
(* a file has a number of its own, which stands for the times and the size *)
(* in a FileSnapshot.  A digest is the bytes it was taken of.              *)
(***************************************************************************)
EXTENDS Naturals, Sequences, SequencesExt

CONSTANTS
  Kinds,       \* operations: subset of {"text", "copy"}
  Contents,    \* what a file may hold
  MaxBytes, MaxLine, MaxRecords,  \* the limits of the kind of input
  Chunk,       \* bytes that one read of the file returns at most
  MaxChanges   \* bound on what other programs do meanwhile

VARIABLES
  files,     \* files[f]: the number of the last change of file f
  was,       \* was[c]: the bytes after change c
  source,    \* the file under the name to be read, or 0
  target,    \* the file under the name of the copy, or 0
  foreign,   \* history: the file that another program put there last, or 0
  kind, passes, step,
  preflight, \* snapshot of the name
  expected,  \* snapshot of the pass before, <<>> at first
  open,      \* the opened file and its snapshot, or <<>>
  taken,     \* bytes consumed by this pass
  eof,       \* the last read returned nothing
  lines,     \* lines the caller has got
  print,     \* digest of the fingerprint
  made,      \* the file that the copy has created, or 0
  outcome,
  changes    \* of other programs
vars == <<files, was, source, target, foreign, kind, passes, step, preflight, expected, open,
          taken, eof, lines, print, made, outcome, changes>>

(* inspect, then the text; or inspect and sha256 for the fingerprint, then *)
(* copy_to.                                                                *)
Passes(k) == IF k = "text" THEN <<"inspect", "lines">> ELSE <<"inspect", "digest", "copy">>

Snapshot(f) == <<f, files[f]>>
Bytes(f) == was[files[f]]

Init ==
  /\ files = <<1>> /\ was \in {<<c>> : c \in Contents}
  /\ source = 1 /\ target = 0 /\ foreign = 0
  /\ kind \in Kinds /\ passes = Passes(kind) /\ step = "preflight"
  /\ preflight = <<>> /\ expected = <<>> /\ open = <<>>
  /\ taken = <<>> /\ eof = FALSE /\ lines = <<>> /\ print = <<>> /\ made = 0
  /\ outcome = "none" /\ changes = 0

-------------------------------------------------------------------------------
Pass == Head(passes)
Doing(s) == outcome = "none" /\ step = s /\ UNCHANGED changes
To(s) == step' = s /\ UNCHANGED <<target, outcome>>

(* An error closes the file; the copy also removes the target that it has  *)
(* made, as long as that is what the name stands for (cleanup_open_path).  *)
Raise(code) ==
  /\ outcome' = code
  /\ target' = IF made # 0 /\ target = made THEN 0 ELSE target
  /\ UNCHANGED step

Unless(problem, code, otherwise) == IF problem THEN Raise(code) ELSE To(otherwise)

Still == UNCHANGED <<files, was, source, foreign, kind>>
Opening == UNCHANGED <<taken, eof, lines, print, made>>
Reading == UNCHANGED <<passes, preflight, expected, open, print>>

(* _open_descriptor: the name is looked at before it is opened, and the    *)
(* opened file has to be what was seen.                                    *)
Preflight ==
  /\ Doing("preflight")
  /\ IF source = 0 THEN Raise("unreadable") /\ UNCHANGED preflight
     ELSE /\ preflight' = Snapshot(source)
          /\ IF Len(Bytes(source)) > MaxBytes THEN Raise("too large")
             ELSE Unless(expected \notin {<<>>, Snapshot(source)}, "changed", "open")
  /\ Still /\ Opening /\ UNCHANGED <<passes, expected, open>>

Open ==
  /\ Doing("open")
  /\ Unless(source = 0, "unreadable", "fstat")
  /\ open' = IF source = 0 THEN <<>> ELSE <<source>>
  /\ Still /\ Opening /\ UNCHANGED <<passes, preflight, expected>>

(* What is no archive and of the right format is decided by its first      *)
(* bytes.  inspect ends here.                                              *)
Fstat ==
  /\ Doing("fstat")
  /\ open' = Snapshot(open[1])
  /\ \/ /\ Len(Bytes(open[1])) > MaxBytes /\ Raise("too large")
        /\ UNCHANGED <<passes, expected>>
     \/ /\ Len(Bytes(open[1])) <= MaxBytes /\ Snapshot(open[1]) # preflight /\ Raise("changed")
        /\ UNCHANGED <<passes, expected>>
     \/ /\ Len(Bytes(open[1])) <= MaxBytes /\ Snapshot(open[1]) = preflight
        /\ \/ Raise("format") /\ UNCHANGED <<passes, expected>>
           \/ /\ Pass = "inspect" /\ expected' = preflight /\ passes' = Tail(passes) /\ To("preflight")
           \/ /\ Pass # "inspect" /\ To(IF Pass = "copy" THEN "create" ELSE "check")
              /\ UNCHANGED <<passes, expected>>
  /\ Still /\ Opening /\ UNCHANGED preflight

(* target.open("xb")                                                       *)
Create ==
  /\ Doing("create")
  /\ IF target # 0
       THEN Raise("exists") /\ UNCHANGED <<files, was, made>>
       ELSE /\ files' = Append(files, Len(was) + 1) /\ was' = Append(was, <<>>)
            /\ made' = Len(files) + 1 /\ target' = Len(files) + 1
            /\ step' = "check" /\ UNCHANGED outcome
  /\ Reading /\ UNCHANGED <<source, foreign, kind, taken, eof, lines>>

-------------------------------------------------------------------------------
(* _BoundedRawReader.readinto and _bounded_chunks: the size is looked at   *)
(* before and after each read, and past the budget one byte is tried.      *)
TooLarge == Len(Bytes(open[1])) > MaxBytes

Check ==
  /\ Doing("check") /\ Unless(TooLarge, "too large", "read")
  /\ Still /\ Reading /\ UNCHANGED <<taken, eof, lines, made>>

Least(a, b) == IF a < b THEN a ELSE b

ReadBeyond(rest) ==  \* one possible bug: the budget is looked at between reads only
  SubSeq(rest, 1, Least(Len(rest), Chunk))

ReadWithin(rest) == SubSeq(rest, 1, Least(Len(rest), Least(Chunk, MaxBytes - Len(taken))))

Copied(chunk) ==
  IF Pass # "copy" \/ chunk = <<>> THEN UNCHANGED <<files, was>>
  ELSE /\ files' = [files EXCEPT ![made] = Len(was) + 1]
       /\ was' = Append(was, Bytes(made) \o chunk)

Read ==
  /\ Doing("read")
  /\ LET rest == SubSeq(Bytes(open[1]), Len(taken) + 1, Len(Bytes(open[1])))
         chunk == ReadWithin(rest)
     IN \/ /\ Len(taken) = MaxBytes /\ rest # <<>>
           /\ Raise("too large") /\ UNCHANGED <<files, was, taken, eof>>
        \/ /\ Len(taken) < MaxBytes \/ rest = <<>>
           /\ Copied(chunk) /\ taken' = taken \o chunk /\ eof' = (chunk = <<>>)
           /\ To(IF chunk # <<>> THEN "recheck" ELSE IF Pass = "lines" THEN "line" ELSE "last check")
        \/ Raise("io") /\ UNCHANGED <<files, was, taken, eof>>
        \/ Raise("cancelled") /\ UNCHANGED <<files, was, taken, eof>>
  /\ Reading /\ UNCHANGED <<source, foreign, kind, lines, made>>

Recheck ==
  /\ Doing("recheck") /\ Unless(TooLarge, "too large", IF Pass = "lines" THEN "line" ELSE "check")
  /\ Still /\ Reading /\ UNCHANGED <<taken, eof, lines, made>>

LastCheck ==
  /\ Doing("last check") /\ Unless(TooLarge, "too large", "same file")
  /\ Still /\ Reading /\ UNCHANGED <<taken, eof, lines, made>>

(* iter_text_line_items.  readline(read_limit) reads on until it has a     *)
(* whole line, as much as it may return, or the end.                       *)
Unread == SubSeq(taken, Len(FlattenSeq(lines)) + 1, Len(taken))
Length(text) ==
  IF \E k \in DOMAIN text : text[k] = "n"
    THEN CHOOSE k \in DOMAIN text : text[k] = "n" /\ \A j \in 1..(k - 1) : text[j] # "n"
    ELSE Len(text)
Readline == SubSeq(Unread, 1, Least(Length(Unread), MaxLine + 2))

Complete == Len(Readline) = MaxLine + 2 \/ (Readline # <<>> /\ Last(Readline) = "n")

ReadOn ==
  /\ Doing("line") /\ ~ Complete /\ ~ eof /\ To("check")
  /\ Still /\ Reading /\ UNCHANGED <<taken, eof, lines, made>>

Line ==
  /\ Doing("line") /\ (Complete \/ eof) /\ Readline # <<>>
  /\ IF Len(Readline) > MaxLine THEN Raise("line") /\ UNCHANGED lines
     ELSE IF Len(lines) = MaxRecords THEN Raise("records") /\ UNCHANGED lines
     ELSE lines' = Append(lines, Readline) /\ UNCHANGED <<step, target, outcome>>
  /\ eof' = FALSE
  /\ Still /\ Reading /\ UNCHANGED <<taken, made>>

NoLine ==
  /\ Doing("line") /\ eof /\ Readline = <<>> /\ To("same file")
  /\ Still /\ Reading /\ UNCHANGED <<taken, eof, lines, made>>

(* The opened file, then the name (assert_unchanged).  The copy also       *)
(* compares its digest.                                                    *)
Altered == Snapshot(open[1]) # open \/ (Pass = "copy" /\ taken # print)

SameFile ==
  /\ Doing("same file") /\ Unless(Altered, "changed", "same name")
  /\ Still /\ Reading /\ UNCHANGED <<taken, eof, lines, made>>

SameStill == source = open[1] /\ Snapshot(open[1]) = open

SameName ==
  /\ Doing("same name")
  /\ \/ /\ ~ SameStill
        /\ Raise("changed") /\ UNCHANGED <<passes, taken, eof, print>>
     \/ /\ SameStill
        /\ IF Len(passes) = 1
             THEN outcome' = "ok" /\ UNCHANGED <<step, target, passes, taken, eof, print>>
             ELSE To("preflight") /\ passes' = Tail(passes) /\ print' = taken /\ taken' = <<>> /\ eof' = FALSE
  /\ Still /\ UNCHANGED <<preflight, expected, open, lines, made>>

-------------------------------------------------------------------------------
(* Other programs write the file or put another one in its place, or in    *)
(* the place of the copy.                                                  *)
Meanwhile ==
  /\ outcome = "none" /\ changes < MaxChanges /\ changes' = changes + 1
  /\ UNCHANGED <<kind, passes, step, preflight, expected, open, taken, eof, lines, print, made, outcome>>

Written(f, content) == files' = [files EXCEPT ![f] = Len(was) + 1] /\ was' = Append(was, content)
New(content) == files' = Append(files, Len(was) + 1) /\ was' = Append(was, content)

Write ==
  /\ source # 0 /\ \E c \in Contents : Written(source, c)
  /\ UNCHANGED <<source, target, foreign>> /\ Meanwhile
WriteOpened ==
  /\ open # <<>> /\ source # open[1] /\ \E c \in Contents : Written(open[1], c)
  /\ UNCHANGED <<source, target, foreign>> /\ Meanwhile
Replace ==
  /\ \E c \in Contents : New(c)
  /\ source' = Len(files) + 1
  /\ UNCHANGED <<target, foreign>> /\ Meanwhile
Unlink ==
  /\ source # 0 /\ source' = 0
  /\ UNCHANGED <<files, was, target, foreign>> /\ Meanwhile
Displace ==
  /\ kind = "copy" /\ New(<<>>) /\ target' = Len(files) + 1 /\ foreign' = Len(files) + 1
  /\ UNCHANGED source /\ Meanwhile

Step ==
  \/ Preflight \/ Open \/ Fstat \/ Create \/ Check \/ Read \/ Recheck \/ LastCheck
  \/ ReadOn \/ Line \/ NoLine \/ SameFile \/ SameName

Next ==
  \/ Step
  \/ Write \/ WriteOpened \/ Replace \/ Unlink \/ Displace

Spec == Init /\ [][Next]_vars
-------------------------------------------------------------------------------
TypeOK ==
  /\ source \in 0..Len(files) /\ target \in 0..Len(files) /\ made \in 0..Len(files)
  /\ \A f \in DOMAIN files : files[f] \in DOMAIN was
  /\ Pass \in {"inspect", "lines", "digest", "copy"}

(* What a successful operation returns is the whole content that the file  *)
(* had all the while, under its name; the lines are that text, and the     *)
(* copy holds it unless somebody put another one in its place              *)
(* (iter_text_line_items, sha256, copy_to).                                *)
WholeOrNothing ==
  outcome = "ok" =>
    /\ Snapshot(source) = expected
    /\ taken = Bytes(source)
    /\ kind = "text" => FlattenSeq(lines) = taken
    /\ kind = "copy" => Bytes(made) = taken /\ print = taken /\ (target = made \/ target = foreign)

(* No more is ever consumed than the budget, nor given to the caller; and  *)
(* a refusal has its cause (_BoundedRawReader, _bounded_chunks).           *)
WithinBudget ==
  /\ Len(taken) <= MaxBytes /\ Len(lines) <= MaxRecords
  /\ \A k \in DOMAIN lines : Len(lines[k]) <= MaxLine
  /\ outcome = "changed" => changes > 0
  /\ outcome = "too large" => \E c \in DOMAIN was : Len(was[c]) > MaxBytes
  /\ outcome = "line" => Len(Readline) > MaxLine
  /\ outcome = "records" => Len(lines) = MaxRecords /\ Len(taken) > Len(FlattenSeq(lines))

(* A copy that failed is gone, and a file of somebody else in its place    *)
(* stays (copy_to, cleanup_open_path).                                     *)
TargetsStay ==
  /\ outcome \notin {"none", "ok"} /\ made # 0 => target # made
  /\ foreign # 0 => target = foreign
===============================================================================
