------------------------------ MODULE LogFile ------------------------------
(***************************************************************************)
(* A size-rotated log and the command that follows it, from logfile.rs,    *)
(* AuditLog of audit.rs, record_exchange of server.rs and cli/tail.rs.     *)
(*                                                                         *)
(* The server appends one record a line, in two writes, and renames the    *)
(* file away before a line that would not fit.  Nothing is locked between  *)
(* the server and a follower, which reads what is there, sleeps, and looks *)
(* whether the name still leads to the file it reads.                      *)
(*                                                                         *)
(* A file is the sequence of what was written to it: a record's number for *)
(* its text, Lf, or Part of a record when a write fell short.              *)
(***************************************************************************)
EXTENDS Integers, Sequences, FiniteSets

CONSTANTS Room,        \* max_bytes, in lines
          Retained,    \* retained_files
          Count,       \* the history a follower asks for: -n
          MaxRecord,   \* bound: records appended
          MaxFault     \* bound: kills of the server and failed calls

\* validate.rs keeps at least one rotated file.
LogFileAssumption == Retained \in Nat \ {0} /\ Count \in Nat

VARIABLES
  name,     \* the file each name leads to: 0 the active one, n the rotated .n
  content,  \* what each file holds; they are numbered as they were created
  writer,   \* RotatingFile and where its append is
  begun,    \* records whose append began
  written,  \* history: those whose append returned
  reader,   \* Reader and where its loop is
  printed,  \* the records a follower printed
  faults

vars == <<name, content, writer, begun, written, reader, printed, faults>>

NoFile == 0
Lf == 0
Part == -1
Fault == faults < MaxFault /\ faults' = faults + 1

NewWriter(f, size) == [pc |-> "idle", file |-> f, size |-> size, k |-> 0]
Down == [pc |-> "down", file |-> NoFile, size |-> 0, k |-> 0]
NewReader == [pc |-> "none", file |-> NoFile, pos |-> 0, partial |-> <<>>]

\* A record that a reader finds is alone on its line.
Alone(text, i) ==
  /\ i = 1 \/ text[i - 1] = Lf
  /\ i < Len(text) /\ text[i + 1] = Lf

\* The n-th of a set of places of a text.
Nth(places, n) == CHOOSE i \in places : Cardinality({k \in places : k <= i}) = n

\* The records of a text, in the order of their places.
Records(text) ==
  LET places == {i \in 1 .. Len(text) : Alone(text, i) /\ text[i] > 0}
  IN [n \in 1 .. Cardinality(places) |-> text[Nth(places, n)]]

\* Where the last complete line of a text ends.
Complete(text) ==
  CHOOSE n \in 0 .. Len(text) :
    /\ n = 0 \/ text[n] = Lf
    /\ \A m \in n + 1 .. Len(text) : text[m] # Lf

Init ==
  /\ name = [n \in 0 .. Retained |-> IF n = 0 THEN 1 ELSE NoFile]
  /\ content = <<<<>>>> /\ writer = NewWriter(1, 0)
  /\ begun = 0 /\ written = {}
  /\ reader = NewReader /\ printed = <<>> /\ faults = 0

----------------------------------------------------------------------------
(* The server: append_line and rotate. *)

At(pc) == writer.pc = pc
Goto(pc) == writer' = [writer EXCEPT !.pc = pc]
Reading == UNCHANGED <<reader, printed>>

\* One line: the record's text and its end.
Needed == 2
Fits == writer.size = 0 \/ writer.size + Needed <= Room * Needed

\* The log's lock lets one record in at a time.
Begins ==
  /\ At("idle") /\ begun < MaxRecord /\ begun' = begun + 1
  /\ Goto(IF Fits THEN "line" ELSE "remove")
  /\ Reading /\ UNCHANGED <<name, content, written, faults>>

\* rotate: the oldest goes, whatever the removal answers; the others move up
\* from the oldest, each name in a call of its own.
Remove ==
  /\ At("remove") /\ name' = [name EXCEPT ![Retained] = NoFile]
  /\ writer' = [writer EXCEPT !.pc = "shift", !.k = Retained - 1]
  /\ Reading /\ UNCHANGED <<content, begun, written, faults>>

Shift ==
  /\ At("shift") /\ writer.k > 0
  /\ name' = IF name[writer.k] = NoFile THEN name
             ELSE [name EXCEPT ![writer.k + 1] = name[writer.k], ![writer.k] = NoFile]
  /\ writer' = [writer EXCEPT !.k = @ - 1]
  /\ Reading /\ UNCHANGED <<content, begun, written, faults>>

\* The active file is renamed away.  There is none when an earlier rotation
\* renamed it and failed to open the next.
RenameActive ==
  /\ At("shift") /\ writer.k = 0
  /\ IF name[0] = NoFile THEN Goto("idle") /\ UNCHANGED name
     ELSE Goto("open") /\ name' = [name EXCEPT ![0] = NoFile, ![1] = name[0]]
  /\ Reading /\ UNCHANGED <<content, begun, written, faults>>

\* open_private_append: what the name leads to, or a new file.
Opened(f) ==
  /\ f = (IF name[0] = NoFile THEN Len(content) + 1 ELSE name[0])
  /\ name' = [name EXCEPT ![0] = f]
  /\ content' = IF name[0] = NoFile THEN Append(content, <<>>) ELSE content

OpenNext ==
  /\ At("open")
  /\ \E f \in 1 .. Len(content) + 1 :
       Opened(f) /\ writer' = [writer EXCEPT !.pc = "line", !.file = f, !.size = 0]
  /\ Reading /\ UNCHANGED <<begun, written, faults>>

Writes(token) == content' = [content EXCEPT ![writer.file] = Append(@, token)]

WriteLine ==
  /\ At("line") /\ Writes(begun) /\ Goto("end")
  /\ Reading /\ UNCHANGED <<name, begun, written, faults>>

WriteEnd ==
  /\ At("end") /\ Writes(Lf) /\ written' = written \cup {begun}
  /\ writer' = [writer EXCEPT !.pc = "idle", !.size = @ + Needed]
  /\ Reading /\ UNCHANGED <<name, begun, faults>>

\* A call that fails ends the append; a write may have written a part.
\* record_exchange then stops admission, while exchanges in flight still append.
Fails ==
  /\ writer.pc \in {"shift", "open", "line", "end"} /\ Fault /\ Goto("idle")
  /\ \/ UNCHANGED content
     \/ At("line") /\ Writes(Part)
  /\ Reading /\ UNCHANGED <<name, begun, written>>

Kill ==
  /\ writer # Down /\ Fault /\ writer' = Down
  /\ Reading /\ UNCHANGED <<name, content, begun, written>>

Start ==
  /\ writer = Down
  /\ \E f \in 1 .. Len(content) + 1 : Opened(f) /\ writer' = NewWriter(f, Len(content'[f]))
  /\ Reading /\ UNCHANGED <<begun, written, faults>>

----------------------------------------------------------------------------
(* The follower: open, then drain and reopen_after_rotation at every poll. *)

Server == UNCHANGED <<name, content, writer, begun, written, faults>>

\* drain: the complete lines past what was read; the rest is kept until its end
\* arrives.
Held == IF reader.file = NoFile THEN <<>>
        ELSE reader.partial \o SubSeq(content[reader.file], reader.pos + 1, Len(content[reader.file]))
Drained(pc) == [reader EXCEPT !.pc = pc,
                              !.pos = IF reader.file = NoFile THEN 0 ELSE Len(content[reader.file]),
                              !.partial = SubSeq(Held, Complete(Held) + 1, Len(Held))]
Found == Records(SubSeq(Held, 1, Complete(Held)))

Open ==
  /\ reader.pc = "none" /\ reader' = [NewReader EXCEPT !.pc = "history", !.file = name[0]]
  /\ Server /\ UNCHANGED printed

\* last_matches.
History ==
  /\ reader.pc = "history" /\ reader' = Drained("drain")
  /\ printed' = SubSeq(Found, IF Len(Found) > Count THEN Len(Found) - Count + 1 ELSE 1, Len(Found))
  /\ Server

Drain ==
  /\ reader.pc = "drain" /\ reader' = Drained("reopen") /\ printed' = printed \o Found
  /\ Server

\* Mutant: whatever the name leads to is read from its start.
ReopenAlways ==
  /\ reader.pc = "reopen"
  /\ reader' = IF name[0] = NoFile THEN [reader EXCEPT !.pc = "drain"]
               ELSE [NewReader EXCEPT !.pc = "drain", !.file = name[0]]
  /\ Server /\ UNCHANGED printed

\* A file that was truncated is read again: the server only ever appends.
Shrank == Len(content[name[0]]) < reader.pos

Reopen ==
  /\ reader.pc = "reopen"
  /\ reader' = IF name[0] # NoFile /\ (name[0] # reader.file \/ Shrank)
               THEN [NewReader EXCEPT !.pc = "drain", !.file = name[0]]
               ELSE [reader EXCEPT !.pc = "drain"]
  /\ Server /\ UNCHANGED printed

AppendStep == Begins \/ Remove \/ Shift \/ RenameActive \/ OpenNext \/ WriteLine \/ WriteEnd \/ Fails
Follow == Open \/ History \/ Drain \/ Reopen

Next == AppendStep \/ Kill \/ Start \/ Follow

Spec == Init /\ [][Next]_vars

----------------------------------------------------------------------------
(* Properties. *)

\* A follower prints records in the order they were appended and none twice:
\* through rotations caught at any step, an active file that is missing for a
\* moment or for good, torn lines and restarts of the server.
PrintedInOrder == \A i, j \in 1 .. Len(printed) : i < j => printed[i] < printed[j]

\* tail.rs:315-316 "the old one has been rotated away and drained": a follower
\* leaves a file only when it has read all of it.
LeavesNothing ==
  [][reader.file # NoFile /\ reader'.file # reader.file
       => reader.pos = Len(content[reader.file])]_vars

\* audit.rs:1 "One record per exchange, unconditional.": a record whose append
\* returned stands alone on its line.
WrittenReadable ==
  \A r \in written :
    \E f \in 1 .. Len(content) : \E i \in 1 .. Len(content[f]) : content[f][i] = r /\ Alone(content[f], i)
=============================================================================
