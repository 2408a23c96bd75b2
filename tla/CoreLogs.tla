------------------------------ MODULE CoreLogs ------------------------------
(***************************************************************************)
(* The captured output of the core: corelogs/files.go, retention.go and    *)
(* follow.go with their routes in httpapi/product_log_routes.go.           *)
(*                                                                         *)
(* The process writes to its pipes and, if it is configured so, to a file  *)
(* of its own that is followed. Both are cut into lines and appended to    *)
(* files, one or more for each day, which are cleared, deleted and pruned  *)
(* while somebody reads one of them chunk by chunk. Sizes and offsets are  *)
(* counted in lines, an output in pieces of a line. The output of the      *)
(* commands that check a configuration is left out, and the clock is never *)
(* set back to an earlier day.                                             *)
(***************************************************************************)
EXTENDS Integers, FiniteSets, Sequences, Functions

CONSTANTS
  Policies,             \* what the settings may ask for
  ChunkLines,           \* maxChunkBytes
  LinePieces,           \* MaximumLogMessageBytes
  MaxPieces, MaxDay, MaxEvents   \* bounds

VARIABLES
  day,
  core, written,        \* the run of the core, and how many pieces were written
  native,               \* the file that the core writes by itself
  files, policy, active, epoch, generations, drawn,   \* Files, and the random values drawn
  pending, follower,    \* writer.pending and fileFollower
  reader,               \* a reader of a file
  events                \* how many rotations, clears, restarts and changes of policy

worldVars == <<day, core, written, native>>
fileVars == <<files, policy, active, epoch, generations, drawn>>
logVars == <<worldVars, fileVars, pending, follower, reader, events>>

Names == (0 .. MaxDay) \X (0 .. MaxPieces)
NoFile == <<0 - 1, 0>>
Writers == {"output", "file"}
NotFollowing == [on |-> FALSE, inode |-> 0, offset |-> 0]
NoReader == [file |-> NoFile, generation |-> 0, from |-> 0, offset |-> 0, text |-> <<>>]
Piece(by, from, ends) == [by |-> by, from |-> from, n |-> written + 1, ends |-> ends]

\* logFileIndex: a name is a day and an index, and files are listed in this order.
Older(m, n) == m[1] < n[1] \/ (m[1] = n[1] /\ m[2] < n[2])

TypeOK ==
  /\ day \in 0 .. MaxDay /\ core \in 0 .. MaxPieces /\ written \in 0 .. MaxPieces
  /\ DOMAIN files \subseteq Names /\ DOMAIN generations \subseteq Names
  /\ policy \in Policies /\ active \in Names \cup {NoFile} /\ epoch \in 1 .. drawn
  /\ \A w \in Writers : \A i \in 1 .. Len(pending[w]) : pending[w][i].by = w
  /\ follower.on \in BOOLEAN /\ reader.file \in Names \cup {NoFile}

Init ==
  /\ day = 0 /\ core = 0 /\ written = 0
  /\ native = [inode |-> 1, text |-> <<>>]
  /\ files = [n \in {} |-> n] /\ policy \in Policies /\ active = NoFile
  /\ epoch = 1 /\ generations = [n \in {} |-> n] /\ drawn = 1
  /\ pending = [w \in Writers |-> <<>>] /\ follower = NotFollowing
  /\ reader = NoReader /\ events = 0

-----------------------------------------------------------------------------
(* Files *)

\* pruneLocked: what is left of the names, the oldest go first.
Retained(names, last, p, today) ==
  LET cutoff == today + 1 - p.days
      kept == {n \in names : n[1] >= cutoff}
      excess == IF p.files = 0 THEN 0 ELSE Cardinality(kept) - p.files
      prunable == kept \ {last}
  IN kept \ {n \in prunable : Cardinality({m \in prunable : Older(m, n)}) < excess}

Prune(fs, last, p, today) ==
  LET names == Retained(DOMAIN fs, last, p, today)
  IN files' = Restrict(fs, names) /\ generations' = Restrict(generations, names \cap DOMAIN generations)

\* Mutant: the first file of the day with room, or the first free index.
FirstGap(lines) ==
  LET today == {n \in DOMAIN files : n[1] = day}
      free == {n \in {<<day, i>> : i \in 0 .. MaxPieces} :
                 n \in today => Len(files[n]) + Len(lines) <= policy.lines}
  IN CHOOSE n \in free : \A m \in free : m = n \/ Older(n, m)

\* The file that an append goes to: the newest of the day, or the next one.
Segment(lines) ==
  LET today == {n \in DOMAIN files : n[1] = day}
      newest == CHOOSE n \in today : \A m \in today : m = n \/ Older(m, n)
  IN IF today = {} THEN <<day, 0>>
     ELSE IF lines # <<>> /\ Len(files[newest]) + Len(lines) > policy.lines THEN <<day, newest[2] + 1>>
     ELSE newest

append(lines) ==
  LET name == Segment(lines)
      old == IF name \in DOMAIN files THEN files[name] ELSE <<>>
  IN /\ active' = name
     /\ Prune([n \in DOMAIN files \cup {name} |-> IF n = name THEN old \o lines ELSE files[n]], name, policy, day)

\* A line that grew too long is replaced by a notice.
Line(pieces) == IF Len(pieces) > LinePieces THEN <<>> ELSE pieces

\* writer.Write of one piece: a line that ends is appended.
Write(w, piece) ==
  LET line == Append(pending[w], piece)
  IN IF piece.ends
     THEN append(<<Line(line)>>) /\ pending' = [pending EXCEPT ![w] = <<>>]
     ELSE pending' = [pending EXCEPT ![w] = line] /\ UNCHANGED <<files, active, generations>>

Flush(w) ==
  IF pending[w] = <<>> THEN UNCHANGED <<files, active, generations, pending>>
  ELSE append(<<Line(pending[w])>>) /\ pending' = [pending EXCEPT ![w] = <<>>]

Event == events < MaxEvents /\ events' = events + 1

EnsureCurrentFile ==
  /\ append(<<>>)
  /\ UNCHANGED <<worldVars, policy, epoch, drawn, pending, follower, reader, events>>

SetPolicy(p) ==
  /\ Event /\ policy' = p /\ Prune(files, active, p, day)
  /\ UNCHANGED <<worldVars, active, epoch, drawn, pending, follower, reader>>

Delete(name) ==
  /\ name[1] # day /\ files' = Restrict(files, DOMAIN files \ {name})
  /\ generations' = Restrict(generations, DOMAIN generations \ {name})
  /\ UNCHANGED <<worldVars, policy, active, epoch, drawn, pending, follower, reader, events>>

\* Mutant: the cursors of the file stay valid.
ClearInPlace(name) ==
  /\ Event /\ files' = [files EXCEPT ![name] = <<>>]
  /\ UNCHANGED <<worldVars, policy, active, epoch, generations, drawn, pending, follower, reader>>

Clear(name) ==
  /\ Event
  /\ files' = [files EXCEPT ![name] = <<>>] /\ drawn' = drawn + 1
  /\ generations' = [n \in DOMAIN generations \cup {name} |-> IF n = name THEN drawn' ELSE generations[n]]
  /\ UNCHANGED <<worldVars, policy, active, epoch, pending, follower, reader>>

-----------------------------------------------------------------------------
(* A reader: each chunk continues the one before, a reset starts anew *)

Generation(name) == IF name \in DOMAIN generations THEN generations[name] ELSE epoch

\* Read from an offset, or of the end of the file.
Chunk(name, offset, tail) ==
  LET size == Len(files[name])
      start == IF ~tail THEN offset ELSE IF size > ChunkLines THEN size - ChunkLines ELSE 0
      end == IF start + ChunkLines < size THEN start + ChunkLines ELSE size
      skipped == IF tail /\ start > 0 THEN 1 ELSE 0
  IN [from |-> start + skipped, next |-> end, text |-> SubSeq(files[name], start + skipped + 1, end)]

Receive(name, chunk, anew) ==
  /\ reader' = [file |-> name, generation |-> Generation(name), offset |-> chunk.next,
                from |-> IF anew THEN chunk.from ELSE reader.from,
                text |-> IF anew THEN chunk.text ELSE reader.text \o chunk.text]
  /\ UNCHANGED <<worldVars, fileVars, pending, follower, events>>

\* readCoreLog: the first chunk that a reader asks for.
readCoreLog(name) == reader = NoReader /\ Receive(name, Chunk(name, 0, TRUE), TRUE)

Read ==
  LET name == reader.file
      reset == reader.generation # Generation(name)
      offset == IF reset THEN 0 ELSE reader.offset
  IN /\ name \in DOMAIN files /\ offset <= Len(files[name])
     /\ Receive(name, Chunk(name, offset, FALSE), reset)

-----------------------------------------------------------------------------
(* The core and the file that it writes itself *)

\* Follow begins at the end of what is there.
Follow ==
  /\ core = 0 /\ ~follower.on /\ pending["output"] = <<>>
  /\ written < MaxPieces /\ core' = written + 1
  /\ follower' = [on |-> TRUE, inode |-> native.inode, offset |-> Len(native.text)]
  /\ UNCHANGED <<day, written, native, fileVars, pending, reader, events>>

Output(ends) ==
  /\ core # 0 /\ written < MaxPieces /\ written' = written + 1
  /\ Write("output", Piece("output", core, ends))
  /\ UNCHANGED <<day, core, native, policy, epoch, drawn, follower, reader, events>>

WriteNative(ends) ==
  /\ core # 0 /\ written < MaxPieces /\ written' = written + 1
  /\ native' = [native EXCEPT !.text = Append(@, Piece("file", native.inode, ends))]
  /\ UNCHANGED <<day, core, fileVars, pending, follower, reader, events>>

\* The file is renamed and created again, or truncated.
RotateNative(replaced) ==
  /\ Event /\ native.text # <<>>
  /\ native' = [inode |-> IF replaced THEN native.inode + 1 ELSE native.inode, text |-> <<>>]
  /\ UNCHANGED <<day, core, written, fileVars, pending, follower, reader>>

Replaced == native.inode # follower.inode \/ Len(native.text) < follower.offset
Unread == Replaced \/ follower.offset < Len(native.text)

\* readNew, one piece at a time; a file that was replaced ends its last line.
readNew ==
  /\ follower.on /\ Unread
  /\ IF Replaced
     THEN Flush("file") /\ follower' = [on |-> TRUE, inode |-> native.inode, offset |-> 0]
     ELSE /\ Write("file", native.text[follower.offset + 1])
          /\ follower' = [follower EXCEPT !.offset = @ + 1]
  /\ UNCHANGED <<worldVars, policy, epoch, drawn, reader, events>>

Exit == core # 0 /\ core' = 0 /\ UNCHANGED <<day, written, native, fileVars, pending, follower, reader, events>>

\* Close reads what is left and ends the last line.
Close ==
  /\ core = 0 /\ follower.on /\ ~Unread /\ follower' = NotFollowing /\ Flush("file")
  /\ UNCHANGED <<worldVars, policy, epoch, drawn, reader, events>>

\* The end of reap, before another process may start.
Reap ==
  /\ core = 0 /\ ~follower.on /\ pending["output"] # <<>> /\ Flush("output")
  /\ UNCHANGED <<worldVars, policy, epoch, drawn, follower, reader, events>>

\* A new panel has a new epoch, and forgets the active file and what was pending.
RestartPanel ==
  /\ Event /\ core' = 0 /\ drawn' = drawn + 1 /\ epoch' = drawn'
  /\ active' = NoFile /\ pending' = [w \in Writers |-> <<>>] /\ follower' = NotFollowing
  /\ files' = Restrict(files, Retained(DOMAIN files, NoFile, policy, day)) /\ generations' = [n \in {} |-> n]
  /\ UNCHANGED <<day, written, native, policy, reader>>

Tomorrow == day < MaxDay /\ day' = day + 1 /\ UNCHANGED <<core, written, native, fileVars, pending, follower, reader, events>>

Next ==
  \/ EnsureCurrentFile \/ (\E p \in Policies : SetPolicy(p))
  \/ \E name \in DOMAIN files : Delete(name) \/ Clear(name) \/ readCoreLog(name)
  \/ Read \/ Follow \/ (\E ends \in BOOLEAN : Output(ends) \/ WriteNative(ends) \/ RotateNative(ends))
  \/ readNew \/ Exit \/ Close \/ Reap \/ RestartPanel \/ Tomorrow

Spec == Init /\ [][Next]_logVars

-----------------------------------------------------------------------------
\* What a reader has put together since it began or was last told to begin anew is,
\* as long as its cursor is accepted, a piece of the file as it is: nothing is
\* missing or twice and nothing of what was cleared is left (Read in files.go).
ReadersSeeTheFile ==
  LET name == reader.file
  IN name \in DOMAIN files /\ reader.generation = Generation(name) =>
       reader.offset <= Len(files[name]) /\ reader.text = SubSeq(files[name], reader.from + 1, reader.offset)

\* Piece j of line i of file m comes before piece l of line k of file n.
Precedes(m, i, j, n, k, l) == Older(m, n) \/ (m = n /\ (i < k \/ (i = k /\ j < l)))

\* Every line is of one run or of one file that was followed, and what each of the
\* two ways brings is in its order and not twice, over segments, days and restarts.
CaptureIsInOrder ==
  \A m, n \in DOMAIN files : \A i \in DOMAIN files[m], k \in DOMAIN files[n] :
    \A j \in DOMAIN files[m][i], l \in DOMAIN files[n][k] :
      LET p == files[m][i][j]
          q == files[n][k][l]
      IN /\ m = n /\ i = k => p.by = q.by /\ p.from = q.from
         /\ p.by = q.by /\ Precedes(m, i, j, n, k, l) => p.n < q.n
=============================================================================
