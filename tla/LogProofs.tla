------------------------------ MODULE LogProofs -------------------------------
(***************************************************************************)
(* Proofs of what LogProperties says of a job's log, for either backend,   *)
(* every environment, any number of clients, and buffers of any length.    *)
(***************************************************************************)
EXTENDS LogProperties, SequenceTheorems, TLAPS

(* What was read is cut into pieces that follow on each other, and on what *)
(* was read before.                                                        *)
LEMMA SplitlinesPieces ==
    ASSUME NEW from \in 0..MaxUnits, NEW to \in from..MaxUnits,
           NEW s, s = Splitlines(from, to)
    PROVE  /\ s \in Seq(Line)
           /\ s = <<>> <=> from = to
           /\ from # to => s[1].from = from /\ s[Len(s)].to = to
           /\ \A i \in 1..Len(s) : from <= s[i].from /\ s[i].from < s[i].to /\ s[i].to <= to
           /\ \A i \in 2..Len(s) : s[i].from = s[i - 1].to
           /\ \A i, k \in 1..Len(s) : i < k => s[i].to <= s[k].from
<1>. DEFINE h == from \div 2
            m == (to + 1) \div 2
            n == IF from < to THEN m - h ELSE 0
            cut(i) == IF i = 0 THEN from ELSE IF i = n THEN to ELSE 2 * (h + i)
<1>0. from \in Nat /\ to \in Nat /\ from <= to /\ MaxUnits \in Nat /\ to <= MaxUnits
    BY BoundAssumption
<1>1. /\ h \in Nat /\ 2 * h <= from /\ from < 2 * h + 2
      /\ m \in Nat /\ 2 * m <= to + 1 /\ to + 1 < 2 * m + 2
    BY <1>0
<1>2. s = [i \in 1..n |-> [from |-> cut(i - 1), to |-> cut(i)]]
    BY DEF Splitlines
<1>. HIDE DEF h, m
<1>3. n \in Nat /\ (n = 0 <=> from = to)
    BY <1>0, <1>1
<1>4. cut(0) = from /\ (n # 0 => cut(n) = to)
    OBVIOUS
<1>5. \A i \in 0..n : cut(i) \in from..to
    BY <1>0, <1>1
<1>6. \A i, k \in 0..n : i < k => cut(i) < cut(k)
    BY <1>0, <1>1
<1>. HIDE DEF n, cut
<1>7. \A i \in 1..n : [from |-> cut(i - 1), to |-> cut(i)] \in Line
    BY <1>0, <1>3, <1>5 DEF Line
<1>8. s \in Seq(Line) /\ Len(s) = n
    BY <1>2, <1>3, <1>7
<1>9. \A i \in 1..n : s[i].from = cut(i - 1) /\ s[i].to = cut(i)
    BY <1>2
<1>10. s = <<>> <=> n = 0
    BY <1>8, EmptySeq
<1>11. from # to => s[1].from = from /\ s[Len(s)].to = to
    BY <1>3, <1>4, <1>8, <1>9
<1>12. \A i \in 1..n : i - 1 \in 0..n /\ i \in 0..n /\ i - 1 < i
    BY <1>3
<1>13. \A i \in 1..Len(s) : from <= s[i].from /\ s[i].from < s[i].to /\ s[i].to <= to
    BY <1>0, <1>5, <1>6, <1>8, <1>9, <1>12
<1>14. \A i \in 2..Len(s) : s[i].from = s[i - 1].to
    BY <1>3, <1>8, <1>9
<1>15. \A i, k \in 1..Len(s) : i < k => s[i].to <= s[k].from
  <2>1. ASSUME NEW i \in 1..n, NEW k \in 1..n, i < k
        PROVE  cut(i) <= cut(k - 1)
    <3>1. i = k - 1 \/ i < k - 1
      BY <1>3, <2>1
    <3>. QED  BY <1>0, <1>5, <1>6, <1>12, <2>1, <3>1
  <2>. QED  BY <1>8, <1>9, <2>1
<1>. QED  BY <1>3, <1>8, <1>10, <1>11, <1>13, <1>14, <1>15

-----------------------------------------------------------------------------
(* Types.                                                                  *)

(* The message of mark_error has the type of a line.                       *)
LEMMA ErrorLineIsALine == ErrorLine \in Line
    BY BoundAssumption DEF ErrorLine, Line

(* Stated apart from sequences, about which the solvers know too much.     *)
LEMMA SumIsNat == \A a, b \in Nat : a + b \in Nat
    OBVIOUS

(* push_log keeps to the bound.                                            *)
LEMMA PushLogTypes ==
    ASSUME TypeOK, NEW lines \in Seq(Line), PushLog(lines)
    PROVE  /\ logs' \in Seq(Line) /\ total' \in Nat
           /\ Len(logs') <= MAX_IN_MEMORY_LINES /\ Len(logs') <= total'
<1>. DEFINE all == logs \o lines
            evicted == Len(all) - MAX_IN_MEMORY_LINES
<1>1. /\ all \in Seq(Line) /\ Len(all) = Len(logs) + Len(lines) /\ Len(lines) \in Nat
      /\ Len(logs) \in Nat /\ total \in Nat /\ Len(logs) <= total
      /\ logs \in Seq(Line) /\ Len(logs) <= MAX_IN_MEMORY_LINES
      /\ MAX_IN_MEMORY_LINES \in Nat \ {0}
    BY ConcatProperties, LenProperties, BoundAssumption DEF TypeOK
<1>2. CASE ~known
    BY <1>1, <1>2 DEF PushLog
<1>3. CASE known
  <2>1. /\ logs' = IF evicted > 0 THEN SubSeq(all, evicted + 1, Len(all)) ELSE all
        /\ total' = total + Len(lines)
    BY <1>3 DEF PushLog
  <2>. HIDE DEF all
  <2>2. CASE evicted > 0
    <3>1. \A i \in (evicted + 1)..Len(all) : all[i] \in Line
      BY <1>1, <2>2, ElementOfSeq
    <3>2. /\ SubSeq(all, evicted + 1, Len(all)) \in Seq(Line)
          /\ Len(SubSeq(all, evicted + 1, Len(all))) = MAX_IN_MEMORY_LINES
      BY <1>1, <2>2, <3>1, SubSeqProperties
    <3>. QED  BY <1>1, <2>1, <2>2, <3>2
  <2>3. CASE ~(evicted > 0)
    BY <1>1, <2>1, <2>3
  <2>. QED  BY <2>2, <2>3
<1>. QED  BY <1>2, <1>3

(* A flush writes a part of the batch, or all, and keeps all, or nothing.  *)
LEMMA FlushTypes ==
    ASSUME TypeOK, NEW lines \in Seq(Line), NEW o \in FlushOutcomes(lines)
    PROVE  /\ o.disk \in Seq(Line) /\ o.rest \in Seq(Line)
           /\ ~known => o.disk = output /\ o.rest = lines
           /\ known /\ ~full => o.disk = output \o lines /\ o.rest = <<>>
<1>1. output \in Seq(Line) /\ output \o lines \in Seq(Line) /\ Len(lines) \in Nat
      /\ <<>> \in Seq(Line) /\ output \o <<>> = output
  <2>1. output \in Seq(Line)
    BY DEF TypeOK
  <2>. QED  BY <2>1, ConcatProperties, LenProperties, ConcatEmptySeq, EmptySeq
<1>2. ASSUME NEW n \in 0..(Len(lines) - 1)
      PROVE  output \o SubSeq(lines, 1, n) \in Seq(Line)
  <2>1. \A i \in 1..n : lines[i] \in Line
    BY <1>1, ElementOfSeq
  <2>2. SubSeq(lines, 1, n) \in Seq(Line)
    BY <1>1, <2>1, SubSeqProperties
  <2>. QED  BY <1>1, <2>2, ConcatProperties
<1>3. CASE ~known \/ lines = <<>>
    BY <1>1, <1>3 DEF FlushOutcomes
<1>4. CASE known /\ lines # <<>> /\ full
  <2>0. 0..(Len(lines) - 1) \subseteq Int
    BY <1>1
  <2>1. PICK n \in 0..(Len(lines) - 1) :
           o = [disk |-> output \o SubSeq(lines, 1, n), rest |-> lines]
    BY <1>4, <2>0 DEF FlushOutcomes
  <2>. QED  BY <1>2, <1>4, <2>1
<1>5. CASE known /\ lines # <<>> /\ ~full
  <2>1. FlushOutcomes(lines) = {[disk |-> output \o lines, rest |-> <<>>]}
    BY <1>5 DEF FlushOutcomes
  <2>2. o.disk = output \o lines /\ o.rest = <<>>
    BY <2>1
  <2>. QED  BY <1>1, <1>5, <2>2
<1>. QED  BY <1>3, <1>4, <1>5

(* get_logs returns lines, and an offset within what was logged.           *)
LEMMA GetLogsTypes ==
    ASSUME TypeOK, NEW index \in Nat
    PROVE  /\ GetLogs(index).lines \in Seq(Line) /\ GetLogs(index).next \in Nat
           /\ index <= total => GetLogs(index).next <= total
           /\ GetLogsWithDiskFallback(index).lines \in Seq(Line)
           /\ GetLogsWithDiskFallback(index).next \in Nat
<1>. DEFINE first == total - Len(logs)
            tail  == SubSeq(logs, index - first + 1, Len(logs))
<1>1. /\ logs \in Seq(Line) /\ Len(logs) \in Nat /\ total \in Nat /\ first \in Nat
      /\ output \in Seq(Line) /\ Len(output) \in Nat /\ <<>> \in Seq(Line)
  <2>1. logs \in Seq(Line) /\ total \in Nat /\ output \in Seq(Line) /\ Len(logs) <= total
    BY DEF TypeOK
  <2>2. Len(logs) \in Nat /\ Len(output) \in Nat /\ <<>> \in Seq(Line)
    BY <2>1, LenProperties, EmptySeq
  <2>. QED  BY <2>1, <2>2
<1>2. index >= first => /\ tail \in Seq(Line) /\ Len(tail) \in Nat
                        /\ index <= total => index + Len(tail) <= total
  <2>1. SUFFICES ASSUME index >= first
                 PROVE  /\ tail \in Seq(Line) /\ Len(tail) \in Nat
                        /\ index <= total => index + Len(tail) <= total
    OBVIOUS
  <2>2. \A i \in (index - first + 1)..Len(logs) : logs[i] \in Line
    BY <1>1, <2>1, ElementOfSeq
  <2>. DEFINE a == index - first + 1
  <2>3. a \in Int /\ \A i \in a..Len(logs) : logs[i] \in Line
    BY <1>1, <2>2
  <2>h. /\ tail = SubSeq(logs, a, Len(logs))
        /\ index <= total => index + (Len(logs) - a + 1) <= total
    BY <1>1, <2>1
  <2>. HIDE DEF a, tail
  <2>4. /\ SubSeq(logs, a, Len(logs)) \in Seq(Line)
        /\ Len(SubSeq(logs, a, Len(logs))) = IF a <= Len(logs) THEN Len(logs) - a + 1 ELSE 0
    BY <1>1, <2>3, SubSeqProperties
  <2>. QED  BY <1>1, <2>1, <2>3, <2>h, <2>4
<1>3. GetLogs(index) = IF ~known THEN [lines |-> <<>>, next |-> index]
                       ELSE IF index < first THEN [lines |-> logs, next |-> total]
                       ELSE [lines |-> tail, next |-> index + Len(tail)]
    BY DEF GetLogs
<1>. HIDE DEF tail, first
<1>4. /\ GetLogs(index).lines \in Seq(Line) /\ GetLogs(index).next \in Nat
      /\ index <= total => GetLogs(index).next <= total
    BY <1>1, <1>2, <1>3
<1>. QED  BY <1>1, <1>4 DEF GetLogsWithDiskFallback

(* What the finally clause does to the record and the buffers.             *)
LEMMA FinalizeEffect ==
    ASSUME TypeOK, NEW s \in {"RUNNING", "finished", "given up"}, NEW lines \in Seq(Line),
           Finalize(s, lines)
    PROVE  /\ known' = known /\ status' = (IF known THEN s ELSE status)
           /\ cancelling' = FALSE /\ monitor' \in {"none", "final"}
           /\ saved' \in {saved, status'}
           /\ unflushed' \in Seq(Line) /\ output' \in Seq(Line)
           /\ ~known => output' = output
           /\ known /\ ~full => output' = output \o (unflushed \o lines) /\ unflushed' = <<>>
           /\ \/ PushLog(lines)
              \/ /\ known /\ ~full /\ monitor' = "none"
                 /\ logs' = <<>> /\ total' = total + Len(lines)
<1>1. unflushed \in Seq(Line) /\ logs \in Seq(Line)
    BY DEF TypeOK
<1>2. unflushed \o lines \in Seq(Line) /\ <<>> \in Seq(Line)
    BY <1>1, ConcatProperties, EmptySeq
<1>3. Pushed(lines) \in Seq(Line) /\ (known => Pushed(lines) = unflushed \o lines)
    BY <1>1, <1>2 DEF Pushed
<1>4. PICK o \in FlushOutcomes(Pushed(lines)) :
         /\ output' = o.disk
         /\ unflushed' = o.rest \/ (known /\ ~full /\ unflushed' = <<>>)
    BY DEF Finalize, Flush, ClearJobLogs
<1>5. /\ o.disk \in Seq(Line) /\ o.rest \in Seq(Line)
      /\ ~known => o.disk = output
      /\ known /\ ~full => o.disk = output \o Pushed(lines) /\ o.rest = <<>>
    BY <1>3, FlushTypes
<1>6. /\ unflushed' \in Seq(Line) /\ output' \in Seq(Line)
      /\ ~known => output' = output
      /\ known /\ ~full => output' = output \o (unflushed \o lines) /\ unflushed' = <<>>
    BY <1>2, <1>3, <1>4, <1>5
<1>7. /\ known' = known /\ status' = (IF known THEN s ELSE status)
      /\ cancelling' = FALSE /\ monitor' \in {"none", "final"}
      /\ saved' \in {saved, status'}
    BY DEF Finalize, Persist
<1>8. \/ PushLog(lines)
      \/ /\ known /\ ~full /\ monitor' = "none"
         /\ logs' = <<>> /\ total' = total + Len(lines)
    BY DEF Finalize, ClearJobLogs
<1>. QED  BY <1>6, <1>7, <1>8

(* A step that serves a client sends it lines of the log.                  *)
LEMMA StreamEffect ==
    ASSUME TypeOK, NEW c \in Clients, Connect(c) \/ Disconnect(c) \/ Stream(c)
    PROVE  \E pc \in {"off", "top", "check", "done"}, index \in Nat, lines \in Seq(Line) :
              Serve(c, pc, index, lines)
<1>1. /\ sent_index[c] \in Nat /\ got[c] \in Seq(Line)
      /\ <<>> \in Seq(Line) /\ 0 \in Nat
    BY EmptySeq DEF TypeOK
<1>2. CASE Connect(c) \/ Disconnect(c)
    BY <1>1, <1>2 DEF Connect, Disconnect
<1>3. CASE Stream(c)
  <2>. DEFINE new   == GetLogs(sent_index[c])
              final == GetLogsWithDiskFallback(sent_index[c])
  <2>1. /\ new.lines \in Seq(Line) /\ new.next \in Nat
        /\ final.lines \in Seq(Line) /\ final.next \in Nat
    BY <1>1, GetLogsTypes
  <2>2. /\ got[c] \o new.lines \in Seq(Line)
        /\ got[c] \o final.lines \in Seq(Line)
    BY <1>1, <2>1, ConcatProperties
  <2>3. \/ Serve(c, "check", new.next, got[c] \o new.lines)
        \/ Serve(c, "done", final.next, got[c] \o final.lines)
        \/ Serve(c, "top", sent_index[c], got[c])
    BY <1>3 DEF Stream, StreamPolls, StreamChecks, FinishStream
  <2>. HIDE DEF new, final
  <2>. QED  BY <1>1, <2>1, <2>2, <2>3
<1>. QED  BY <1>2, <1>3

(* The parts of TypeOK.                                                    *)
BuffersOK ==
    /\ logs \in Seq(Line) /\ unflushed \in Seq(Line) /\ output \in Seq(Line)
    /\ total \in Nat /\ Len(logs) <= MAX_IN_MEMORY_LINES /\ Len(logs) <= total

PlacesOK ==
    written \in 0..MaxUnits /\ upto \in 0..written /\ offset \in 0..upto

ClientsOK ==
    /\ stream \in [Clients -> {"off", "top", "check", "done"}]
    /\ sent_index \in [Clients -> Nat]
    /\ got \in [Clients -> Seq(Line)]

RestOK ==
    /\ backend \in Backends /\ full \in BOOLEAN /\ wasFull \in BOOLEAN
    /\ known \in BOOLEAN /\ host \in {"running", "exited", "killed"}
    /\ status \in {"RUNNING", "finished", "given up"}
    /\ saved \in {"RUNNING", "finished", "given up", "none"}
    /\ monitor \in MonitorState /\ cancelling \in BOOLEAN /\ asked \in BOOLEAN

(* They make it up, and each is kept by a step that leaves it alone.       *)
LEMMA TypeParts ==
    /\ TypeOK <=> BuffersOK /\ PlacesOK /\ ClientsOK /\ RestOK
    /\ TypeOK' <=> BuffersOK' /\ PlacesOK' /\ ClientsOK' /\ RestOK'
    /\ BuffersOK /\ UNCHANGED <<bufferVars, output>> => BuffersOK'
    /\ PlacesOK /\ UNCHANGED <<written, upto, offset>> => PlacesOK'
    /\ ClientsOK /\ UNCHANGED streamVars => ClientsOK'
    BY DEF TypeOK, BuffersOK, PlacesOK, ClientsOK, RestOK, bufferVars, streamVars

(* Nothing is in an empty buffer.                                          *)
LEMMA EmptyBuffers ==
    ASSUME BuffersOK, logs' = <<>>, unflushed' \in Seq(Line), output' \in Seq(Line),
           total' \in Nat
    PROVE  BuffersOK'
<1>1. logs' \in Seq(Line) /\ Len(logs') = 0 /\ MAX_IN_MEMORY_LINES \in Nat
    BY EmptySeq, BoundAssumption
<1>. QED  BY <1>1 DEF BuffersOK

(* Every action keeps the types.                                           *)
LEMMA TypeStep ==
    ASSUME TypeOK, [Next]_vars
    PROVE  TypeOK'
<1>p. /\ BuffersOK /\ PlacesOK /\ ClientsOK /\ RestOK
      /\ TypeOK' <=> BuffersOK' /\ PlacesOK' /\ ClientsOK' /\ RestOK'
      /\ UNCHANGED <<bufferVars, output>> => BuffersOK'
      /\ UNCHANGED <<written, upto, offset>> => PlacesOK'
      /\ UNCHANGED streamVars => ClientsOK'
    BY TypeParts
<1>e. /\ <<>> \in Seq(Line) /\ <<ErrorLine>> \in Seq(Line)
      /\ unflushed \in Seq(Line) /\ output \in Seq(Line) /\ total \in Nat
    BY <1>p, EmptySeq, ErrorLineIsALine DEF BuffersOK
<1>1. CASE WrapperWrites \/ WrapperEnds \/ WrapperKilled \/ MonitorReads
  <2>1. UNCHANGED <<bufferVars, output>> /\ UNCHANGED streamVars
    BY <1>1 DEF WrapperWrites, WrapperEnds, WrapperKilled, MonitorReads
  <2>2. PlacesOK'
    BY <1>1, <1>p, BoundAssumption DEF WrapperWrites, WrapperEnds, WrapperKilled, MonitorReads,
       PlacesOK, monitorVars, hostVars
  <2>3. CASE WrapperWrites \/ WrapperEnds \/ WrapperKilled
    <3>1. RestOK'
      BY <1>p, <2>3 DEF WrapperWrites, WrapperEnds, WrapperKilled, RestOK,
         recordVars, worldVars, monitorVars
    <3>. QED  BY <1>p, <2>1, <2>2, <3>1
  <2>4. CASE MonitorReads
    <3>1. monitor' \in MonitorState
      BY <2>4 DEF MonitorReads, MonitorState
    <3>2. RestOK'
      BY <1>p, <2>4, <3>1 DEF MonitorReads, RestOK, recordVars, worldVars, hostVars
    <3>. QED  BY <1>p, <2>1, <2>2, <3>2
  <2>. QED  BY <1>1, <2>3, <2>4
<1>2. CASE MonitorLogs \/ MonitorLogsLast
  <2>. DEFINE lines == Splitlines(offset, upto)
  <2>1. /\ PushLog(lines) /\ unflushed' = Pushed(lines)
        /\ offset' = upto /\ monitor' \in MonitorState
        /\ UNCHANGED <<hostVars, recordVars, output, worldVars, upto, cancelling, asked,
                       streamVars>>
    BY <1>2 DEF MonitorLogs, MonitorLogsLast, Log, MonitorState
  <2>2. offset \in 0..MaxUnits /\ upto \in offset..MaxUnits
    BY <1>p, BoundAssumption DEF PlacesOK
  <2>3. lines \in Seq(Line)
    BY <2>2, SplitlinesPieces
  <2>. HIDE DEF lines
  <2>4. unflushed' \in Seq(Line)
    BY <1>e, <2>1, <2>3, ConcatProperties DEF Pushed
  <2>5. BuffersOK'
    BY <1>e, <2>1, <2>3, <2>4, PushLogTypes DEF BuffersOK
  <2>6. PlacesOK'
    BY <1>p, <2>1, BoundAssumption DEF PlacesOK, hostVars
  <2>7. RestOK'
    BY <1>p, <2>1 DEF RestOK, recordVars, worldVars, hostVars
  <2>. QED  BY <1>p, <2>1, <2>5, <2>6, <2>7
<1>3. ASSUME NEW s \in {"RUNNING", "finished", "given up"}, NEW lines \in Seq(Line),
             Finalize(s, lines),
             UNCHANGED <<hostVars, worldVars, upto, offset, asked, streamVars>>
      PROVE  TypeOK'
  <2>1. /\ known' = known /\ status' = (IF known THEN s ELSE status)
        /\ cancelling' = FALSE /\ monitor' \in {"none", "final"}
        /\ saved' \in {saved, status'}
        /\ unflushed' \in Seq(Line) /\ output' \in Seq(Line)
        /\ PushLog(lines) \/ (logs' = <<>> /\ total' = total + Len(lines))
    BY <1>3, FinalizeEffect
  <2>2. BuffersOK'
    <3>1. CASE PushLog(lines)
      BY <1>3, <2>1, <3>1, PushLogTypes DEF BuffersOK
    <3>2. CASE logs' = <<>> /\ total' = total + Len(lines)
      <4>1. Len(lines) \in Nat /\ total \in Nat
        BY <1>e, <1>3, LenProperties
      <4>2. total' \in Nat
        BY <3>2, <4>1, SumIsNat, Zenon
      <4>. QED  BY <1>p, <2>1, <3>2, <4>2, EmptyBuffers
    <3>. QED  BY <2>1, <3>1, <3>2
  <2>3. RestOK'
    BY <1>3, <1>p, <2>1 DEF RestOK, MonitorState, hostVars, worldVars
  <2>. QED  BY <1>3, <1>p, <2>2, <2>3 DEF hostVars
<1>4. CASE \/ MonitorRaises \/ SaveReturns
           \/ /\ Collect
              /\ Finalize("finished", <<>>)
           \/ /\ CancelDelivered
              /\ monitor # "final"
  <2>1. status \in {"RUNNING", "finished", "given up"}
    BY <1>p DEF RestOK
  <2>. QED  BY <1>3, <1>4, <1>e, <2>1
         DEF MonitorRaises, SaveReturns, Collect, CancelDelivered, Terminal
<1>5. CASE \/ /\ Collect
              /\ ~Finalize("finished", <<>>)
           \/ /\ CancelDelivered
              /\ monitor = "final"
           \/ SyncAsks \/ Cancel \/ DiskFills
  <2>1. /\ UNCHANGED <<bufferVars, output>> /\ UNCHANGED <<written, upto, offset>>
        /\ UNCHANGED streamVars
    BY <1>5 DEF Collect, CancelDelivered, SyncAsks, Cancel, DiskFills, hostVars, monitorVars
  <2>2. /\ monitor' \in MonitorState /\ cancelling' \in BOOLEAN /\ asked' \in BOOLEAN
        /\ status' \in {"RUNNING", "finished", "given up"}
    BY <1>5, <1>p DEF Collect, CancelDelivered, SyncAsks, Cancel, CancelTask, DiskFills, RestOK,
       recordVars, monitorVars, MonitorState
  <2>3. /\ UNCHANGED <<backend, host, known, saved>>
        /\ full' \in BOOLEAN /\ wasFull' \in BOOLEAN
    BY <1>5, <1>p DEF Collect, CancelDelivered, SyncAsks, Cancel, DiskFills, RestOK,
       hostVars, recordVars, worldVars
  <2>4. RestOK'
    BY <1>p, <2>2, <2>3 DEF RestOK
  <2>. QED  BY <1>p, <2>1, <2>4
<1>6. CASE FinalSync
  <2>1. BuffersOK'
    BY <1>6, <1>p, <1>e, EmptyBuffers, TypeParts DEF FinalSync, bufferVars
  <2>2. RestOK'
    BY <1>6, <1>p DEF FinalSync, Persist, RestOK, hostVars, worldVars, MonitorState
  <2>. QED  BY <1>6, <1>p, <2>1, <2>2 DEF FinalSync, hostVars
<1>7. CASE SyncFlushes \/ SyncRecovers
  <2>1. Flush(unflushed) => unflushed' \in Seq(Line) /\ output' \in Seq(Line)
    BY <1>e, FlushTypes DEF Flush
  <2>2. unflushed' \in Seq(Line) /\ output' \in Seq(Line) /\ UNCHANGED <<logs, total>>
    BY <1>7, <1>e, <2>1 DEF SyncFlushes, SyncRecovers
  <2>3. BuffersOK'
    BY <1>p, <2>2 DEF BuffersOK
  <2>4. RestOK'
    BY <1>7, <1>p DEF SyncFlushes, SyncRecovers, Persist, CancelTask, RestOK, hostVars,
       recordVars, worldVars, monitorVars
  <2>. QED  BY <1>7, <1>p, <2>3, <2>4 DEF SyncFlushes, SyncRecovers, hostVars, monitorVars
<1>8. CASE Delete
  <2>1. BuffersOK'
    BY <1>8, <1>p, <1>e DEF Delete, BuffersOK, bufferVars
  <2>2. RestOK'
    BY <1>8, <1>p DEF Delete, CancelTask, RestOK, hostVars, worldVars
  <2>. QED  BY <1>8, <1>p, <2>1, <2>2 DEF Delete, hostVars
<1>9. CASE Restart
  <2>1. BuffersOK'
    BY <1>9, <1>p, <1>e, EmptyBuffers DEF Restart
  <2>2. RestOK'
    BY <1>9, <1>p DEF Restart, RestOK, hostVars, worldVars, MonitorState
  <2>3. ClientsOK'
    BY <1>9, <1>e DEF Restart, ClientsOK
  <2>. QED  BY <1>9, <1>p, <2>1, <2>2, <2>3 DEF Restart, hostVars
<1>10. ASSUME NEW c \in Clients, Connect(c) \/ Disconnect(c) \/ Stream(c)
       PROVE  TypeOK'
  <2>1. PICK pc \in {"off", "top", "check", "done"}, index \in Nat, lines \in Seq(Line) :
           Serve(c, pc, index, lines)
    BY <1>10, StreamEffect
  <2>2. ClientsOK'
    BY <1>p, <2>1 DEF Serve, ClientsOK
  <2>3. RestOK'
    BY <1>p, <2>1 DEF Serve, RestOK, hostVars, recordVars, worldVars, monitorVars
  <2>. QED  BY <1>p, <2>1, <2>2, <2>3 DEF Serve, hostVars, monitorVars
<1>11. CASE UNCHANGED vars
  <2>1. RestOK'
    BY <1>11, <1>p DEF vars, RestOK, hostVars, recordVars, worldVars, monitorVars
  <2>. QED  BY <1>11, <1>p, <2>1 DEF vars, hostVars, monitorVars
<1>12. CASE Task
    BY <1>1, <1>2, <1>4, <1>5, <1>6, <1>12 DEF Task
<1>13. CASE Sync
    BY <1>5, <1>7, <1>13 DEF Sync
<1>. QED  BY <1>1, <1>4, <1>5, <1>8, <1>9, <1>10, <1>11, <1>12, <1>13 DEF Next

(* Every reachable state has its type.                                     *)
THEOREM TypeCorrect == Spec => []TypeOK
<1>1. Init => TypeOK
  <2>. SUFFICES ASSUME Init PROVE TypeOK
    OBVIOUS
  <2>1. BuffersOK
    BY BoundAssumption, EmptySeq DEF Init, BuffersOK
  <2>2. PlacesOK
    BY BoundAssumption DEF Init, PlacesOK
  <2>3. ClientsOK
    BY EmptySeq DEF Init, ClientsOK
  <2>4. RestOK
    BY DEF Init, RestOK, MonitorState
  <2>. QED  BY <2>1, <2>2, <2>3, <2>4, TypeParts
<1>. QED  BY <1>1, TypeStep, PTL DEF Spec


-----------------------------------------------------------------------------
(* The task.                                                               *)

Reading == {"poll", "read", "exit", "last"}

(* Who may still log, and what there is no log of.  A local monitor that   *)
(* has seen .exitcode reads a file that no longer grows.                   *)
TaskInv ==
    /\ full => wasFull
    /\ ~known => output = <<>>
    /\ saved = "none" => ~known
    /\ monitor = "none" => ~cancelling
    /\ monitor \in Reading /\ Terminal => cancelling \/ wasFull
    /\ monitor = "final" /\ known /\ ~wasFull => unflushed = <<>>
    /\ backend = "local" =>
          /\ monitor \in {"exit", "last", "collect"} => host = "exited"
          /\ monitor = "last" => upto = written
          /\ monitor = "collect" => offset = written

(* What a flush leaves while DATA_DIR takes writes: nothing.               *)
LEMMA FlushEffect ==
    ASSUME TypeOK, Flush(unflushed)
    PROVE  /\ ~known => output' = output /\ unflushed' = unflushed
           /\ known /\ ~full => output' = output \o unflushed /\ unflushed' = <<>>
<1>1. unflushed \in Seq(Line)
    BY DEF TypeOK
<1>2. PICK o \in FlushOutcomes(unflushed) : output' = o.disk /\ unflushed' = o.rest
    BY DEF Flush
<1>. QED  BY <1>1, <1>2, FlushTypes

(* A task that is finalized no longer reads.                               *)
LEMMA FinalizeKeepsTaskInv ==
    ASSUME TypeOK, TaskInv, NEW s \in {"RUNNING", "finished", "given up"},
           NEW lines \in Seq(Line), Finalize(s, lines), UNCHANGED worldVars
    PROVE  TaskInv'
<1>1. /\ known' = known /\ status' = (IF known THEN s ELSE status)
      /\ cancelling' = FALSE /\ monitor' \in {"none", "final"}
      /\ saved' \in {saved, status'}
      /\ ~known => output' = output
      /\ known /\ ~full => unflushed' = <<>>
    BY FinalizeEffect
<1>2. status' # "none" /\ UNCHANGED <<backend, full, wasFull>>
    BY <1>1 DEF TypeOK, worldVars
<1>. QED  BY <1>1, <1>2 DEF TaskInv, Reading

(* Every action keeps TaskInv.                                             *)
LEMMA TaskStep ==
    ASSUME TypeOK, TaskInv, [Next]_vars
    PROVE  TaskInv'
<1>e. <<>> \in Seq(Line) /\ <<ErrorLine>> \in Seq(Line)
    BY EmptySeq, ErrorLineIsALine
<1>1. CASE WrapperWrites \/ WrapperEnds \/ WrapperKilled
  <2>1. /\ UNCHANGED <<recordVars, bufferVars, output, worldVars, monitorVars>>
        /\ host = "running" /\ (written' = written \/ host' = "running")
    BY <1>1 DEF WrapperWrites, WrapperEnds, WrapperKilled
  <2>2. UNCHANGED <<known, status, saved, unflushed, output, backend, full, wasFull,
                    monitor, upto, offset, cancelling>>
    BY <2>1 DEF recordVars, bufferVars, worldVars, monitorVars
  <2>. QED  BY <2>1, <2>2 DEF TaskInv, Terminal
<1>2. CASE MonitorReads
    BY <1>2 DEF MonitorReads, Resumes, TaskInv, Terminal, Reading,
       recordVars, bufferVars, worldVars, hostVars
<1>3. CASE MonitorLogs \/ MonitorLogsLast
  <2>1. /\ UNCHANGED <<hostVars, recordVars, output, worldVars, upto, cancelling>>
        /\ offset' = upto /\ monitor \in Reading /\ monitor' \in {"exit", "collect", "poll"}
        /\ ~cancelling
    BY <1>3 DEF MonitorLogs, MonitorLogsLast, Resumes, Reading
  <2>2. backend = "local" => /\ monitor' = "exit" => host = "exited"
                             /\ monitor' = "collect" => monitor = "last"
    BY <1>3 DEF MonitorLogs, MonitorLogsLast, Resumes
  <2>. QED  BY <2>1, <2>2 DEF TaskInv, Terminal, Reading, hostVars, recordVars, worldVars
<1>4. CASE \/ MonitorRaises \/ SaveReturns
           \/ /\ Collect
              /\ Finalize("finished", <<>>)
           \/ /\ CancelDelivered
              /\ monitor # "final"
  <2>1. status \in {"RUNNING", "finished", "given up"}
    BY DEF TypeOK
  <2>. QED  BY <1>4, <1>e, <2>1, FinalizeKeepsTaskInv
         DEF MonitorRaises, SaveReturns, Collect, CancelDelivered, Terminal
<1>5. CASE \/ /\ Collect
              /\ ~Finalize("finished", <<>>)
           \/ /\ CancelDelivered
              /\ monitor = "final"
           \/ FinalSync
  <2>1. UNCHANGED <<known, output, backend, full, wasFull, host, written, upto, offset>>
    BY <1>5 DEF Collect, CancelDelivered, FinalSync, hostVars, recordVars, worldVars
  <2>2. /\ monitor' \in {"save", "none"} /\ (monitor' = "none" => ~cancelling')
        /\ saved' \in {saved, status} /\ status \in {"RUNNING", "finished", "given up"}
    <3>1. status \in {"RUNNING", "finished", "given up"}
      BY DEF TypeOK
    <3>2. CASE FinalSync
      BY <3>1, <3>2 DEF FinalSync, Persist, Resumes
    <3>3. CASE /\ Collect
               /\ ~Finalize("finished", <<>>)
      BY <3>1, <3>3 DEF Collect
    <3>4. CASE CancelDelivered /\ monitor = "final"
      BY <3>1, <3>4 DEF CancelDelivered, recordVars
    <3>. QED  BY <1>5, <3>2, <3>3, <3>4
  <2>. QED  BY <2>1, <2>2 DEF TaskInv, Reading
<1>6. CASE SyncAsks \/ DiskFills
  <2>1. UNCHANGED <<known, status, saved, unflushed, output, backend, host, written,
                    monitor, upto, offset, cancelling>>
    BY <1>6 DEF SyncAsks, DiskFills, hostVars, recordVars, bufferVars, worldVars, monitorVars
  <2>2. (full' => wasFull') /\ (wasFull => wasFull')
    BY <1>6 DEF SyncAsks, DiskFills, worldVars, TaskInv
  <2>. QED  BY <2>1, <2>2 DEF TaskInv, Terminal
<1>14. CASE Cancel \/ Delete
  <2>1. /\ UNCHANGED <<unflushed, backend, full, wasFull, host, written, monitor, upto, offset>>
        /\ cancelling' = (cancelling \/ monitor # "none")
        /\ ~known' => output' = <<>>
        /\ saved' = "none" => ~known'
        /\ known' => known
    BY <1>14 DEF Cancel, Delete, CancelTask, hostVars, bufferVars, worldVars, TaskInv
  <2>. QED  BY <2>1 DEF TaskInv, Reading
<1>7. CASE SyncFlushes
  <2>1. /\ ~known => output' = output
        /\ known /\ ~full => unflushed' = <<>>
    BY <1>7, FlushEffect DEF SyncFlushes
  <2>. QED  BY <1>7, <2>1 DEF SyncFlushes, TaskInv, Terminal, Reading, hostVars, recordVars,
         worldVars, monitorVars
<1>8. CASE SyncRecovers
  <2>1. /\ full => (~known => output' = output) /\ UNCHANGED cancelling
        /\ ~full => UNCHANGED <<unflushed, output>> /\ CancelTask
    BY <1>8, FlushEffect DEF SyncRecovers
  <2>2. /\ saved' \in {saved, status'} /\ status' \in {"RUNNING", "finished", "given up"}
        /\ UNCHANGED <<hostVars, known, worldVars, monitor, upto, offset>>
    BY <1>8 DEF SyncRecovers, Persist, TypeOK
  <2>3. UNCHANGED <<backend, full, wasFull, host, written>>
    BY <2>2 DEF hostVars, worldVars
  <2>5. ~known' => output' = <<>>
    BY <2>1, <2>2 DEF TaskInv
  <2>6. saved' = "none" => ~known'
    BY <2>2 DEF TaskInv
  <2>7. monitor' = "none" => ~cancelling'
    BY <2>1, <2>2 DEF TaskInv, CancelTask
  <2>8. monitor' \in Reading => cancelling' \/ wasFull'
    BY <2>1, <2>2, <2>3 DEF TaskInv, CancelTask, Reading
  <2>9. monitor' = "final" /\ known' /\ ~wasFull' => unflushed' = <<>>
    BY <2>1, <2>2, <2>3 DEF TaskInv
  <2>. QED  BY <2>2, <2>3, <2>5, <2>6, <2>7, <2>8, <2>9 DEF TaskInv
<1>9. CASE Restart
    BY <1>9 DEF Restart, TaskInv, Reading, hostVars, worldVars
<1>10. ASSUME NEW c \in Clients, Connect(c) \/ Disconnect(c) \/ Stream(c)
       PROVE  TaskInv'
  <2>1. PICK pc \in {"off", "top", "check", "done"}, index \in Nat, lines \in Seq(Line) :
           Serve(c, pc, index, lines)
    BY <1>10, StreamEffect
  <2>. QED  BY <2>1 DEF Serve, TaskInv, Terminal, Reading, hostVars, recordVars, bufferVars,
         worldVars, monitorVars
<1>11. CASE UNCHANGED vars
    BY <1>11 DEF vars, TaskInv, Terminal, Reading, hostVars, recordVars, bufferVars,
       worldVars, monitorVars
<1>12. CASE Task
    BY <1>2, <1>3, <1>4, <1>5, <1>12 DEF Task
<1>13. CASE Sync
    BY <1>6, <1>7, <1>8, <1>13 DEF Sync
<1>. QED  BY <1>1, <1>4, <1>6, <1>9, <1>10, <1>11, <1>12, <1>13, <1>14 DEF Next

(* The types and TaskInv hold in every reachable state.                    *)
LEMMA TaskInvariant == Spec => [](TypeOK /\ TaskInv)
<1>1. Init => TaskInv
    BY DEF Init, TaskInv, Terminal, Reading
<1>. QED  BY <1>1, TypeCorrect, TaskStep, PTL DEF Spec

(* A local monitor returns only when it has passed on all of .stdout.log.  *)
THEOREM LocalMonitorReadsAll == Spec => []MonitorReadsAll
<1>1. TaskInv => MonitorReadsAll
    BY DEF TaskInv, MonitorReadsAll
<1>. QED  BY <1>1, TaskInvariant, PTL


-----------------------------------------------------------------------------
(* What a step does to the log.                                            *)

(* Nothing is in memory, and no task will put anything there.              *)
Cleared == monitor = "none" /\ logs = <<>> /\ unflushed = <<>>

(* Only a task that reads, and is not cancelled, has lines to log.         *)
FromTask(lines) ==
    \/ lines = <<>> /\ offset' = offset
    \/ /\ monitor \in Reading /\ ~cancelling
       /\ \/ lines = Splitlines(offset, upto) /\ offset' = upto
          \/ /\ lines = <<ErrorLine>> /\ offset' = offset
             /\ known => monitor' = "none"

(* The lines go to memory, which may be cleared after that, and to what is *)
(* on disk or still to be flushed, if DATA_DIR takes writes.               *)
Extends(lines) ==
    /\ FromTask(lines)
    /\ \/ PushLog(lines)
       \/ known /\ logs' = <<>> /\ total' = total + Len(lines)
    /\ known' /\ ~full /\ (monitor = "final" => unflushed = <<>>) =>
          /\ Logged' = Logged \o lines
          /\ monitor' = "final" => unflushed' = <<>>
          /\ monitor = "none" /\ unflushed = <<>> => unflushed' = <<>>
          /\ PushLog(lines) \/ Cleared'

(* Memory that is left alone has been pushed no line.                      *)
LEMMA PushNothing ==
    ASSUME TypeOK, UNCHANGED <<logs, total>>
    PROVE  PushLog(<<>>)
<1>1. logs \in Seq(Line) /\ total \in Nat /\ Len(logs) <= MAX_IN_MEMORY_LINES
    BY DEF TypeOK
<1>2. logs \o <<>> = logs /\ Len(<<>>) = 0 /\ Len(logs) \in Nat
    BY <1>1, ConcatEmptySeq, EmptySeq, LenProperties
<1>3. ~(Len(logs) - MAX_IN_MEMORY_LINES > 0) /\ total + 0 = total
    BY <1>1, <1>2, BoundAssumption
<1>. QED  BY <1>2, <1>3 DEF PushLog

(* Lines move from the list to the disk without a change to both.          *)
LEMMA LoggedParts ==
    ASSUME TypeOK, NEW lines \in Seq(Line)
    PROVE  /\ Logged \in Seq(Line) /\ Logged \o <<>> = Logged
           /\ output \o (unflushed \o lines) = Logged \o lines
           /\ unflushed \o <<>> = unflushed
           /\ unflushed \o lines \in Seq(Line)
           /\ (output \o (unflushed \o lines)) \o <<>> = Logged \o lines
<1>1. output \in Seq(Line) /\ unflushed \in Seq(Line)
    BY DEF TypeOK
<1>2. /\ Logged \in Seq(Line) /\ unflushed \o lines \in Seq(Line)
      /\ unflushed \o <<>> = unflushed
    BY <1>1, ConcatProperties, ConcatEmptySeq DEF Logged
<1>3. output \o (unflushed \o lines) = Logged \o lines
    BY <1>1, ConcatAssociative DEF Logged
<1>4. Logged \o lines \in Seq(Line)
    BY <1>2, ConcatProperties
<1>5. Logged \o <<>> = Logged /\ (Logged \o lines) \o <<>> = Logged \o lines
    BY <1>2, <1>4, ConcatEmptySeq
<1>. QED  BY <1>2, <1>3, <1>5

(* A step that leaves the log alone.                                       *)
LEMMA Quiet ==
    ASSUME TypeOK, UNCHANGED <<bufferVars, output, offset>>,
           monitor' = "final" => monitor = "final"
    PROVE  Extends(<<>>)
<1>1. UNCHANGED <<logs, unflushed, total, output, offset>>
    BY DEF bufferVars
<1>2. Logged' = Logged /\ Logged \o <<>> = Logged
    BY <1>1, LoggedParts, EmptySeq DEF Logged
<1>3. PushLog(<<>>)
    BY <1>1, PushNothing
<1>. QED  BY <1>1, <1>2, <1>3 DEF Extends, FromTask

(* The finally clause extends the log by the lines it is given.            *)
LEMMA FinalizeExtends ==
    ASSUME TypeOK, NEW s \in {"RUNNING", "finished", "given up"}, NEW lines \in Seq(Line),
           Finalize(s, lines), FromTask(lines)
    PROVE  Extends(lines)
<1>1. /\ known' = known
      /\ known /\ ~full => output' = output \o (unflushed \o lines) /\ unflushed' = <<>>
      /\ \/ PushLog(lines)
         \/ /\ known /\ ~full /\ monitor' = "none"
            /\ logs' = <<>> /\ total' = total + Len(lines)
    BY FinalizeEffect
<1>2. known' /\ ~full => Logged' = Logged \o lines /\ unflushed' = <<>>
    BY <1>1, LoggedParts DEF Logged
<1>. QED  BY <1>1, <1>2 DEF Extends, Cleared

(* Every step but a restart extends the log, most of them with no line.    *)
LEMMA LogStep ==
    ASSUME TypeOK, TaskInv, [Next]_vars, ~Restart
    PROVE  \E lines \in Seq(Line) : Extends(lines)
<1>e. <<>> \in Seq(Line) /\ <<ErrorLine>> \in Seq(Line)
    BY EmptySeq, ErrorLineIsALine
<1>1. CASE WrapperWrites \/ WrapperEnds \/ WrapperKilled \/ MonitorReads
  <2>1. /\ UNCHANGED <<bufferVars, output, offset>>
        /\ monitor' = "final" => monitor = "final"
    BY <1>1 DEF WrapperWrites, WrapperEnds, WrapperKilled, MonitorReads, monitorVars
  <2>. QED  BY <1>e, <2>1, Quiet
<1>2. CASE MonitorLogs \/ MonitorLogsLast
  <2>. DEFINE lines == Splitlines(offset, upto)
  <2>1. /\ PushLog(lines) /\ unflushed' = Pushed(lines)
        /\ offset' = upto /\ monitor' \in {"exit", "collect", "poll"}
        /\ monitor \in Reading /\ ~cancelling /\ UNCHANGED <<recordVars, output>>
    BY <1>2 DEF MonitorLogs, MonitorLogsLast, Log, Resumes, Reading
  <2>2. offset \in 0..MaxUnits /\ upto \in offset..MaxUnits
    BY TypeParts, BoundAssumption DEF PlacesOK
  <2>3. lines \in Seq(Line)
    BY <2>2, SplitlinesPieces
  <2>4. FromTask(lines)
    BY <2>1 DEF FromTask
  <2>. HIDE DEF lines
  <2>5. known' => Logged' = Logged \o lines
    BY <2>1, <2>3, LoggedParts DEF Logged, Pushed, recordVars
  <2>6. Extends(lines)
    BY <2>1, <2>4, <2>5 DEF Extends, Reading
  <2>. QED  BY <2>3, <2>6
<1>3. CASE MonitorRaises
  <2>1. Finalize("given up", <<ErrorLine>>) /\ FromTask(<<ErrorLine>>)
    BY <1>3 DEF MonitorRaises, Finalize, FromTask, Resumes, Reading
  <2>. QED  BY <1>e, <2>1, FinalizeExtends
<1>4. CASE \/ SaveReturns
           \/ /\ Collect
              /\ Finalize("finished", <<>>)
           \/ /\ CancelDelivered
              /\ monitor # "final"
  <2>1. status \in {"RUNNING", "finished", "given up"}
    BY DEF TypeOK
  <2>2. /\ \E s \in {"RUNNING", "finished", "given up"} : Finalize(s, <<>>)
        /\ FromTask(<<>>)
    BY <1>4, <2>1 DEF SaveReturns, Collect, CancelDelivered, Terminal, FromTask
  <2>. QED  BY <1>e, <2>2, FinalizeExtends
<1>5. CASE \/ /\ Collect
              /\ ~Finalize("finished", <<>>)
           \/ /\ CancelDelivered
              /\ monitor = "final"
  <2>1. /\ UNCHANGED <<bufferVars, output, offset>>
        /\ monitor' \in {"save", "none"}
    BY <1>5 DEF Collect, CancelDelivered
  <2>. QED  BY <1>e, <2>1, Quiet
<1>6. CASE SyncAsks \/ Cancel \/ DiskFills
  <2>1. UNCHANGED <<bufferVars, output, offset, monitor>>
    BY <1>6 DEF SyncAsks, Cancel, DiskFills, monitorVars
  <2>. QED  BY <1>e, <2>1, Quiet
<1>7. CASE Delete
  <2>1. UNCHANGED <<bufferVars, offset>> /\ ~known'
    BY <1>7 DEF Delete
  <2>2. PushLog(<<>>)
    BY <2>1, PushNothing DEF bufferVars
  <2>3. Extends(<<>>)
    BY <2>1, <2>2 DEF Extends, FromTask
  <2>. QED  BY <1>e, <2>3
<1>8. CASE FinalSync
  <2>1. /\ UNCHANGED <<known, output, total, offset>> /\ monitor = "final" /\ monitor' = "none"
        /\ known /\ ~full => logs' = <<>> /\ unflushed' = <<>>
        /\ ~(known /\ ~full) => UNCHANGED bufferVars
    BY <1>8 DEF FinalSync, ClearJobLogs, Resumes, bufferVars
  <2>2. CASE known /\ ~full
    <3>1. unflushed = <<>> => Logged' = Logged /\ Logged \o <<>> = Logged
      BY <2>1, <2>2, <1>e, LoggedParts DEF Logged
    <3>2. total' = total + Len(<<>>)
      <4>1. total \in Nat
        BY DEF TypeOK
      <4>. QED  BY <2>1, <4>1
    <3>3. Extends(<<>>)
      BY <2>1, <2>2, <3>1, <3>2 DEF Extends, FromTask, Cleared
    <3>. QED  BY <1>e, <3>3
  <2>3. CASE ~(known /\ ~full)
    BY <1>e, <2>1, <2>3, Quiet
  <2>. QED  BY <2>2, <2>3
<1>9. CASE SyncFlushes \/ SyncRecovers
  <2>1. /\ UNCHANGED <<logs, total, offset, known, monitor>>
        /\ Flush(unflushed) \/ UNCHANGED <<unflushed, output>>
    BY <1>9 DEF SyncFlushes, SyncRecovers, recordVars, monitorVars
  <2>2. CASE UNCHANGED <<unflushed, output>>
    BY <1>e, <2>1, <2>2, Quiet DEF bufferVars
  <2>3. CASE Flush(unflushed)
    <3>1. known /\ ~full => output' = output \o unflushed /\ unflushed' = <<>>
      BY <2>3, FlushEffect
    <3>2. known /\ ~full => Logged' = Logged \o <<>>
      BY <1>e, <3>1, LoggedParts DEF Logged
    <3>3. PushLog(<<>>)
      BY <2>1, PushNothing
    <3>4. Extends(<<>>)
      BY <2>1, <3>1, <3>2, <3>3 DEF Extends, FromTask
    <3>. QED  BY <1>e, <3>4
  <2>. QED  BY <2>1, <2>2, <2>3
<1>10. ASSUME NEW c \in Clients, Connect(c) \/ Disconnect(c) \/ Stream(c)
       PROVE  \E lines \in Seq(Line) : Extends(lines)
  <2>1. PICK pc \in {"off", "top", "check", "done"}, index \in Nat, lines \in Seq(Line) :
           Serve(c, pc, index, lines)
    BY <1>10, StreamEffect
  <2>2. UNCHANGED <<bufferVars, output, offset, monitor>>
    BY <2>1 DEF Serve, monitorVars
  <2>. QED  BY <1>e, <2>2, Quiet
<1>11. CASE UNCHANGED vars
  <2>1. UNCHANGED <<bufferVars, output, offset, monitor>>
    BY <1>11 DEF vars, monitorVars
  <2>. QED  BY <1>e, <2>1, Quiet
<1>12. CASE Task
    BY <1>1, <1>2, <1>4, <1>5, <1>8, <1>12 DEF Task
<1>13. CASE Sync
    BY <1>6, <1>9, <1>13 DEF Sync
<1>. QED  BY <1>1, <1>3, <1>6, <1>7, <1>10, <1>11, <1>12, <1>13 DEF Next

(* What does not come back, but for a restart.                             *)
LEMMA OneWay ==
    ASSUME TypeOK, TaskInv, [Next]_vars
    PROVE  /\ wasFull => wasFull'
           /\ Restart \/ /\ known' => known
                         /\ monitor = "none" => monitor' = "none"
                         /\ known /\ Terminal /\ known' => Terminal'
           /\ Restart => /\ logs' = <<>> /\ unflushed' = <<>> /\ total' = 0
                         /\ monitor' = "none" /\ output' = output
                         /\ stream' = [c \in Clients |-> "off"]
                         /\ known' => known \/ output = <<>>
<1>1. Restart => /\ logs' = <<>> /\ unflushed' = <<>> /\ total' = 0
                 /\ monitor' = "none" /\ output' = output
                 /\ stream' = [c \in Clients |-> "off"]
                 /\ known' => known \/ output = <<>>
    BY DEF Restart, TaskInv
<1>2. wasFull => wasFull'
  <2>1. CASE DiskFills
    BY <2>1 DEF DiskFills
  <2>2. CASE ~DiskFills
    BY <2>2 DEF Next, Task, Sync, vars, worldVars, WrapperWrites, WrapperEnds, WrapperKilled,
       MonitorReads, MonitorLogs, MonitorLogsLast, MonitorRaises, Collect, SaveReturns, FinalSync,
       CancelDelivered, SyncAsks, SyncFlushes, SyncRecovers, Cancel, Delete, Restart,
       Connect, Disconnect, Stream, StreamPolls, StreamChecks, FinishStream, Serve
  <2>. QED  BY <2>1, <2>2
<1>. DEFINE Forward == /\ known' => known
                       /\ monitor = "none" => monitor' = "none"
                       /\ known /\ Terminal /\ known' => Terminal'
<1>3. ASSUME \/ WrapperWrites \/ WrapperEnds \/ WrapperKilled
             \/ MonitorReads \/ MonitorLogs \/ MonitorLogsLast
             \/ SyncAsks \/ SyncFlushes \/ DiskFills \/ UNCHANGED vars
      PROVE  Forward
  <2>1. UNCHANGED <<known, status>> /\ (monitor = "none" => monitor' = "none")
    BY <1>3 DEF vars, recordVars, monitorVars, WrapperWrites, WrapperEnds, WrapperKilled,
       MonitorReads, MonitorLogs, MonitorLogsLast, SyncAsks, SyncFlushes, DiskFills, Resumes
  <2>. QED  BY <2>1 DEF Terminal
<1>4. ASSUME \/ MonitorRaises \/ SaveReturns
             \/ /\ Collect
                /\ Finalize("finished", <<>>)
             \/ /\ CancelDelivered
                /\ monitor # "final"
      PROVE  Forward
  <2>1. PICK s \in {"RUNNING", "finished", "given up"}, lines \in Seq(Line) :
           Finalize(s, lines) /\ (Terminal => s \in {"finished", "given up"})
    <3>1. /\ <<>> \in Seq(Line) /\ <<ErrorLine>> \in Seq(Line)
      BY EmptySeq, ErrorLineIsALine
    <3>6. status \in {"RUNNING", "finished", "given up"}
      BY DEF TypeOK
    <3>2. CASE MonitorRaises
      BY <3>1, <3>2 DEF MonitorRaises
    <3>3. CASE SaveReturns
      BY <3>1, <3>6, <3>3 DEF SaveReturns, Terminal
    <3>4. CASE Collect /\ Finalize("finished", <<>>)
      BY <3>1, <3>4
    <3>5. CASE CancelDelivered /\ monitor # "final"
      BY <3>1, <3>5, <3>6 DEF CancelDelivered, Terminal
    <3>. QED  BY <1>4, <3>2, <3>3, <3>4, <3>5
  <2>2. known' = known /\ status' = (IF known THEN s ELSE status)
    BY <2>1, FinalizeEffect
  <2>3. monitor # "none"
    BY <1>4 DEF MonitorRaises, SaveReturns, Collect, CancelDelivered, Resumes, TaskInv
  <2>. QED  BY <2>1, <2>2, <2>3 DEF Terminal
<1>5. ASSUME \/ FinalSync \/ SyncRecovers \/ Cancel \/ Delete
             \/ /\ Collect
                /\ ~Finalize("finished", <<>>)
             \/ /\ CancelDelivered
                /\ monitor = "final"
      PROVE  Forward
  <2>1. (known' => known) /\ (monitor = "none" => monitor' = "none")
    BY <1>5 DEF FinalSync, SyncRecovers, Cancel, Delete, Collect, CancelDelivered, Resumes,
       recordVars
  <2>2. status' = status \/ status' \in {"finished", "given up"}
    BY <1>5 DEF FinalSync, SyncRecovers, Cancel, Delete, Collect, CancelDelivered, recordVars
  <2>. QED  BY <2>1, <2>2 DEF Terminal
<1>6. ASSUME NEW c \in Clients, Connect(c) \/ Disconnect(c) \/ Stream(c)
      PROVE  Forward
  <2>1. PICK pc \in {"off", "top", "check", "done"}, index \in Nat, lines \in Seq(Line) :
           Serve(c, pc, index, lines)
    BY <1>6, StreamEffect
  <2>. QED  BY <2>1 DEF Serve, recordVars, monitorVars, Terminal
<1>7. Restart \/ Forward
  <2>1. CASE Task
    BY <1>3, <1>4, <1>5, <2>1 DEF Task
  <2>2. CASE Sync
    BY <1>3, <1>5, <2>2 DEF Sync
  <2>. QED  BY <1>3, <1>4, <1>5, <1>6, <2>1, <2>2 DEF Next
<1>. QED  BY <1>1, <1>2, <1>7

-----------------------------------------------------------------------------
(* What is on disk or still to be flushed.                                 *)

(* A task that may log finds a log that ends where it reads on.            *)
LoggedInv ==
    known /\ ~wasFull =>
        /\ Contiguous(Logged)
        /\ monitor # "none" \/ total > 0 => End(Logged) = offset
        /\ monitor # "none" => \A i \in DOMAIN Logged : Logged[i] # ErrorLine

(* The elements of a sequence that was appended to.                        *)
LEMMA Appended ==
    ASSUME NEW s \in Seq(Line), NEW t \in Seq(Line), NEW u, u = s \o t
    PROVE  /\ u \in Seq(Line) /\ Len(u) = Len(s) + Len(t)
           /\ Len(s) \in Nat /\ Len(t) \in Nat
           /\ DOMAIN u = 1..Len(u) /\ DOMAIN s = 1..Len(s) /\ DOMAIN t = 1..Len(t)
           /\ \A i \in 1..Len(s) : u[i] = s[i]
           /\ \A i \in (Len(s) + 1)..Len(u) : u[i] = t[i - Len(s)] /\ i - Len(s) \in 1..Len(t)
<1>1. /\ u \in Seq(Line) /\ Len(u) = Len(s) + Len(t)
      /\ \A i \in 1..Len(u) : u[i] = IF i <= Len(s) THEN s[i] ELSE t[i - Len(s)]
    BY ConcatProperties
<1>2. /\ Len(s) \in Nat /\ Len(t) \in Nat
      /\ DOMAIN u = 1..Len(u) /\ DOMAIN s = 1..Len(s) /\ DOMAIN t = 1..Len(t)
    BY <1>1, LenProperties
<1>. QED  BY <1>1, <1>2

(* The end of a log without an error message.                              *)
LEMMA EndOf ==
    ASSUME NEW s \in Seq(Line), \A i \in DOMAIN s : s[i] # ErrorLine
    PROVE  End(s) = IF Len(s) = 0 THEN 0 ELSE s[Len(s)].to
<1>1. Len(s) \in Nat /\ DOMAIN s = 1..Len(s) /\ (s = <<>> <=> Len(s) = 0)
    BY LenProperties, EmptySeq
<1>2. ~(s # <<>> /\ s[Len(s)] = ErrorLine)
    BY <1>1
<1>. QED  BY <1>1, <1>2 DEF End

(* What was read goes on where the log ended.                              *)
LEMMA PiecesAppended ==
    ASSUME TypeOK, NEW s \in Seq(Line), Contiguous(s), End(s) = offset,
           \A i \in DOMAIN s : s[i] # ErrorLine,
           NEW t, t = Splitlines(offset, upto)
    PROVE  /\ Contiguous(s \o t) /\ End(s \o t) = upto
           /\ \A i \in DOMAIN (s \o t) : (s \o t)[i] # ErrorLine
<1>0. offset \in 0..MaxUnits /\ upto \in offset..MaxUnits
    BY TypeParts, BoundAssumption DEF PlacesOK
<1>1. /\ t \in Seq(Line)
      /\ t = <<>> <=> offset = upto
      /\ offset # upto => t[1].from = offset /\ t[Len(t)].to = upto
      /\ \A i \in 1..Len(t) : offset <= t[i].from /\ t[i].from < t[i].to /\ t[i].to <= upto
      /\ \A i \in 2..Len(t) : t[i].from = t[i - 1].to
    BY <1>0, SplitlinesPieces
<1>. DEFINE u == s \o t
<1>2. /\ u \in Seq(Line) /\ Len(u) = Len(s) + Len(t)
      /\ Len(s) \in Nat /\ Len(t) \in Nat
      /\ DOMAIN u = 1..Len(u) /\ DOMAIN s = 1..Len(s) /\ DOMAIN t = 1..Len(t)
      /\ \A i \in 1..Len(s) : u[i] = s[i]
      /\ \A i \in (Len(s) + 1)..Len(u) : u[i] = t[i - Len(s)] /\ i - Len(s) \in 1..Len(t)
    BY <1>1, Appended
<1>3. t = <<>> <=> Len(t) = 0
    BY <1>1, EmptySeq
<1>4. offset = IF Len(s) = 0 THEN 0 ELSE s[Len(s)].to
    BY EndOf
<1>. HIDE DEF u
<1>5. \A i \in 1..Len(t) : t[i] # ErrorLine
  <2>. SUFFICES ASSUME NEW i \in 1..Len(t), t[i] = ErrorLine PROVE FALSE
    OBVIOUS
  <2>1. t[i].from < t[i].to /\ t[i].from = 0 /\ t[i].to = 0
    BY <1>1 DEF ErrorLine
  <2>. QED  BY <2>1
<1>6. \A i \in DOMAIN u : u[i] # ErrorLine
  <2>. SUFFICES ASSUME NEW i \in 1..Len(u) PROVE u[i] # ErrorLine
    BY <1>2
  <2>1. CASE i <= Len(s)
    BY <1>2, <2>1
  <2>2. CASE i > Len(s)
    BY <1>2, <1>5, <2>2
  <2>. QED  BY <1>2, <2>1, <2>2
<1>7. \A i \in 1..Len(s) : s[i].from = IF i = 1 THEN 0 ELSE s[i - 1].to
    BY <1>2 DEF Contiguous
<1>8. \A i \in 1..Len(u) : u[i].from = IF i = 1 THEN 0 ELSE u[i - 1].to
  <2>. SUFFICES ASSUME NEW i \in 1..Len(u)
                PROVE  u[i].from = IF i = 1 THEN 0 ELSE u[i - 1].to
    OBVIOUS
  <2>1. CASE i <= Len(s)
    <3>1. u[i] = s[i] /\ (i # 1 => u[i - 1] = s[i - 1])
      BY <1>2, <2>1
    <3>. QED  BY <1>2, <1>7, <2>1, <3>1
  <2>2. CASE i = Len(s) + 1
    <3>1. u[i] = t[1] /\ Len(t) # 0
      BY <1>2, <2>2
    <3>2. t[1].from = offset
      BY <1>1, <1>3, <3>1
    <3>3. i # 1 => u[i - 1] = s[Len(s)]
      BY <1>2, <2>2
    <3>. QED  BY <1>2, <1>4, <2>2, <3>1, <3>2, <3>3
  <2>3. CASE i > Len(s) + 1
    <3>. DEFINE k == i - Len(s)
    <3>1. /\ u[i] = t[k] /\ k \in 2..Len(t) /\ i - 1 \in (Len(s) + 1)..Len(u)
          /\ (i - 1) - Len(s) = k - 1 /\ i # 1
      BY <1>2, <2>3
    <3>2. u[i - 1] = t[k - 1]
      BY <1>2, <3>1
    <3>. HIDE DEF k
    <3>3. t[k].from = t[k - 1].to
      BY <1>1, <3>1
    <3>4. u[i].from = u[i - 1].to
      BY <3>1, <3>2, <3>3, Zenon
    <3>5. i # 1
      BY <3>1
    <3>. QED  BY <3>4, <3>5, Zenon
  <2>4. i <= Len(s) \/ i = Len(s) + 1 \/ i > Len(s) + 1
    BY <1>2
  <2>. QED  BY <2>1, <2>2, <2>3, <2>4, Zenon
<1>9. Contiguous(u)
    BY <1>2, <1>6, <1>8 DEF Contiguous
<1>10. End(u) = IF Len(u) = 0 THEN 0 ELSE u[Len(u)].to
    BY <1>2, <1>6, EndOf
<1>11. End(u) = upto
  <2>1. CASE Len(t) = 0
    <3>1. offset = upto /\ Len(u) = Len(s)
      BY <1>1, <1>2, <1>3, <2>1
    <3>. QED  BY <1>2, <1>4, <1>10, <3>1
  <2>2. CASE Len(t) # 0
    <3>1. Len(u) \in (Len(s) + 1)..Len(u) /\ Len(u) - Len(s) = Len(t) /\ Len(u) # 0
      BY <1>2, <2>2
    <3>2. u[Len(u)] = t[Len(t)]
      BY <1>2, <3>1
    <3>. QED  BY <1>1, <1>3, <1>10, <2>2, <3>1, <3>2
  <2>. QED  BY <2>1, <2>2
<1>. QED  BY <1>6, <1>9, <1>11 DEF u

(* The error message goes to the end of the log.                           *)
LEMMA ErrorAppended ==
    ASSUME NEW s \in Seq(Line), Contiguous(s), \A i \in DOMAIN s : s[i] # ErrorLine
    PROVE  Contiguous(s \o <<ErrorLine>>) /\ End(s \o <<ErrorLine>>) = End(s)
<1>. DEFINE t == <<ErrorLine>>
            u == s \o t
<1>1. t \in Seq(Line) /\ Len(t) = 1 /\ t[1] = ErrorLine
    BY ErrorLineIsALine
<1>. HIDE DEF t
<1>2. /\ u \in Seq(Line) /\ Len(u) = Len(s) + Len(t)
      /\ Len(s) \in Nat /\ Len(t) \in Nat
      /\ DOMAIN u = 1..Len(u) /\ DOMAIN s = 1..Len(s) /\ DOMAIN t = 1..Len(t)
      /\ \A i \in 1..Len(s) : u[i] = s[i]
      /\ \A i \in (Len(s) + 1)..Len(u) : u[i] = t[i - Len(s)] /\ i - Len(s) \in 1..Len(t)
    BY <1>1, Appended
<1>3. u # <<>> /\ Len(u) = Len(s) + 1
    BY <1>1, <1>2, EmptySeq
<1>. HIDE DEF u
<1>4. u[Len(u)] = ErrorLine
    BY <1>1, <1>2, <1>3
<1>5. \A i \in 1..Len(s) : s[i] # ErrorLine /\ s[i].from = IF i = 1 THEN 0 ELSE s[i - 1].to
    BY <1>2 DEF Contiguous
<1>6. Contiguous(u)
  <2>. SUFFICES ASSUME NEW i \in 1..Len(u)
                PROVE  IF u[i] = ErrorLine THEN i = Len(u)
                       ELSE u[i].from = IF i = 1 THEN 0 ELSE u[i - 1].to
    BY <1>2 DEF Contiguous
  <2>1. CASE i = Len(u)
    BY <1>4, <2>1
  <2>2. CASE i # Len(u)
    <3>1. i \in 1..Len(s) /\ u[i] = s[i] /\ (i # 1 => i - 1 \in 1..Len(s) /\ u[i - 1] = s[i - 1])
      BY <1>2, <1>3, <2>2
    <3>. QED  BY <1>5, <3>1
  <2>. QED  BY <2>1, <2>2
<1>7. End(u) = End(s)
  <2>1. End(s) = IF Len(s) = 0 THEN 0 ELSE s[Len(s)].to
    BY EndOf
  <2>2. End(u) = IF Len(s) = 0 THEN 0 ELSE u[Len(s)].to
    <3>1. Len(u) - 1 = Len(s)
      BY <1>2, <1>3
    <3>2. End(u) = LET n == Len(u) - 1 IN IF n = 0 THEN 0 ELSE u[n].to
      BY <1>3, <1>4 DEF End
    <3>. QED  BY <3>1, <3>2
  <2>. QED  BY <1>2, <2>1, <2>2
<1>. QED  BY <1>6, <1>7 DEF t, u

(* What a log that was cut off has kept.                                   *)
LEMMA FrontContiguous ==
    ASSUME NEW s \in Seq(Line), NEW t \in Seq(Line), Contiguous(s \o t)
    PROVE  Contiguous(s)
<1>. DEFINE u == s \o t
<1>1. /\ Len(u) = Len(s) + Len(t)
      /\ Len(s) \in Nat /\ Len(t) \in Nat
      /\ DOMAIN u = 1..Len(u) /\ DOMAIN s = 1..Len(s)
      /\ \A i \in 1..Len(s) : u[i] = s[i]
    BY Appended
<1>. HIDE DEF u
<1>2. \A i \in 1..Len(u) : IF u[i] = ErrorLine THEN i = Len(u)
                           ELSE u[i].from = IF i = 1 THEN 0 ELSE u[i - 1].to
    BY <1>1 DEF Contiguous, u
<1>. SUFFICES ASSUME NEW i \in 1..Len(s)
              PROVE  IF s[i] = ErrorLine THEN i = Len(s)
                     ELSE s[i].from = IF i = 1 THEN 0 ELSE s[i - 1].to
    BY <1>1 DEF Contiguous
<1>3. i \in 1..Len(u) /\ u[i] = s[i] /\ (i # 1 => i - 1 \in 1..Len(s) /\ u[i - 1] = s[i - 1])
    BY <1>1
<1>4. CASE s[i] = ErrorLine
  <2>1. i = Len(u)
    BY <1>2, <1>3, <1>4
  <2>2. Len(s) \in Nat /\ Len(u) \in Nat /\ Len(u) >= Len(s)
    BY <1>1
  <2>3. i \in Nat /\ i <= Len(s)
    BY <2>2
  <2>4. i = Len(s)
    BY <2>1, <2>2, <2>3
  <2>. QED  BY <1>4, <2>4, Zenon
<1>5. CASE s[i] # ErrorLine
  <2>1. u[i].from = IF i = 1 THEN 0 ELSE u[i - 1].to
    BY <1>2, <1>3, <1>5
  <2>2. CASE i = 1
    BY <1>3, <1>5, <2>1, <2>2
  <2>3. CASE i # 1
    <3>1. s[i].from = s[i - 1].to
      BY <1>3, <2>1, <2>3
    <3>. QED  BY <1>5, <2>3, <3>1, Zenon
  <2>. QED  BY <2>2, <2>3
<1>. QED  BY <1>4, <1>5

(* Every action keeps LoggedInv.                                           *)
LEMMA LoggedStep ==
    ASSUME TypeOK, TaskInv, LoggedInv, [Next]_vars
    PROVE  LoggedInv'
<1>. SUFFICES ASSUME known', ~wasFull'
              PROVE  /\ Contiguous(Logged')
                     /\ monitor' # "none" \/ total' > 0 => End(Logged') = offset'
                     /\ monitor' # "none" => \A i \in DOMAIN Logged' : Logged'[i] # ErrorLine
    BY DEF LoggedInv, Contiguous, End
<1>1. CASE Restart
  <2>1. /\ unflushed' = <<>> /\ total' = 0 /\ monitor' = "none" /\ output' = output /\ ~wasFull
        /\ known \/ output = <<>>
    BY <1>1, OneWay
  <2>2. output \in Seq(Line) /\ unflushed \in Seq(Line)
    BY DEF TypeOK
  <2>3. Logged' = output
    BY <2>1, <2>2, ConcatEmptySeq DEF Logged
  <2>4. Contiguous(output)
    <3>1. CASE known
      BY <2>1, <2>2, <3>1, FrontContiguous DEF LoggedInv, Logged
    <3>2. CASE output = <<>>
      BY <3>2 DEF Contiguous
    <3>. QED  BY <2>1, <3>1, <3>2
  <2>. QED  BY <2>1, <2>3, <2>4
<1>2. CASE ~Restart
  <2>1. PICK lines \in Seq(Line) : Extends(lines)
    BY <1>2, LogStep
  <2>2. known /\ ~wasFull /\ (monitor = "none" => monitor' = "none")
    BY <1>2, OneWay
  <2>3. ~full /\ (monitor = "final" => unflushed = <<>>)
    BY <2>2 DEF TaskInv
  <2>4. /\ Contiguous(Logged)
        /\ monitor # "none" \/ total > 0 => End(Logged) = offset
        /\ monitor # "none" => \A i \in DOMAIN Logged : Logged[i] # ErrorLine
    BY <2>2 DEF LoggedInv
  <2>5. Logged' = Logged \o lines /\ FromTask(lines)
    BY <2>1, <2>3 DEF Extends
  <2>6. Logged \in Seq(Line)
    BY LoggedParts, EmptySeq
  <2>7. CASE lines = <<>> /\ offset' = offset
    <3>1. Logged' = Logged
      BY <2>5, <2>6, <2>7, ConcatEmptySeq
    <3>2. total' > 0 => total > 0
      <4>1. total' = total + Len(lines) \/ total' = total
        BY <2>1 DEF Extends, PushLog
      <4>2. Len(lines) = 0 /\ total \in Nat
        BY <2>7 DEF TypeOK
      <4>. QED  BY <4>1, <4>2
    <3>. QED  BY <2>2, <2>4, <2>7, <3>1, <3>2
  <2>8. CASE /\ monitor \in Reading
             /\ lines = Splitlines(offset, upto) /\ offset' = upto
    <3>1. monitor # "none"
      BY <2>8 DEF Reading
    <3>. QED  BY <2>4, <2>5, <2>6, <2>8, <3>1, PiecesAppended
  <2>9. CASE /\ monitor \in Reading
             /\ lines = <<ErrorLine>> /\ offset' = offset /\ monitor' = "none"
    <3>1. monitor # "none"
      BY <2>9 DEF Reading
    <3>. QED  BY <2>4, <2>5, <2>6, <2>9, <3>1, ErrorAppended
  <2>. QED  BY <2>2, <2>5, <2>7, <2>8, <2>9 DEF FromTask
<1>. QED  BY <1>1, <1>2

(* LoggedInv holds in every reachable state.                               *)
LEMMA LoggedInvariant == Spec => [](TypeOK /\ TaskInv /\ LoggedInv)
<1>1. Init => LoggedInv
  <2>. SUFFICES ASSUME Init PROVE LoggedInv
    OBVIOUS
  <2>1. Logged = <<>> /\ offset = 0
    BY DEF Init, Logged
  <2>. QED  BY <2>1 DEF LoggedInv, Contiguous, End
<1>. QED  BY <1>1, TaskInvariant, LoggedStep, PTL DEF Spec

(* While DATA_DIR takes writes, output.log and the lines to be flushed are *)
(* the wrapper's output from its start, in order and once each.            *)
THEOREM LogIsWhatWasRead == Spec => []LogIsOutput
<1>1. LoggedInv => LogIsOutput
    BY DEF LoggedInv, LogIsOutput
<1>. QED  BY <1>1, LoggedInvariant, PTL

(* While DATA_DIR takes writes, no line that a task has read is lost.      *)
THEOREM NothingIsLost == Spec => []NothingReadIsLost
<1>1. LoggedInv => NothingReadIsLost
    BY DEF LoggedInv, NothingReadIsLost
<1>. QED  BY <1>1, LoggedInvariant, PTL

-----------------------------------------------------------------------------
(* What is in memory, and what clients have received of it.                *)

(* Memory has everything that was logged since the process started, or     *)
(* nothing, when the job is over or was restored from DATA_DIR.            *)
MemoryInv ==
    known /\ ~wasFull /\ total <= MAX_IN_MEMORY_LINES =>
        \/ Cleared /\ total = 0
        \/ Len(Logged) = total /\ (Cleared \/ logs = Logged)

(* push_log keeps the newest of the lines.                                 *)
LEMMA PushLogLines ==
    ASSUME TypeOK, known, NEW lines \in Seq(Line), PushLog(lines)
    PROVE  /\ total' = total + Len(lines)
           /\ Len(logs \o lines) <= MAX_IN_MEMORY_LINES => logs' = logs \o lines
           /\ \E cut \in Nat :
                /\ Len(logs') = Len(logs) + Len(lines) - cut
                /\ \A i \in 1..Len(logs') : logs'[i] = (logs \o lines)[cut + i]
<1>. DEFINE all == logs \o lines
            evicted == Len(all) - MAX_IN_MEMORY_LINES
<1>1. /\ all \in Seq(Line) /\ Len(all) = Len(logs) + Len(lines) /\ Len(lines) \in Nat
      /\ Len(logs) \in Nat /\ logs \in Seq(Line)
    BY ConcatProperties, LenProperties DEF TypeOK
<1>2. /\ logs' = IF evicted > 0 THEN SubSeq(all, evicted + 1, Len(all)) ELSE all
      /\ total' = total + Len(lines)
    BY DEF PushLog
<1>b. MAX_IN_MEMORY_LINES \in Nat \ {0} /\ Len(all) \in Nat
    BY <1>1, BoundAssumption
<1>. HIDE DEF all
<1>3. CASE evicted > 0
  <2>1. \A i \in (evicted + 1)..Len(all) : all[i] \in Line
    BY <1>1, <1>b, <1>3, ElementOfSeq
  <2>2. /\ Len(SubSeq(all, evicted + 1, Len(all))) = Len(all) - evicted
        /\ \A i \in 1..(Len(all) - evicted) :
              SubSeq(all, evicted + 1, Len(all))[i] = all[evicted + i]
    <3>. DEFINE m == evicted + 1
    <3>1. m \in Int /\ Len(all) \in Int /\ m <= Len(all) /\ Len(all) - m + 1 = Len(all) - evicted
          /\ \A i \in 1..(Len(all) - evicted) : m + i - 1 = evicted + i
      BY <1>b, <1>3
    <3>. HIDE DEF m, evicted
    <3>2. \A i \in m..Len(all) : all[i] \in Line
      BY <2>1 DEF m
    <3>3. /\ Len(SubSeq(all, m, Len(all))) = IF m <= Len(all) THEN Len(all) - m + 1 ELSE 0
          /\ \A i \in 1..(Len(all) - m + 1) : SubSeq(all, m, Len(all))[i] = all[m + i - 1]
      BY <3>1, <3>2, SubSeqProperties
    <3>. QED  BY <3>1, <3>3 DEF m
  <2>3. logs' = SubSeq(all, evicted + 1, Len(all))
    BY <1>2, <1>3
  <2>4. evicted \in Nat /\ ~(Len(all) <= MAX_IN_MEMORY_LINES)
    BY <1>b, <1>3
  <2>. HIDE DEF evicted
  <2>5. /\ Len(logs') = Len(logs) + Len(lines) - evicted
        /\ \A i \in 1..Len(logs') : logs'[i] = all[evicted + i]
    <3>1. Len(logs') = Len(all) - evicted
      BY <2>2, <2>3
    <3>2. \A i \in 1..Len(logs') : logs'[i] = all[evicted + i]
      BY <2>2, <2>3, <3>1
    <3>0. /\ Len(all) = Len(logs) + Len(lines) /\ Len(logs) \in Nat /\ Len(lines) \in Nat
          /\ evicted \in Nat
      BY <1>1, <2>4
    <3>3. Len(logs') = Len(logs) + Len(lines) - evicted
      BY <3>0, <3>1
    <3>. QED  BY <3>2, <3>3
  <2>. QED  BY <1>2, <2>4, <2>5 DEF all
<1>4. CASE ~(evicted > 0)
  <2>1. logs' = all
    BY <1>2, <1>4
  <2>2. 0 \in Nat /\ Len(logs') = Len(logs) + Len(lines) - 0
    BY <1>1, <2>1
  <2>3. \A i \in 1..Len(logs') : logs'[i] = all[0 + i]
    BY <1>1, <2>1
  <2>. QED  BY <1>2, <2>1, <2>2, <2>3 DEF all
<1>. QED  BY <1>3, <1>4

(* get_logs returns what memory has from an offset on.                     *)
LEMMA GetLogsLines ==
    ASSUME TypeOK, known, NEW index \in Nat, index <= total
    PROVE  /\ GetLogs(index).next = total
           /\ \E start \in 0..Len(logs) :
                /\ start = IF index < total - Len(logs) THEN 0
                           ELSE index - (total - Len(logs))
                /\ Len(GetLogs(index).lines) = Len(logs) - start
                /\ \A i \in 1..(Len(logs) - start) :
                      GetLogs(index).lines[i] = logs[start + i]
<1>. DEFINE first == total - Len(logs)
            tail  == SubSeq(logs, index - first + 1, Len(logs))
<1>1. logs \in Seq(Line) /\ Len(logs) \in Nat /\ total \in Nat /\ Len(logs) <= total
  <2>1. logs \in Seq(Line) /\ total \in Nat /\ Len(logs) <= total
    BY DEF TypeOK
  <2>. QED  BY <2>1, LenProperties
<1>2. GetLogs(index) = IF index < first THEN [lines |-> logs, next |-> total]
                       ELSE [lines |-> tail, next |-> index + Len(tail)]
    BY DEF GetLogs
<1>3. CASE index < first
  <2>1. GetLogs(index).lines = logs /\ GetLogs(index).next = total
    BY <1>2, <1>3
  <2>2. 0 \in 0..Len(logs) /\ \A i \in 1..(Len(logs) - 0) : logs[i] = logs[0 + i]
    BY <1>1
  <2>. QED  BY <1>1, <1>3, <2>1, <2>2
<1>4. CASE ~(index < first)
  <2>. DEFINE start == index - first
              m == start + 1
  <2>1. /\ start \in 0..Len(logs) /\ m \in Int /\ m >= 1
        /\ index + (Len(logs) - start) = total
        /\ Len(logs) - m + 1 = Len(logs) - start
        /\ \A i \in 1..(Len(logs) - start) : m + i - 1 = start + i
        /\ ~(m <= Len(logs)) => Len(logs) - start = 0
    BY <1>1, <1>4
  <2>2. tail = SubSeq(logs, m, Len(logs)) /\ ~(index < total - Len(logs))
    BY <1>4
  <2>3. GetLogs(index).lines = tail /\ GetLogs(index).next = index + Len(tail)
    <3>. HIDE DEF tail, first
    <3>1. GetLogs(index) = [lines |-> tail, next |-> index + Len(tail)]
      BY <1>2, <1>4
    <3>. QED  BY <3>1
  <2>4. start = IF index < total - Len(logs) THEN 0 ELSE index - (total - Len(logs))
    BY <1>4
  <2>. HIDE DEF first, tail, start, m
  <2>5. \A i \in m..Len(logs) : logs[i] \in Line
    BY <1>1, <2>1, ElementOfSeq
  <2>6. /\ Len(SubSeq(logs, m, Len(logs))) = IF m <= Len(logs) THEN Len(logs) - m + 1 ELSE 0
        /\ \A i \in 1..(Len(logs) - m + 1) : SubSeq(logs, m, Len(logs))[i] = logs[m + i - 1]
    BY <1>1, <2>1, <2>5, SubSeqProperties
  <2>7. Len(tail) = Len(logs) - start /\ \A i \in 1..(Len(logs) - start) : tail[i] = logs[start + i]
    BY <2>1, <2>2, <2>6
  <2>. QED  BY <2>1, <2>3, <2>4, <2>7
<1>. QED  BY <1>3, <1>4

(* Every action keeps MemoryInv.                                           *)
LEMMA MemoryStep ==
    ASSUME TypeOK, TaskInv, MemoryInv, [Next]_vars
    PROVE  MemoryInv'
<1>. SUFFICES ASSUME known', ~wasFull', total' <= MAX_IN_MEMORY_LINES
              PROVE  \/ Cleared' /\ total' = 0
                     \/ Len(Logged') = total' /\ (Cleared' \/ logs' = Logged')
    BY DEF MemoryInv
<1>1. CASE Restart
    BY <1>1, OneWay DEF Cleared
<1>2. CASE ~Restart
  <2>1. PICK lines \in Seq(Line) : Extends(lines)
    BY <1>2, LogStep
  <2>2. known /\ ~wasFull /\ (monitor = "none" => monitor' = "none")
    BY <1>2, OneWay
  <2>3. ~full /\ (monitor = "final" => unflushed = <<>>)
    BY <2>2 DEF TaskInv
  <2>4. /\ Logged' = Logged \o lines
        /\ monitor = "none" /\ unflushed = <<>> => unflushed' = <<>>
        /\ PushLog(lines) \/ Cleared'
        /\ monitor = "none" => lines = <<>>
        /\ PushLog(lines) \/ total' = total + Len(lines)
    BY <2>1, <2>3 DEF Extends, FromTask, Reading
  <2>5. /\ Logged \in Seq(Line) /\ logs \in Seq(Line) /\ total \in Nat
        /\ Len(logs) <= MAX_IN_MEMORY_LINES /\ MAX_IN_MEMORY_LINES \in Nat
    BY LoggedParts, EmptySeq, BoundAssumption DEF TypeOK
  <2>6. /\ Len(Logged') = Len(Logged) + Len(lines) /\ Len(lines) \in Nat
        /\ Len(logs \o lines) = Len(logs) + Len(lines) /\ Len(Logged) \in Nat
    BY <2>4, <2>5, ConcatProperties, LenProperties
  <2>7. total' = total + Len(lines) /\ total <= MAX_IN_MEMORY_LINES
    <3>1. total' = total + Len(lines)
      BY <2>2, <2>4, PushLogLines
    <3>. QED  BY <2>5, <2>6, <3>1
  <2>8. \/ Cleared /\ total = 0
        \/ Len(Logged) = total /\ (Cleared \/ logs = Logged)
    BY <2>2, <2>7 DEF MemoryInv
  <2>9. ASSUME Cleared
        PROVE  Cleared' /\ total' = total /\ Logged' = Logged
    <3>1. lines = <<>> /\ logs = <<>> /\ Len(lines) = 0
      BY <2>4, <2>9 DEF Cleared
    <3>2. Logged' = Logged /\ logs \o lines = <<>>
      BY <2>4, <2>5, <3>1, ConcatEmptySeq
    <3>3. PushLog(lines) => logs' = <<>>
      BY <2>1, <2>2, <2>5, <2>6, <3>1, <3>2, PushLogLines, EmptySeq
    <3>4. total' = total
      BY <2>5, <2>7, <3>1
    <3>. QED  BY <2>2, <2>4, <2>9, <3>2, <3>3, <3>4 DEF Cleared
  <2>10. ASSUME Len(Logged) = total, logs = Logged
         PROVE  Len(Logged') = total' /\ (Cleared' \/ logs' = Logged')
    <3>1. Len(Logged') = total'
      BY <2>6, <2>7, <2>10
    <3>2. PushLog(lines) => logs' = logs \o lines
      BY <2>1, <2>2, <2>6, <2>7, <2>10, PushLogLines
    <3>. QED  BY <2>4, <2>10, <3>1, <3>2
  <2>. QED  BY <2>8, <2>9, <2>10
<1>. QED  BY <1>1, <1>2

(* A client that is served has received the beginning of the log; one that *)
(* was told "done" has received all of it.                                 *)
HasAll(s) == \A i \in DOMAIN Logged : \E k \in DOMAIN s : s[k] = Logged[i]

ClientInv(c) ==
    /\ stream[c] = "done" => ~known \/ Terminal
    /\ stream[c] \in {"top", "check"} => sent_index[c] <= total
    /\ known /\ ~wasFull /\ total <= MAX_IN_MEMORY_LINES =>
          /\ stream[c] \in {"top", "check"} =>
                /\ Len(got[c]) = sent_index[c] /\ sent_index[c] <= Len(Logged)
                /\ \A i \in 1..sent_index[c] : got[c][i] = Logged[i]
          /\ stream[c] = "done" => HasAll(got[c])

(* A step is a restart, one of a client, or leaves all clients alone.      *)
LEMMA ClientSteps ==
    ASSUME TypeOK, [Next]_vars
    PROVE  \/ Restart \/ UNCHANGED streamVars
           \/ \E c \in Clients : Connect(c) \/ Disconnect(c) \/ Stream(c)
    BY DEF Next, Task, Sync, vars, WrapperWrites, WrapperEnds, WrapperKilled,
       MonitorReads, MonitorLogs, MonitorLogsLast, MonitorRaises, Collect, SaveReturns, FinalSync,
       CancelDelivered, SyncAsks, SyncFlushes, SyncRecovers, Cancel, Delete, DiskFills

(* How many lines were logged does not decrease but in a restart.          *)
LEMMA TotalGrows ==
    ASSUME TypeOK, TaskInv, [Next]_vars, ~Restart
    PROVE  total <= total'
<1>1. PICK lines \in Seq(Line) : Extends(lines)
    BY LogStep
<1>2. Len(lines) \in Nat /\ total \in Nat
    BY LenProperties DEF TypeOK
<1>3. total' = total + Len(lines) \/ total' = total
    BY <1>1 DEF Extends, PushLog
<1>. QED  BY <1>2, <1>3

(* The lines that are sent next go on where those before them ended, and   *)
(* are all that is left.                                                   *)
LEMMA SentNext ==
    ASSUME TypeOK, MemoryInv, NEW c \in Clients, ClientInv(c),
           stream[c] \in {"top", "check"},
           known, ~wasFull, total <= MAX_IN_MEMORY_LINES,
           NEW new, new = GetLogs(sent_index[c]), NEW u, u = got[c] \o new.lines
    PROVE  /\ new.lines # <<>> =>
                /\ Len(u) = new.next /\ new.next <= Len(Logged)
                /\ \A i \in 1..new.next : u[i] = Logged[i]
           /\ HasAll(u) \/ (Cleared /\ new.lines = <<>>)
<1>1. /\ sent_index[c] \in Nat /\ got[c] \in Seq(Line) /\ logs \in Seq(Line) /\ total \in Nat
      /\ Logged \in Seq(Line)
    BY LoggedParts, EmptySeq DEF TypeOK
<1>2. /\ sent_index[c] <= total
      /\ Len(got[c]) = sent_index[c] /\ sent_index[c] <= Len(Logged)
      /\ \A i \in 1..sent_index[c] : got[c][i] = Logged[i]
    BY DEF ClientInv
<1>3. /\ new.lines \in Seq(Line) /\ new.next = total
      /\ \E start \in 0..Len(logs) :
           /\ start = IF sent_index[c] < total - Len(logs) THEN 0
                      ELSE sent_index[c] - (total - Len(logs))
           /\ Len(new.lines) = Len(logs) - start
           /\ \A i \in 1..(Len(logs) - start) : new.lines[i] = logs[start + i]
    BY <1>1, <1>2, GetLogsTypes, GetLogsLines
<1>4. CASE logs = <<>>
  <2>1. Len(logs) = 0 /\ Len(new.lines) = 0
    BY <1>3, <1>4
  <2>2. new.lines = <<>>
    BY <1>3, <2>1, EmptySeq
  <2>3. CASE Cleared
    BY <2>2, <2>3
  <2>4. CASE ~Cleared
    <3>1. DOMAIN Logged = {}
      BY <1>4, <2>4 DEF MemoryInv
    <3>. QED  BY <2>2, <3>1 DEF HasAll
  <2>. QED  BY <2>3, <2>4
<1>5. CASE logs # <<>>
  <2>1. Len(Logged) = total /\ logs = Logged
    BY <1>5 DEF MemoryInv, Cleared
  <2>. DEFINE n == sent_index[c]
              g == got[c]
              t == new.lines
  <2>2. /\ n \in Nat /\ n <= total /\ total \in Nat /\ g \in Seq(Line) /\ t \in Seq(Line)
        /\ u = g \o t /\ Len(g) = n /\ \A i \in 1..n : g[i] = Logged[i]
    BY <1>1, <1>2, <1>3
  <2>3. Len(t) = total - n /\ \A i \in 1..(total - n) : t[i] = Logged[n + i]
    BY <1>1, <1>2, <1>3, <2>1
  <2>n. new.next = total
    BY <1>3
  <2>. HIDE DEF n, g, t
  <2>4. /\ u \in Seq(Line) /\ Len(u) = total
        /\ \A i \in 1..n : u[i] = g[i]
        /\ \A i \in (n + 1)..total : u[i] = t[i - n] /\ i - n \in 1..(total - n)
    <3>1. /\ u \in Seq(Line) /\ Len(u) = Len(g) + Len(t)
          /\ \A i \in 1..Len(g) : u[i] = g[i]
          /\ \A i \in (Len(g) + 1)..Len(u) : u[i] = t[i - Len(g)] /\ i - Len(g) \in 1..Len(t)
      <4>1. g \in Seq(Line) /\ t \in Seq(Line) /\ u = g \o t
        BY <2>2
      <4>. QED  BY <4>1, Appended
    <3>2. Len(g) + Len(t) = total
      BY <2>2, <2>3
    <3>. QED  BY <2>2, <2>3, <3>1, <3>2
  <2>5. \A i \in 1..total : u[i] = Logged[i]
    <3>. SUFFICES ASSUME NEW i \in 1..total PROVE u[i] = Logged[i]
      OBVIOUS
    <3>1. CASE i <= n
      BY <2>2, <2>4, <3>1
    <3>2. CASE i > n
      <4>1. i \in (n + 1)..total /\ n + (i - n) = i
        BY <2>2, <3>2
      <4>2. u[i] = t[i - n] /\ i - n \in 1..(total - n)
        BY <2>4, <4>1
      <4>3. t[i - n] = Logged[n + (i - n)]
        BY <2>3, <4>2
      <4>. QED  BY <4>1, <4>2, <4>3
    <3>3. i <= n \/ i > n
      <4>1. n \in Nat /\ total \in Nat
        BY <2>2
      <4>. QED  BY <4>1
    <3>. QED  BY <3>1, <3>2, <3>3, Zenon
  <2>6. HasAll(u)
    <3>1. DOMAIN Logged = 1..total /\ DOMAIN u = 1..total
      BY <1>1, <2>1, <2>4, LenProperties
    <3>. QED  BY <2>5, <3>1 DEF HasAll
  <2>. QED  BY <2>1, <2>2, <2>n, <2>4, <2>5, <2>6
<1>. QED  BY <1>4, <1>5

(* Whoever has all keeps it when more is sent.                             *)
LEMMA HasAllAppended ==
    ASSUME NEW s \in Seq(Line), NEW t \in Seq(Line), HasAll(s) \/ HasAll(t)
    PROVE  HasAll(s \o t)
<1>. DEFINE u == s \o t
<1>1. /\ DOMAIN u = 1..Len(u) /\ DOMAIN s = 1..Len(s) /\ DOMAIN t = 1..Len(t)
      /\ Len(u) = Len(s) + Len(t) /\ Len(s) \in Nat /\ Len(t) \in Nat
      /\ \A i \in 1..Len(s) : u[i] = s[i]
      /\ \A i \in (Len(s) + 1)..Len(u) : u[i] = t[i - Len(s)]
    BY Appended
<1>. HIDE DEF u
<1>2. \A k \in DOMAIN s : k \in DOMAIN u /\ u[k] = s[k]
    BY <1>1
<1>3. \A k \in DOMAIN t : Len(s) + k \in DOMAIN u /\ u[Len(s) + k] = t[k]
  <2>. SUFFICES ASSUME NEW k \in 1..Len(t)
                PROVE  Len(s) + k \in 1..Len(u) /\ u[Len(s) + k] = t[k]
    BY <1>1
  <2>1. Len(s) + k \in (Len(s) + 1)..Len(u) /\ (Len(s) + k) - Len(s) = k /\ Len(s) + k \in 1..Len(u)
    BY <1>1
  <2>. QED  BY <1>1, <2>1
<1>. QED  BY <1>2, <1>3 DEF HasAll, u

(* A stream ends with all that is left, in memory or on disk.              *)
LEMMA SentLast ==
    ASSUME TypeOK, MemoryInv, NEW c \in Clients, ClientInv(c),
           stream[c] \in {"top", "check"},
           known, ~wasFull, total <= MAX_IN_MEMORY_LINES
    PROVE  HasAll(got[c] \o GetLogsWithDiskFallback(sent_index[c]).lines)
<1>. DEFINE new == GetLogs(sent_index[c])
<1>1. /\ sent_index[c] \in Nat /\ got[c] \in Seq(Line)
      /\ output \in Seq(Line) /\ unflushed \in Seq(Line)
    BY DEF TypeOK
<1>2. new.lines \in Seq(Line)
    BY <1>1, GetLogsTypes
<1>3. HasAll(got[c] \o new.lines) \/ (Cleared /\ new.lines = <<>>)
    BY SentNext
<1>4. GetLogsWithDiskFallback(sent_index[c]).lines =
         IF new.lines = <<>> /\ output # <<>> THEN output ELSE new.lines
    BY DEF GetLogsWithDiskFallback
<1>. HIDE DEF new
<1>5. CASE new.lines = <<>> /\ output # <<>>
  <2>1. got[c] \o new.lines = got[c]
    BY <1>1, <1>5, ConcatEmptySeq
  <2>2. Cleared => HasAll(output)
    <3>1. Cleared => Logged = output
      BY <1>1, ConcatEmptySeq DEF Cleared, Logged
    <3>. QED  BY <3>1 DEF HasAll
  <2>3. HasAll(got[c]) \/ HasAll(output)
    BY <1>3, <2>1, <2>2
  <2>. QED  BY <1>1, <1>4, <1>5, <2>3, HasAllAppended
<1>6. CASE ~(new.lines = <<>> /\ output # <<>>)
  <2>1. Cleared /\ new.lines = <<>> => HasAll(got[c] \o new.lines)
    <3>1. Cleared /\ new.lines = <<>> => Logged = <<>>
      BY <1>1, <1>6, ConcatEmptySeq DEF Cleared, Logged
    <3>. QED  BY <3>1 DEF HasAll
  <2>. QED  BY <1>3, <1>4, <1>6, <2>1
<1>. QED  BY <1>5, <1>6

(* No line is logged for a job that is over, as long as DATA_DIR takes     *)
(* writes.                                                                 *)
LEMMA NothingMore ==
    ASSUME TypeOK, TaskInv, known, ~wasFull, Terminal, NEW lines, FromTask(lines)
    PROVE  lines = <<>>
    BY DEF TaskInv, FromTask

(* Invariance for a client that the step does not serve.                   *)
LEMMA OtherClients ==
    ASSUME TypeOK, TaskInv, MemoryInv, [Next]_vars, NEW c \in Clients, ClientInv(c),
           UNCHANGED <<stream[c], sent_index[c], got[c]>>, ~Restart
    PROVE  ClientInv(c)'
<1>1. PICK lines \in Seq(Line) : Extends(lines)
    BY LogStep
<1>2. /\ wasFull => wasFull'
      /\ known' => known
      /\ known /\ Terminal /\ known' => Terminal'
    BY OneWay
<1>3. /\ total \in Nat /\ total' \in Nat /\ total <= total' /\ sent_index[c] \in Nat
      /\ MAX_IN_MEMORY_LINES \in Nat
    BY TypeStep, TotalGrows, BoundAssumption DEF TypeOK
<1>4. stream'[c] = "done" => ~known' \/ Terminal'
    BY <1>2 DEF ClientInv
<1>5. stream'[c] \in {"top", "check"} => sent_index'[c] <= total'
    BY <1>3 DEF ClientInv
<1>6. ASSUME known', ~wasFull', total' <= MAX_IN_MEMORY_LINES
      PROVE  /\ stream'[c] \in {"top", "check"} =>
                   /\ Len(got'[c]) = sent_index'[c] /\ sent_index'[c] <= Len(Logged')
                   /\ \A i \in 1..sent_index'[c] : got'[c][i] = Logged'[i]
             /\ stream'[c] = "done" => HasAll(got[c])'
  <2>1. known /\ ~wasFull /\ total <= MAX_IN_MEMORY_LINES
    BY <1>2, <1>3, <1>6
  <2>2. ~full /\ (monitor = "final" => unflushed = <<>>)
    BY <2>1 DEF TaskInv
  <2>3. Logged' = Logged \o lines /\ FromTask(lines)
    BY <1>1, <1>6, <2>2 DEF Extends
  <2>4. Logged \in Seq(Line)
    BY LoggedParts, EmptySeq
  <2>5. /\ Len(Logged') = Len(Logged) + Len(lines) /\ Len(Logged) \in Nat /\ Len(lines) \in Nat
        /\ \A i \in 1..Len(Logged) : Logged'[i] = Logged[i]
    BY <2>3, <2>4, Appended
  <2>6. CASE stream[c] \in {"top", "check"}
    <3>1. /\ Len(got[c]) = sent_index[c] /\ sent_index[c] <= Len(Logged)
          /\ \A i \in 1..sent_index[c] : got[c][i] = Logged[i]
      BY <2>1, <2>6 DEF ClientInv
    <3>2. sent_index[c] <= Len(Logged')
      BY <1>3, <2>5, <3>1
    <3>3. \A i \in 1..sent_index[c] : got[c][i] = Logged'[i]
      BY <1>3, <2>5, <3>1
    <3>. QED  BY <2>6, <3>1, <3>2, <3>3
  <2>7. CASE stream[c] = "done"
    <3>1. lines = <<>>
      BY <2>1, <2>3, <2>7, NothingMore DEF ClientInv
    <3>2. Logged' = Logged
      BY <2>3, <2>4, <3>1, ConcatEmptySeq
    <3>. QED  BY <2>1, <2>7, <3>2 DEF ClientInv, HasAll
  <2>. QED  BY <2>6, <2>7
<1>. QED  BY <1>4, <1>5, <1>6 DEF ClientInv

(* Invariance for the client that it does serve.                           *)
LEMMA ServedClient ==
    ASSUME TypeOK, MemoryInv, NEW c \in Clients, ClientInv(c),
           Connect(c) \/ Disconnect(c) \/ Stream(c)
    PROVE  ClientInv(c)'
<1>1. /\ sent_index[c] \in Nat /\ got[c] \in Seq(Line) /\ total \in Nat
      /\ stream \in [Clients -> {"off", "top", "check", "done"}]
      /\ sent_index \in [Clients -> Nat] /\ got \in [Clients -> Seq(Line)]
      /\ Logged \in Seq(Line)
    BY LoggedParts, EmptySeq DEF TypeOK
<1>2. ASSUME NEW pc, NEW index, NEW lines, Serve(c, pc, index, lines)
      PROVE  /\ stream'[c] = pc /\ sent_index'[c] = index /\ got'[c] = lines
             /\ UNCHANGED <<known, status, wasFull, total>>
             /\ Logged' = Logged
    BY <1>1, <1>2 DEF Serve, recordVars, bufferVars, worldVars, Logged
<1>3. CASE Connect(c)
  <2>1. /\ stream'[c] = "top" /\ sent_index'[c] = 0 /\ got'[c] = <<>>
        /\ UNCHANGED <<known, status, wasFull, total>> /\ Logged' = Logged
    BY <1>2, <1>3 DEF Connect
  <2>2. 0 <= Len(Logged) /\ Len(<<>>) = 0
    BY <1>1, LenProperties, EmptySeq
  <2>. QED  BY <1>1, <2>1, <2>2 DEF ClientInv
<1>4. CASE Disconnect(c)
  <2>1. stream'[c] = "off"
    BY <1>2, <1>4 DEF Disconnect
  <2>. QED  BY <2>1 DEF ClientInv
<1>. DEFINE new   == GetLogs(sent_index[c])
            final == GetLogsWithDiskFallback(sent_index[c])
<1>5. ASSUME FinishStream(c), stream[c] \in {"top", "check"}
      PROVE  ClientInv(c)'
  <2>1. CASE ~known \/ Terminal
    <3>1. /\ stream'[c] = "done" /\ got'[c] = got[c] \o final.lines
          /\ UNCHANGED <<known, status, wasFull, total>> /\ Logged' = Logged
      <4>. HIDE DEF final
      <4>1. Serve(c, "done", final.next, got[c] \o final.lines)
        BY <1>5, <2>1 DEF FinishStream, final
      <4>. QED  BY <1>2, <4>1
    <3>2. known /\ ~wasFull /\ total <= MAX_IN_MEMORY_LINES => HasAll(got[c] \o final.lines)
      BY <1>5, SentLast
    <3>. HIDE DEF final
    <3>3. ~known' \/ Terminal'
      BY <2>1, <3>1 DEF Terminal
    <3>4. known' /\ ~wasFull' /\ total' <= MAX_IN_MEMORY_LINES => HasAll(got[c])'
      BY <3>1, <3>2 DEF HasAll
    <3>. QED  BY <3>1, <3>3, <3>4 DEF ClientInv
  <2>2. CASE ~(~known \/ Terminal)
    <3>1. /\ stream'[c] = "top" /\ sent_index'[c] = sent_index[c] /\ got'[c] = got[c]
          /\ UNCHANGED <<known, status, wasFull, total>> /\ Logged' = Logged
      <4>1. Serve(c, "top", sent_index[c], got[c])
        BY <1>5, <2>2 DEF FinishStream
      <4>. QED  BY <1>2, <4>1
    <3>. QED  BY <1>5, <3>1 DEF ClientInv
  <2>. QED  BY <2>1, <2>2
<1>6. ASSUME stream[c] = "top", new.lines # <<>>,
             Serve(c, "check", new.next, got[c] \o new.lines)
      PROVE  ClientInv(c)'
  <2>1. known
    BY <1>6 DEF GetLogs
  <2>2. /\ stream'[c] = "check" /\ sent_index'[c] = new.next /\ got'[c] = got[c] \o new.lines
        /\ UNCHANGED <<known, status, wasFull, total>> /\ Logged' = Logged
    <3>. HIDE DEF new
    <3>. QED  BY <1>2, <1>6
  <2>3. new.next <= total
    BY <1>1, <1>6, GetLogsTypes DEF ClientInv
  <2>4. ~wasFull /\ total <= MAX_IN_MEMORY_LINES =>
           /\ Len(got[c] \o new.lines) = new.next /\ new.next <= Len(Logged)
           /\ \A i \in 1..new.next : (got[c] \o new.lines)[i] = Logged[i]
    BY <1>6, <2>1, SentNext
  <2>. HIDE DEF new
  <2>. QED  BY <2>2, <2>3, <2>4 DEF ClientInv
<1>7. CASE Stream(c)
    BY <1>5, <1>6, <1>7 DEF Stream, StreamPolls, StreamChecks
<1>. QED  BY <1>3, <1>4, <1>7

(* Every action keeps ClientInv, of every client.                          *)
LEMMA ClientStep ==
    ASSUME TypeOK, TaskInv, MemoryInv, [Next]_vars, NEW c \in Clients, ClientInv(c)
    PROVE  ClientInv(c)'
<1>1. CASE Restart
  <2>1. stream'[c] = "off"
    BY <1>1, OneWay
  <2>. QED  BY <2>1 DEF ClientInv
<1>2. CASE ~Restart /\ UNCHANGED streamVars
    BY <1>2, OtherClients DEF streamVars
<1>3. ASSUME ~Restart, NEW d \in Clients, Connect(d) \/ Disconnect(d) \/ Stream(d)
      PROVE  ClientInv(c)'
  <2>1. CASE c = d
    BY <1>3, <2>1, ServedClient
  <2>2. CASE c # d
    <3>1. PICK pc \in {"off", "top", "check", "done"}, index \in Nat, lines \in Seq(Line) :
             Serve(d, pc, index, lines)
      BY <1>3, StreamEffect
    <3>2. UNCHANGED <<stream[c], sent_index[c], got[c]>>
      BY <2>2, <3>1 DEF Serve, TypeOK
    <3>. QED  BY <1>3, <3>2, OtherClients
  <2>. QED  BY <2>1, <2>2
<1>. QED  BY <1>1, <1>2, <1>3, ClientSteps

(* MemoryInv and ClientInv hold in every reachable state.                  *)
LEMMA ClientInvariant ==
    Spec => [](TypeOK /\ TaskInv /\ MemoryInv /\ \A c \in Clients : ClientInv(c))
<1>1. Init => MemoryInv /\ \A c \in Clients : ClientInv(c)
  <2>. SUFFICES ASSUME Init PROVE MemoryInv /\ \A c \in Clients : ClientInv(c)
    OBVIOUS
  <2>1. Logged = <<>> /\ logs = <<>> /\ total = 0 /\ Len(<<>>) = 0
    BY EmptySeq DEF Init, Logged
  <2>2. MemoryInv
    BY <2>1 DEF MemoryInv
  <2>3. \A c \in Clients : stream[c] = "off"
    BY DEF Init
  <2>. QED  BY <2>2, <2>3 DEF ClientInv
<1>2. TypeOK /\ TaskInv /\ MemoryInv /\ (\A c \in Clients : ClientInv(c)) /\ [Next]_vars
         => MemoryInv' /\ (\A c \in Clients : ClientInv(c))'
    BY MemoryStep, ClientStep
<1>. QED  BY <1>1, <1>2, TaskInvariant, PTL DEF Spec

(* A client that is told "done" has received all the log has.              *)
THEOREM DoneIsComplete == Spec => []DoneMeansAll
<1>1. (\A c \in Clients : ClientInv(c)) => DoneMeansAll
    BY DEF ClientInv, HasAll, DoneMeansAll
<1>. QED  BY <1>1, ClientInvariant, PTL

-----------------------------------------------------------------------------
(* The order in which clients receive lines.                               *)

(* A client that is served has received no line that ends after one that   *)
(* it is still to be sent begins.                                          *)
OrderInv ==
    /\ Ascending(logs)
    /\ \A i \in DOMAIN logs : logs[i].to <= offset
    /\ \A c \in Clients :
          stream[c] \in {"top", "check"} =>
              /\ sent_index[c] <= total
              /\ Ascending(got[c])
              /\ \A i \in DOMAIN got[c] :
                    /\ got[c][i].to <= offset
                    /\ \A k \in DOMAIN logs :
                          total - Len(logs) + k > sent_index[c] /\ logs[k] # ErrorLine =>
                              got[c][i].to <= logs[k].from

(* Where lines begin and end are numbers.                                  *)
LEMMA LineNumbers == \A l \in Line : l.from \in Nat /\ l.to \in Nat
    BY BoundAssumption DEF Line

(* What goes on where all before it has ended is in order.                 *)
LEMMA AscendingAppended ==
    ASSUME NEW s \in Seq(Line), NEW t \in Seq(Line), Ascending(s), Ascending(t),
           \A i \in DOMAIN s, k \in DOMAIN t : t[k] # ErrorLine => s[i].to <= t[k].from
    PROVE  Ascending(s \o t)
<1>. DEFINE u == s \o t
<1>1. /\ DOMAIN u = 1..Len(u) /\ DOMAIN s = 1..Len(s) /\ DOMAIN t = 1..Len(t)
      /\ Len(u) = Len(s) + Len(t) /\ Len(s) \in Nat /\ Len(t) \in Nat
      /\ \A i \in 1..Len(s) : u[i] = s[i]
      /\ \A i \in (Len(s) + 1)..Len(u) : u[i] = t[i - Len(s)] /\ i - Len(s) \in 1..Len(t)
    BY Appended
<1>. HIDE DEF u
<1>. SUFFICES ASSUME NEW i \in 1..Len(u), NEW k \in 1..Len(u), i < k, u[k] # ErrorLine
              PROVE  u[i].to <= u[k].from
    BY <1>1 DEF Ascending, u
<1>2. CASE k <= Len(s)
  <2>1. i \in DOMAIN s /\ k \in DOMAIN s /\ u[i] = s[i] /\ u[k] = s[k]
    BY <1>1, <1>2
  <2>. QED  BY <2>1 DEF Ascending
<1>3. CASE i <= Len(s) /\ k > Len(s)
  <2>1. i \in DOMAIN s /\ k - Len(s) \in DOMAIN t /\ u[i] = s[i] /\ u[k] = t[k - Len(s)]
    BY <1>1, <1>3
  <2>. QED  BY <2>1
<1>4. CASE i > Len(s)
  <2>1. /\ i - Len(s) \in DOMAIN t /\ k - Len(s) \in DOMAIN t /\ i - Len(s) < k - Len(s)
        /\ u[i] = t[i - Len(s)] /\ u[k] = t[k - Len(s)]
    BY <1>1, <1>4
  <2>. QED  BY <2>1 DEF Ascending
<1>5. k <= Len(s) \/ (i <= Len(s) /\ k > Len(s)) \/ i > Len(s)
    BY <1>1
<1>. QED  BY <1>2, <1>3, <1>4, <1>5

(* What is logged is in order, and after what was logged before.           *)
LEMMA NewLinesAscend ==
    ASSUME TypeOK, NEW lines \in Seq(Line), FromTask(lines)
    PROVE  /\ Ascending(lines) /\ offset <= offset' /\ offset \in Nat /\ offset' \in Nat
           /\ \A k \in DOMAIN lines :
                 lines[k].to <= offset' /\ (lines[k] # ErrorLine => offset <= lines[k].from)
<1>0. /\ offset \in 0..MaxUnits /\ upto \in offset..MaxUnits
      /\ offset \in Nat /\ upto \in Nat /\ offset <= upto
    BY TypeParts, BoundAssumption DEF PlacesOK
<1>1. CASE lines = <<>> /\ offset' = offset
  <2>1. DOMAIN lines = {}
    BY <1>1
  <2>. QED  BY <1>0, <1>1, <2>1 DEF Ascending
<1>2. CASE lines = Splitlines(offset, upto) /\ offset' = upto
  <2>1. /\ DOMAIN lines = 1..Len(lines)
        /\ \A i \in 1..Len(lines) :
              offset <= lines[i].from /\ lines[i].from < lines[i].to /\ lines[i].to <= upto
        /\ \A i, k \in 1..Len(lines) : i < k => lines[i].to <= lines[k].from
    BY <1>0, <1>2, SplitlinesPieces, LenProperties
  <2>. QED  BY <1>0, <1>2, <2>1 DEF Ascending
<1>3. CASE lines = <<ErrorLine>> /\ offset' = offset
  <2>1. DOMAIN lines = {1} /\ lines[1] = ErrorLine /\ ErrorLine.to = 0
    BY <1>3 DEF ErrorLine
  <2>. QED  BY <1>0, <1>3, <2>1 DEF Ascending
<1>. QED  BY <1>1, <1>2, <1>3 DEF FromTask

(* Memory after a step: the end of what it was and of what was logged.     *)
LEMMA MemoryAfter ==
    ASSUME TypeOK, NEW lines \in Seq(Line), Extends(lines)
    PROVE  /\ logs' \in Seq(Line) => DOMAIN logs' = 1..Len(logs')
           /\ \/ logs' = <<>>
              \/ ~known /\ UNCHANGED <<logs, total>>
              \/ \E cut \in Nat :
                   /\ total' = total + Len(lines)
                   /\ Len(logs') = Len(logs) + Len(lines) - cut
                   /\ \A i \in 1..Len(logs') : logs'[i] = (logs \o lines)[cut + i]
<1>1. logs' \in Seq(Line) => DOMAIN logs' = 1..Len(logs')
    BY LenProperties
<1>2. CASE known /\ PushLog(lines)
    BY <1>1, <1>2, PushLogLines
<1>3. CASE ~known /\ PushLog(lines)
    BY <1>1, <1>3 DEF PushLog
<1>4. CASE logs' = <<>>
    BY <1>1, <1>4
<1>. QED  BY <1>2, <1>3, <1>4 DEF Extends

(* Lines that are logged, and a client that is not served.                 *)
LEMMA OrderLogged ==
    ASSUME TypeOK, TaskInv, OrderInv, [Next]_vars, ~Restart
    PROVE  /\ Ascending(logs')
           /\ \A i \in DOMAIN logs' : logs'[i].to <= offset'
           /\ \A c \in Clients :
                 stream[c] \in {"top", "check"} =>
                    /\ sent_index[c] <= total'
                    /\ \A i \in DOMAIN got[c] :
                          /\ got[c][i].to <= offset'
                          /\ \A k \in DOMAIN logs' :
                                total' - Len(logs') + k > sent_index[c] /\ logs'[k] # ErrorLine =>
                                    got[c][i].to <= logs'[k].from
<1>1. PICK lines \in Seq(Line) : Extends(lines)
    BY LogStep
<1>2. /\ Ascending(lines) /\ offset <= offset' /\ offset \in Nat /\ offset' \in Nat
      /\ \A k \in DOMAIN lines :
            lines[k].to <= offset' /\ (lines[k] # ErrorLine => offset <= lines[k].from)
    BY <1>1, NewLinesAscend DEF Extends
<1>3. /\ logs \in Seq(Line) /\ logs' \in Seq(Line) /\ total \in Nat /\ total' \in Nat
      /\ total <= total'
      /\ sent_index \in [Clients -> Nat] /\ got \in [Clients -> Seq(Line)]
    BY TypeStep, TotalGrows DEF TypeOK
<1>4. /\ DOMAIN logs = 1..Len(logs) /\ Len(logs) \in Nat
      /\ DOMAIN logs' = 1..Len(logs') /\ Len(logs') \in Nat
      /\ \A i \in DOMAIN logs : logs[i].to \in Nat /\ logs[i].from \in Nat
      /\ \A i \in DOMAIN lines : lines[i].to \in Nat /\ lines[i].from \in Nat
    BY <1>3, LenProperties, ElementOfSeq, LineNumbers
<1>. DEFINE all == logs \o lines
            base == total - Len(logs)
<1>5. /\ all \in Seq(Line) /\ DOMAIN all = 1..Len(all) /\ Len(all) = Len(logs) + Len(lines)
      /\ DOMAIN lines = 1..Len(lines) /\ Len(lines) \in Nat
      /\ \A i \in 1..Len(logs) : all[i] = logs[i]
      /\ \A i \in (Len(logs) + 1)..Len(all) :
            all[i] = lines[i - Len(logs)] /\ i - Len(logs) \in 1..Len(lines)
    BY <1>3, Appended
<1>6. Ascending(all)
  <2>1. \A i \in DOMAIN logs, k \in DOMAIN lines :
           lines[k] # ErrorLine => logs[i].to <= lines[k].from
    BY <1>2, <1>4 DEF OrderInv
  <2>. QED  BY <1>2, <1>3, <2>1, AscendingAppended DEF OrderInv
<1>. HIDE DEF all
<1>7. \A i \in 1..Len(all) : all[i].to <= offset'
  <2>. SUFFICES ASSUME NEW i \in 1..Len(all) PROVE all[i].to <= offset'
    OBVIOUS
  <2>1. CASE i <= Len(logs)
    <3>1. i \in DOMAIN logs /\ all[i] = logs[i]
      BY <1>4, <1>5, <2>1
    <3>. QED  BY <1>2, <1>4, <3>1 DEF OrderInv
  <2>2. CASE i > Len(logs)
    <3>1. all[i] = lines[i - Len(logs)] /\ i - Len(logs) \in DOMAIN lines
      BY <1>4, <1>5, <2>2
    <3>. QED  BY <1>2, <3>1
  <2>. QED  BY <1>4, <2>1, <2>2
<1>8. ASSUME NEW c \in Clients, stream[c] \in {"top", "check"}
      PROVE  /\ sent_index[c] <= total'
             /\ \A i \in DOMAIN got[c] :
                   /\ got[c][i].to <= offset'
                   /\ \A k \in 1..Len(all) :
                         base + k > sent_index[c] /\ all[k] # ErrorLine =>
                             got[c][i].to <= all[k].from
  <2>1. sent_index[c] <= total'
    BY <1>3, <1>8 DEF OrderInv
  <2>2. ASSUME NEW i \in DOMAIN got[c]
        PROVE  got[c][i].to <= offset /\ got[c][i].to \in Nat
    <3>1. got[c] \in Seq(Line) /\ DOMAIN got[c] = 1..Len(got[c])
      BY <1>3, LenProperties
    <3>2. got[c][i] \in Line
      BY <3>1, ElementOfSeq
    <3>. QED  BY <1>8, <3>2, LineNumbers DEF OrderInv
  <2>3. ASSUME NEW i \in DOMAIN got[c], NEW k \in 1..Len(all),
               base + k > sent_index[c], all[k] # ErrorLine
        PROVE  got[c][i].to <= all[k].from
    <3>1. CASE k <= Len(logs)
      <4>1. k \in DOMAIN logs /\ all[k] = logs[k]
        BY <1>4, <1>5, <3>1
      <4>. QED  BY <1>8, <2>3, <4>1 DEF OrderInv
    <3>2. CASE k > Len(logs)
      <4>1. all[k] = lines[k - Len(logs)] /\ k - Len(logs) \in DOMAIN lines
        BY <1>4, <1>5, <3>2
      <4>2. offset <= all[k].from /\ all[k].from \in Nat
        BY <1>2, <1>4, <2>3, <4>1
      <4>. QED  BY <1>2, <2>2, <4>2
    <3>. QED  BY <1>4, <3>1, <3>2
  <2>. QED  BY <1>2, <2>1, <2>2, <2>3
<1>9. CASE logs' = <<>>
  <2>1. DOMAIN logs' = {}
    BY <1>9
  <2>. QED  BY <1>8, <2>1 DEF Ascending
<1>10. CASE ~known /\ UNCHANGED <<logs, total>>
  <2>1. \A k \in DOMAIN logs : k \in 1..Len(all) /\ all[k] = logs[k]
    BY <1>4, <1>5
  <2>. QED  BY <1>7, <1>8, <1>10, <2>1 DEF OrderInv
<1>11. ASSUME NEW cut \in Nat, total' = total + Len(lines),
              Len(logs') = Len(logs) + Len(lines) - cut,
              \A i \in 1..Len(logs') : logs'[i] = (logs \o lines)[cut + i]
       PROVE  /\ Ascending(logs')
              /\ \A i \in DOMAIN logs' : logs'[i].to <= offset'
              /\ \A c \in Clients :
                    stream[c] \in {"top", "check"} =>
                       \A i \in DOMAIN got[c], k \in DOMAIN logs' :
                             total' - Len(logs') + k > sent_index[c] /\ logs'[k] # ErrorLine =>
                                 got[c][i].to <= logs'[k].from
  <2>1. \A i \in DOMAIN logs' : /\ cut + i \in 1..Len(all) /\ logs'[i] = all[cut + i]
                                /\ total' - Len(logs') + i = base + (cut + i)
    <3>. SUFFICES ASSUME NEW i \in 1..Len(logs')
                  PROVE  /\ cut + i \in 1..Len(all) /\ logs'[i] = all[cut + i]
                         /\ total' - Len(logs') + i = base + (cut + i)
      BY <1>4
    <3>1. logs'[i] = all[cut + i]
      BY <1>11 DEF all
    <3>2. /\ Len(logs) \in Nat /\ Len(lines) \in Nat /\ Len(logs') \in Nat /\ total \in Nat
          /\ Len(all) = Len(logs) + Len(lines)
      BY <1>3, <1>4, <1>5
    <3>3. cut + i \in 1..Len(all)
      BY <1>11, <3>2
    <3>4. total' - Len(logs') + i = base + (cut + i)
      BY <1>11, <3>2
    <3>. QED  BY <3>1, <3>3, <3>4
  <2>2. \A i, k \in DOMAIN logs' : i < k => cut + i < cut + k
    BY <1>4
  <2>3. Ascending(logs')
    BY <1>5, <1>6, <2>1, <2>2 DEF Ascending
  <2>4. \A i \in DOMAIN logs' : logs'[i].to <= offset'
    BY <1>7, <2>1
  <2>. HIDE DEF base
  <2>5. ASSUME NEW c \in Clients, stream[c] \in {"top", "check"},
               NEW i \in DOMAIN got[c], NEW k \in DOMAIN logs',
               total' - Len(logs') + k > sent_index[c], logs'[k] # ErrorLine
        PROVE  got[c][i].to <= logs'[k].from
    BY <1>8, <2>1, <2>5
  <2>. QED  BY <2>3, <2>4, <2>5
<1>. QED  BY <1>1, <1>8, <1>9, <1>10, <1>11, MemoryAfter

(* The lines a client would be sent next are in order with those it has.   *)
LEMMA NextAscend ==
    ASSUME TypeOK, OrderInv, NEW c \in Clients, stream[c] \in {"top", "check"},
           NEW new, new = GetLogs(sent_index[c])
    PROVE  /\ Ascending(got[c] \o new.lines)
           /\ known => new.next = total
           /\ \A i \in DOMAIN (got[c] \o new.lines) : (got[c] \o new.lines)[i].to <= offset
<1>1. /\ sent_index[c] \in Nat /\ got[c] \in Seq(Line) /\ logs \in Seq(Line) /\ total \in Nat
    BY DEF TypeOK
<1>2. /\ sent_index[c] <= total /\ Ascending(got[c]) /\ Ascending(logs)
      /\ \A i \in DOMAIN logs : logs[i].to <= offset
      /\ \A i \in DOMAIN got[c] :
            /\ got[c][i].to <= offset
            /\ \A k \in DOMAIN logs :
                  total - Len(logs) + k > sent_index[c] /\ logs[k] # ErrorLine =>
                      got[c][i].to <= logs[k].from
    BY DEF OrderInv
<1>3. new.lines \in Seq(Line)
    BY <1>1, GetLogsTypes
<1>4. CASE ~known
  <2>1. new.lines = <<>>
    BY <1>4 DEF GetLogs
  <2>2. got[c] \o new.lines = got[c]
    BY <1>1, <2>1, ConcatEmptySeq
  <2>. QED  BY <1>2, <1>4, <2>2
<1>5. CASE known
  <2>. DEFINE g == got[c]
              n == sent_index[c]
              t == new.lines
  <2>1. PICK start \in 0..Len(logs) :
           /\ start = IF n < total - Len(logs) THEN 0 ELSE n - (total - Len(logs))
           /\ Len(t) = Len(logs) - start
           /\ \A i \in 1..(Len(logs) - start) : t[i] = logs[start + i]
    BY <1>1, <1>2, <1>5, GetLogsLines
  <2>2. new.next = total
    BY <1>1, <1>2, <1>5, GetLogsLines
  <2>3. /\ n \in Nat /\ g \in Seq(Line) /\ t \in Seq(Line) /\ n <= total /\ Ascending(g)
        /\ \A i \in DOMAIN g :
              /\ g[i].to <= offset
              /\ \A k \in DOMAIN logs :
                    total - Len(logs) + k > n /\ logs[k] # ErrorLine => g[i].to <= logs[k].from
    BY <1>1, <1>2, <1>3
  <2>. HIDE DEF g, n, t
  <2>4. /\ DOMAIN logs = 1..Len(logs) /\ Len(logs) \in Nat
        /\ DOMAIN t = 1..Len(t) /\ Len(t) \in Nat
    BY <1>1, <2>3, LenProperties
  <2>5. \A i \in DOMAIN t : /\ start + i \in DOMAIN logs /\ t[i] = logs[start + i]
                            /\ total - Len(logs) + (start + i) > n
    <3>. SUFFICES ASSUME NEW i \in 1..(Len(logs) - start)
                  PROVE  /\ start + i \in 1..Len(logs) /\ t[i] = logs[start + i]
                         /\ total - Len(logs) + (start + i) > n
      BY <2>1, <2>4
    <3>1. t[i] = logs[start + i]
      BY <2>1
    <3>2. Len(logs) \in Nat /\ n \in Nat /\ total \in Nat
      BY <1>1, <2>3, <2>4
    <3>3. start + i \in 1..Len(logs)
      BY <3>2
    <3>4. total - Len(logs) + (start + i) > n
      BY <2>1, <3>2
    <3>. QED  BY <3>1, <3>3, <3>4
  <2>6. Ascending(t)
    <3>1. \A i, k \in DOMAIN t : i < k => start + i < start + k
      BY <2>4
    <3>. QED  BY <1>2, <2>5, <3>1 DEF Ascending
  <2>7. \A i \in DOMAIN g, k \in DOMAIN t : t[k] # ErrorLine => g[i].to <= t[k].from
    BY <2>3, <2>5
  <2>8. Ascending(g \o t)
    BY <2>3, <2>6, <2>7, AscendingAppended
  <2>9. \A i \in DOMAIN (g \o t) : (g \o t)[i].to <= offset
    <3>. DEFINE u == g \o t
    <3>1. /\ DOMAIN u = 1..Len(u) /\ DOMAIN g = 1..Len(g) /\ Len(g) \in Nat
          /\ Len(u) = Len(g) + Len(t)
          /\ \A i \in 1..Len(g) : u[i] = g[i]
          /\ \A i \in (Len(g) + 1)..Len(u) : u[i] = t[i - Len(g)] /\ i - Len(g) \in 1..Len(t)
      BY <2>3, Appended
    <3>. HIDE DEF u
    <3>. SUFFICES ASSUME NEW i \in 1..Len(u) PROVE u[i].to <= offset
      BY <3>1 DEF u
    <3>2. CASE i <= Len(g)
      <4>1. i \in DOMAIN g /\ u[i] = g[i]
        BY <3>1, <3>2
      <4>. QED  BY <2>3, <4>1
    <3>3. CASE i > Len(g)
      <4>1. i - Len(g) \in DOMAIN t /\ u[i] = t[i - Len(g)]
        BY <2>4, <3>1, <3>3
      <4>. QED  BY <1>2, <2>5, <4>1
    <3>4. i <= Len(g) \/ i > Len(g)
      BY <3>1
    <3>. QED  BY <3>2, <3>3, <3>4
  <2>. QED  BY <2>2, <2>8, <2>9 DEF g, t
<1>. QED  BY <1>4, <1>5

(* A step that serves a client keeps it in order.                          *)
LEMMA ServedInOrder ==
    ASSUME TypeOK, OrderInv, NEW c \in Clients, Connect(c) \/ Disconnect(c) \/ Stream(c),
           stream'[c] \in {"top", "check"}
    PROVE  /\ sent_index'[c] <= total
           /\ Ascending(got'[c])
           /\ \A i \in DOMAIN got'[c] :
                 /\ got'[c][i].to <= offset
                 /\ \A k \in DOMAIN logs :
                       total - Len(logs) + k > sent_index'[c] /\ logs[k] # ErrorLine =>
                           got'[c][i].to <= logs[k].from
<1>1. /\ stream \in [Clients -> {"off", "top", "check", "done"}]
      /\ sent_index \in [Clients -> Nat] /\ got \in [Clients -> Seq(Line)]
      /\ logs \in Seq(Line) /\ total \in Nat
    BY DEF TypeOK
<1>2. ASSUME NEW pc, NEW index, NEW lines, Serve(c, pc, index, lines)
      PROVE  stream'[c] = pc /\ sent_index'[c] = index /\ got'[c] = lines
    BY <1>1, <1>2 DEF Serve
<1>. DEFINE new == GetLogs(sent_index[c])
<1>3. CASE sent_index'[c] = 0 /\ got'[c] = <<>>
  <2>1. DOMAIN got'[c] = {} /\ 0 <= total
    BY <1>1, <1>3
  <2>. QED  BY <1>3, <2>1 DEF Ascending
<1>4. CASE stream[c] \in {"top", "check"} /\ sent_index'[c] = sent_index[c] /\ got'[c] = got[c]
    BY <1>4 DEF OrderInv
<1>5. CASE /\ stream[c] = "top" /\ new.lines # <<>>
           /\ sent_index'[c] = new.next /\ got'[c] = got[c] \o new.lines
  <2>1. known
    BY <1>5 DEF GetLogs
  <2>2. /\ Ascending(got[c] \o new.lines) /\ new.next = total
        /\ \A i \in DOMAIN (got[c] \o new.lines) : (got[c] \o new.lines)[i].to <= offset
    BY <1>5, <2>1, NextAscend
  <2>3. \A k \in DOMAIN logs : ~(total - Len(logs) + k > total)
    <3>1. DOMAIN logs = 1..Len(logs) /\ Len(logs) \in Nat
      BY <1>1, LenProperties
    <3>. QED  BY <1>1, <3>1
  <2>. HIDE DEF new
  <2>4. sent_index'[c] = total /\ total <= total
    BY <1>1, <1>5, <2>2
  <2>. QED  BY <1>5, <2>2, <2>3, <2>4
<1>6. CASE Connect(c) \/ Disconnect(c)
    BY <1>2, <1>3, <1>6 DEF Connect, Disconnect
<1>7. ASSUME FinishStream(c), stream[c] \in {"top", "check"}
      PROVE  sent_index'[c] = sent_index[c] /\ got'[c] = got[c]
  <2>. DEFINE final == GetLogsWithDiskFallback(sent_index[c])
  <2>1. \/ Serve(c, "done", final.next, got[c] \o final.lines)
        \/ Serve(c, "top", sent_index[c], got[c])
    BY <1>7 DEF FinishStream
  <2>. HIDE DEF final
  <2>2. stream'[c] # "done"
    OBVIOUS
  <2>. QED  BY <1>2, <2>1, <2>2
<1>8. CASE Stream(c)
  <2>1. \/ /\ stream[c] = "top" /\ new.lines # <<>>
           /\ Serve(c, "check", new.next, got[c] \o new.lines)
        \/ stream[c] \in {"top", "check"} /\ FinishStream(c)
    BY <1>8 DEF Stream, StreamPolls, StreamChecks
  <2>. HIDE DEF new
  <2>2. CASE /\ stream[c] = "top" /\ new.lines # <<>>
             /\ Serve(c, "check", new.next, got[c] \o new.lines)
    BY <1>2, <1>5, <2>2
  <2>3. CASE stream[c] \in {"top", "check"} /\ FinishStream(c)
    BY <1>4, <1>7, <2>3
  <2>. QED  BY <2>1, <2>2, <2>3
<1>. QED  BY <1>6, <1>8

(* Every action keeps OrderInv.                                            *)
LEMMA OrderStep ==
    ASSUME TypeOK, TaskInv, OrderInv, [Next]_vars
    PROVE  OrderInv'
<1>1. CASE Restart
  <2>1. logs' = <<>> /\ stream' = [c \in Clients |-> "off"]
    BY <1>1, OneWay
  <2>2. DOMAIN logs' = {} /\ \A c \in Clients : stream'[c] = "off"
    BY <2>1
  <2>. QED  BY <2>2 DEF OrderInv, Ascending
<1>2. CASE ~Restart /\ UNCHANGED streamVars
  <2>1. stream' = stream /\ sent_index' = sent_index /\ got' = got
    BY <1>2 DEF streamVars
  <2>2. \A c \in Clients : stream[c] \in {"top", "check"} => Ascending(got[c])
    BY DEF OrderInv
  <2>. QED  BY <1>2, <2>1, <2>2, OrderLogged DEF OrderInv, Ascending
<1>3. ASSUME NEW d \in Clients, Connect(d) \/ Disconnect(d) \/ Stream(d)
      PROVE  OrderInv'
  <2>1. PICK pc \in {"off", "top", "check", "done"}, index \in Nat, lines \in Seq(Line) :
           Serve(d, pc, index, lines)
    BY <1>3, StreamEffect
  <2>2. UNCHANGED <<logs, total, offset>>
    BY <2>1 DEF Serve, bufferVars, monitorVars
  <2>3. \A c \in Clients : c # d => UNCHANGED <<stream[c], sent_index[c], got[c]>>
    BY <2>1 DEF Serve, TypeOK
  <2>4. ASSUME NEW c \in Clients, stream'[c] \in {"top", "check"}
        PROVE  /\ sent_index'[c] <= total
               /\ Ascending(got'[c])
               /\ \A i \in DOMAIN got'[c] :
                     /\ got'[c][i].to <= offset
                     /\ \A k \in DOMAIN logs :
                           total - Len(logs) + k > sent_index'[c] /\ logs[k] # ErrorLine =>
                               got'[c][i].to <= logs[k].from
    <3>1. CASE c = d
      BY <1>3, <2>4, <3>1, ServedInOrder
    <3>2. CASE c # d
      <4>1. UNCHANGED <<stream[c], sent_index[c], got[c]>>
        BY <2>3, <3>2
      <4>. QED  BY <2>4, <4>1 DEF OrderInv
    <3>. QED  BY <3>1, <3>2
  <2>. QED  BY <2>2, <2>4 DEF OrderInv, Ascending
<1>. QED  BY <1>1, <1>2, <1>3, ClientSteps

(* What a client receives while the job runs is in order and without       *)
(* repetition, however many lines are evicted while it is slow.            *)
THEOREM StreamsAscend == Spec => []StreamAscends
<1>1. Init => OrderInv
  <2>. SUFFICES ASSUME Init PROVE OrderInv
    OBVIOUS
  <2>1. DOMAIN logs = {} /\ \A c \in Clients : stream[c] = "off"
    BY DEF Init
  <2>. QED  BY <2>1 DEF OrderInv, Ascending
<1>2. TypeOK /\ OrderInv => StreamAscends
    BY NextAscend DEF StreamAscends
<1>. QED  BY <1>1, <1>2, TaskInvariant, OrderStep, PTL DEF Spec

=============================================================================
