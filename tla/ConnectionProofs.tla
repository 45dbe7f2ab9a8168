-------------------------- MODULE ConnectionProofs --------------------------
(***************************************************************************)
(* Theorems about Connection, for any number of chunks, transmissions and  *)
(* close steps: the output is a faithful prefix of what the process wrote  *)
(* for every interleaving of the two readers with transmit, close and the  *)
(* monitor, cut short only where the pipes or the connection were closed,  *)
(* and only a connection whose process is gone reads "closed" before the   *)
(* scenario closes it.                                                     *)
(***************************************************************************)
EXTENDS Connection, FiniteSetTheorems, SequenceTheorems, TLAPS

-----------------------------------------------------------------------------
(* The steps *)

(* The two ways to connect differ in their arguments only. *)
Connects ==
    \E client \in {"openssl", "nc"}, streams \in SUBSET Streams, input0 \in {"copying", "pipe"} :
        Connect(client, streams, input0)

(* Every step, by the action it is. *)
LEMMA NextKinds ==
    ASSUME [Next]_vars
    PROVE  \/ Connects
           \/ \E s \in Streams : ReaderChecks(s) \/ ReaderReads(s) \/ ReaderEnds(s)
           \/ \E s \in Streams : ReaderStores(s)
           \/ \E s \in Streams : ProcessWrites(s)
           \/ HandshakeEnds \/ ProcessExits \/ KilledProcessExits
           \/ WaitReturns \/ MonitorMarksClosed
           \/ CopierCopies \/ CopierEnds
           \/ TransmitToPipe \/ TransmitToBuffer \/ TransmitFails \/ TransmitRefreshesOutput
           \/ CloseMarks \/ CloseStops \/ CloseKills
           \/ UNCHANGED vars
<1>1. ASSUME opensslClientRequest \/ clientConnectsWithProtocol
      PROVE  Connects
  BY <1>1 DEF opensslClientRequest, clientConnectsWithProtocol, Connects, Streams
<1>2. QED
  BY <1>1 DEF Next, Reader, Monitor, Copier, Transmit, Close

(* Only a reader's third step adds to the output; what transmit copies is *)
(* what the readers left there.                                           *)
LEMMA OutputKept ==
    ASSUME [Next]_vars, output = outputBuf
    PROVE  \/ output' = output /\ outputBuf' = outputBuf
           \/ \E s \in Streams : ReaderStores(s)
BY NextKinds DEF Connects, Connect, ReaderChecks, ReaderReads, ReaderEnds, ProcessWrites, HandshakeEnds,
   ProcessExits, KilledProcessExits, WaitReturns, MonitorMarksClosed, CopierCopies, CopierEnds,
   TransmitToPipe, TransmitToBuffer, Transmits, TransmitFails, TransmitRefreshesOutput, CloseMarks,
   CloseStops, CloseKills, connection, vars

-----------------------------------------------------------------------------
(* Type correctness *)

(* A reader takes what was written, and what it is about to store it took; *)
(* none runs before there is a connection.                                 *)
Taken ==
    \A s \in Streams :
        /\ taken[s] <= written[s]
        /\ reader[s] = "store" => taken[s] >= 1
        /\ kind = "none" => reader[s] = "none"

(* The part of TypeOK and Taken that the streams need. *)
StreamsTyped ==
    /\ output \in Seq(Chunks)
    /\ output = outputBuf
    /\ written \in [Streams -> 0..MaxChunks]
    /\ taken \in [Streams -> 0..MaxChunks]
    /\ reader \in [Streams -> {"none", "check", "read", "store", "done"}]
    /\ Taken

(* The rest of TypeOK. *)
RestTyped ==
    /\ kind \in {"none", "openssl", "nc"}
    /\ state \in {"open", "closed"}
    /\ stopped \in BOOLEAN
    /\ proc \in {"none", "running", "killed", "exited"}
    /\ handshake \in {"pending", "accepted", "refused"}
    /\ pipesOpen \in BOOLEAN
    /\ monitor \in {"none", "wait", "mark", "done"}
    /\ stdin \in {"none", "copying", "pipe", "eof"}
    /\ inbuf \in Seq(1..MaxSends)
    /\ received \in Seq(1..MaxSends)
    /\ sends \in 0..MaxSends
    /\ closes \in 0..MaxCloses
    /\ step \in {"idle", "settle", "stop", "kill"}

(* Each stream is read in order, chunk by chunk. *)
LEMMA StreamsKept ==
    ASSUME StreamsTyped, [Next]_vars
    PROVE  StreamsTyped'
<1> USE ConnectionAssumption DEF StreamsTyped, Taken
<1>1. CASE UNCHANGED <<kind, outputBuf, process, taken, reader>> /\ (output' = output \/ output' = outputBuf)
  BY <1>1 DEF process
<1>2. CASE Connects
  <2>1. PICK streams \in SUBSET Streams : reader' = [s \in Streams |-> IF s \in streams THEN "check" ELSE "none"]
    BY <1>2 DEF Connects, Connect
  <2>2. UNCHANGED <<outputBuf, output, written, taken>>
    BY <1>2 DEF Connects, Connect
  <2>3. kind' # "none"
    BY <1>2 DEF Connects, Connect
  <2>4. QED
    BY <2>1, <2>2, <2>3
<1>3. ASSUME NEW s \in Streams, ReaderChecks(s) \/ ReaderEnds(s)
      PROVE  StreamsTyped'
  BY <1>3 DEF ReaderChecks, ReaderEnds, connection, process
<1>4. ASSUME NEW s \in Streams, ReaderReads(s)
      PROVE  StreamsTyped'
  BY <1>4 DEF ReaderReads, connection, process
<1>5. ASSUME NEW s \in Streams, ReaderStores(s)
      PROVE  StreamsTyped'
  <2>1. <<s, taken[s]>> \in Chunks
    BY <1>5 DEF ReaderStores, Chunks
  <2>2. output' \in Seq(Chunks) /\ output' = outputBuf'
    BY <1>5, <2>1 DEF ReaderStores
  <2>3. QED
    BY <1>5, <2>2 DEF ReaderStores, process
<1>6. ASSUME NEW s \in Streams, ProcessWrites(s)
      PROVE  StreamsTyped'
  BY <1>6 DEF ProcessWrites, connection, pipes
<1>7. CASE HandshakeEnds \/ ProcessExits \/ KilledProcessExits \/ CloseKills
  <2>1. UNCHANGED <<kind, outputBuf, output, written, taken, reader>>
    BY <1>7 DEF HandshakeEnds, ProcessExits, KilledProcessExits, CloseKills, connection, pipes
  <2>2. QED
    BY <2>1
<1>8. QED
  BY <1>1, <1>2, <1>3, <1>4, <1>5, <1>6, <1>7, NextKinds DEF WaitReturns, MonitorMarksClosed,
     CopierCopies, CopierEnds, TransmitToPipe, TransmitToBuffer, Transmits, TransmitFails,
     TransmitRefreshesOutput, CloseMarks, CloseStops, connection, pipes, vars

(* Transmissions are numbered within their bound, closes counted within theirs. *)
LEMMA RestKept ==
    ASSUME RestTyped, [Next]_vars
    PROVE  RestTyped'
<1> USE ConnectionAssumption DEF RestTyped
<1>1. CASE Connects
  BY <1>1 DEF Connects, Connect, steps
<1>2. ASSUME NEW s \in Streams, ReaderChecks(s) \/ ReaderReads(s) \/ ReaderEnds(s) \/ ReaderStores(s) \/ ProcessWrites(s)
      PROVE  RestTyped'
  BY <1>2 DEF ReaderChecks, ReaderReads, ReaderEnds, ReaderStores, ProcessWrites, connection, process,
     pipes, input, steps
<1>3. CASE HandshakeEnds \/ ProcessExits \/ KilledProcessExits
  BY <1>3 DEF HandshakeEnds, ProcessExits, KilledProcessExits, connection, pipes, input, steps
<1>4. CASE WaitReturns \/ MonitorMarksClosed
  BY <1>4 DEF WaitReturns, MonitorMarksClosed, connection, process, pipes, input, steps
<1>5. CASE CopierCopies
  <2>1. received' \in Seq(1..MaxSends) /\ inbuf' \in Seq(1..MaxSends)
    BY <1>5, ConcatProperties, EmptySeq DEF CopierCopies
  <2>2. QED
    BY <1>5, <2>1 DEF CopierCopies, connection, process, pipes, steps
<1>6. CASE CopierEnds
  BY <1>6 DEF CopierEnds, connection, process, pipes, steps
<1>7. CASE TransmitToPipe \/ TransmitToBuffer
  <2>1. sends + 1 \in 1..MaxSends /\ sends' = sends + 1 /\ step' = "settle"
    BY <1>7 DEF TransmitToPipe, TransmitToBuffer, Transmits
  <2>2. received' \in Seq(1..MaxSends) /\ inbuf' \in Seq(1..MaxSends)
    <3>1. received' \in {received, Append(received, sends + 1)}
      BY <1>7 DEF TransmitToPipe, TransmitToBuffer
    <3>2. inbuf' \in {inbuf, Append(inbuf, sends + 1)}
      BY <1>7 DEF TransmitToPipe, TransmitToBuffer
    <3>3. Append(received, sends + 1) \in Seq(1..MaxSends) /\ Append(inbuf, sends + 1) \in Seq(1..MaxSends)
      BY <2>1, AppendProperties
    <3>4. QED
      BY <3>1, <3>2, <3>3
  <2>3. UNCHANGED <<connection, process, pipes, monitor, stdin, closes>>
    BY <1>7 DEF TransmitToPipe, TransmitToBuffer, Transmits
  <2>4. QED
    BY <2>1, <2>2, <2>3 DEF connection, process, pipes
<1>8. CASE TransmitFails \/ TransmitRefreshesOutput
  BY <1>8 DEF TransmitFails, TransmitRefreshesOutput, connection, process, pipes, input
<1>9. CASE CloseMarks \/ CloseStops \/ CloseKills
  <2>1. CASE CloseMarks
    BY <2>1 DEF CloseMarks, process, pipes, input
  <2>2. CASE CloseStops
    BY <2>2 DEF CloseStops, process, pipes, input
  <2>3. CASE CloseKills
    BY <2>3 DEF CloseKills, connection, pipes, input
  <2>4. QED
    BY <1>9, <2>1, <2>2, <2>3
<1>10. CASE UNCHANGED vars
  BY <1>10 DEF vars, connection, process, pipes, input, steps
<1>11. QED
  BY <1>1, <1>2, <1>3, <1>4, <1>5, <1>6, <1>7, <1>8, <1>9, <1>10, NextKinds

(* Every state is well-typed, and no reader is ahead of its process. *)
LEMMA AlwaysTyped == Spec => [](StreamsTyped /\ RestTyped)
<1>1. ASSUME Init
      PROVE  StreamsTyped
  BY <1>1, ConnectionAssumption, EmptySeq DEF Init, StreamsTyped, Taken
<1>2. ASSUME Init
      PROVE  RestTyped
  <2>1. <<>> \in Seq(1..MaxSends)
    BY EmptySeq
  <2>2. 0 \in 0..MaxSends /\ 0 \in 0..MaxCloses
    BY ConnectionAssumption
  <2>3. QED
    BY <1>2, <2>1, <2>2 DEF Init, RestTyped
<1>3. QED
  BY <1>1, <1>2, StreamsKept, RestKept, PTL DEF Spec

(* Type correctness of the connection. *)
THEOREM ConnectionTypes == Spec => []TypeOK
<1>1. StreamsTyped /\ RestTyped => TypeOK
  BY DEF StreamsTyped, RestTyped, TypeOK
<1>2. QED
  BY <1>1, AlwaysTyped, PTL

-----------------------------------------------------------------------------
(* The output *)

(* The positions of an output are numbers, and finitely many. *)
LEMMA PositionsFinite ==
    ASSUME output \in Seq(Chunks), NEW s
    PROVE  /\ Positions(s) \subseteq 1..Len(output) /\ IsFiniteSet(Positions(s))
           /\ Cardinality(Positions(s)) \in Nat /\ Len(output) \in Nat
<1>1. Len(output) \in Nat /\ DOMAIN output = 1..Len(output)
  BY LenProperties
<1>2. IsFiniteSet(1..Len(output))
  BY <1>1, FS_Interval
<1>3. Positions(s) \in SUBSET (1..Len(output))
  BY <1>1 DEF Positions
<1>4. IsFiniteSet(Positions(s))
  BY <1>2, <1>3, FS_Subset
<1>5. QED
  BY <1>1, <1>3, <1>4, FS_CardinalityType

(* What one more chunk changes: it comes last in its stream, and every      *)
(* other chunk keeps its rank.                                              *)
LEMMA OneMoreChunk ==
    ASSUME output \in Seq(Chunks), NEW e \in Chunks, output' = Append(output, e), NEW s
    PROVE  LET new == Len(output) + 1 IN
           /\ output'[new] = e /\ \A k \in Positions(s) : output'[k] = output[k]
           /\ Positions(s)' = (IF e[1] = s THEN Positions(s) \cup {new} ELSE Positions(s))
           /\ \A k \in Positions(s) :
                {j \in Positions(s)' : j <= k} = {j \in Positions(s) : j <= k}
           /\ {j \in Positions(s) \cup {new} : j <= new} = Positions(s) \cup {new}
           /\ Cardinality(Positions(s) \cup {new}) = Cardinality(Positions(s)) + 1
<1> DEFINE new == Len(output) + 1
<1>1. /\ Positions(s) \subseteq 1..Len(output) /\ IsFiniteSet(Positions(s)) /\ Len(output) \in Nat
      /\ Cardinality(Positions(s)) \in Nat
  BY PositionsFinite
<1>2. /\ output' \in Seq(Chunks) /\ Len(output') = new /\ output'[new] = e
      /\ \A k \in 1..Len(output) : output'[k] = output[k]
  BY AppendProperties
<1>3. DOMAIN output = 1..Len(output) /\ DOMAIN output' = 1..new
  BY <1>2, LenProperties
<1>4. 1..new = 1..Len(output) \cup {new}
  BY <1>1
<1>5. Positions(s)' = (IF e[1] = s THEN Positions(s) \cup {new} ELSE Positions(s))
  BY <1>2, <1>3, <1>4 DEF Positions
<1>6. \A k \in 1..Len(output) : ~(new <= k)
  BY <1>1
<1>7. new \notin Positions(s) /\ \A k \in Positions(s) : k <= new
  BY <1>1
<1>8. Cardinality(Positions(s) \cup {new}) = Cardinality(Positions(s)) + 1
  BY <1>1, <1>7, FS_AddElement
<1>9. new <= new
  BY <1>1
<1> HIDE DEF new
<1>10. \A k \in Positions(s) : {j \in Positions(s)' : j <= k} = {j \in Positions(s) : j <= k}
  BY <1>1, <1>5, <1>6
<1>11. {j \in Positions(s) \cup {new} : j <= new} = Positions(s) \cup {new}
  BY <1>7, <1>9
<1>12. QED
  BY <1>1, <1>2, <1>5, <1>8, <1>10, <1>11 DEF new

(* What of a stream its reader has appended. *)
Stored(s) == IF reader[s] = "store" THEN taken[s] - 1 ELSE taken[s]

(* The output is what the readers stored, each stream in its order. *)
Ranked ==
    \A s \in Streams :
        /\ Cardinality(Positions(s)) = Stored(s)
        /\ \A k \in Positions(s) :
             output[k][2] = Cardinality({j \in Positions(s) : j <= k})

(* Why a reader ended: told to stop, its pipe closed, or the end of what a *)
(* process that is gone wrote.  The first two do not pass, and nobody      *)
(* writes any more after the third.                                        *)
EndedForAReason ==
    \A s \in Streams : reader[s] = "done" =>
        \/ stopped
        \/ ~pipesOpen
        \/ proc = "exited" /\ taken[s] = written[s]

(* A chunk that is stored is the next of its stream; everything else that   *)
(* happens leaves the output and what was stored of each stream alone.      *)
LEMMA RankedKept ==
    ASSUME StreamsTyped, StreamsTyped', Ranked, [Next]_vars
    PROVE  Ranked'
<1>1. ASSUME output' = output, NEW s \in Streams, Stored(s)' = Stored(s)
      PROVE  /\ Cardinality(Positions(s)') = Stored(s)'
             /\ \A k \in Positions(s)' : output'[k][2] = Cardinality({j \in Positions(s)' : j <= k})
  BY <1>1 DEF Ranked, Positions
<1>2. CASE output' = output /\ \A s \in Streams : Stored(s)' = Stored(s)
  BY <1>1, <1>2 DEF Ranked
<1>3. ASSUME NEW r \in Streams, ReaderStores(r)
      PROVE  Ranked'
  <2> DEFINE e == <<r, taken[r]>>
             new == Len(output) + 1
  <2>1. e \in Chunks /\ output \in Seq(Chunks) /\ output' = Append(output, e)
    BY <1>3, ConnectionAssumption DEF ReaderStores, StreamsTyped, Taken, Chunks
  <2>2. /\ Stored(r) = taken[r] - 1 /\ Stored(r)' = taken[r]
        /\ \A s \in Streams : s # r => Stored(s)' = Stored(s)
    BY <1>3 DEF ReaderStores, Stored, StreamsTyped
  <2>3. taken[r] \in Nat
    BY ConnectionAssumption DEF StreamsTyped
  <2> HIDE DEF e, new
  <2> SUFFICES ASSUME NEW s \in Streams
               PROVE  /\ Cardinality(Positions(s)') = Stored(s)'
                      /\ \A k \in Positions(s)' : output'[k][2] = Cardinality({j \in Positions(s)' : j <= k})
    BY DEF Ranked
  <2>4. /\ output'[new] = e /\ \A k \in Positions(s) : output'[k] = output[k]
        /\ Positions(s)' = (IF e[1] = s THEN Positions(s) \cup {new} ELSE Positions(s))
        /\ \A k \in Positions(s) : {j \in Positions(s)' : j <= k} = {j \in Positions(s) : j <= k}
        /\ {j \in Positions(s) \cup {new} : j <= new} = Positions(s) \cup {new}
        /\ Cardinality(Positions(s) \cup {new}) = Cardinality(Positions(s)) + 1
    BY <2>1, OneMoreChunk DEF new
  <2>5. /\ Cardinality(Positions(s)) = Stored(s)
        /\ \A k \in Positions(s) : output[k][2] = Cardinality({j \in Positions(s) : j <= k})
    BY DEF Ranked
  <2>6. \A k \in Positions(s) : output'[k][2] = Cardinality({j \in Positions(s)' : j <= k})
    BY <2>4, <2>5
  <2>7. e[1] = r /\ e[2] = taken[r]
    BY DEF e
  <2>8. CASE s = r
    <3>1. Positions(s)' = Positions(s) \cup {new} /\ Cardinality(Positions(s)') = taken[r]
      BY <2>2, <2>3, <2>4, <2>5, <2>7, <2>8
    <3>2. output'[new][2] = Cardinality({j \in Positions(s)' : j <= new})
      BY <2>4, <2>7, <3>1
    <3>3. QED
      BY <2>2, <2>6, <2>8, <3>1, <3>2
  <2>9. CASE s # r
    BY <2>2, <2>4, <2>5, <2>6, <2>7, <2>9
  <2>10. QED
    BY <2>8, <2>9
<1>4. ASSUME \A s \in Streams : ~ReaderStores(s)
      PROVE  output' = output /\ \A s \in Streams : Stored(s)' = Stored(s)
  <2>1. output' = output
    BY <1>4, OutputKept DEF StreamsTyped
  <2>2. CASE UNCHANGED <<taken, reader>>
    BY <2>1, <2>2 DEF Stored
  <2>3. CASE Connects
    BY <2>1, <2>3 DEF Connects, Connect, Stored, StreamsTyped, Taken
  <2>4. ASSUME NEW s \in Streams, ReaderChecks(s) \/ ReaderReads(s) \/ ReaderEnds(s)
        PROVE  \A t \in Streams : Stored(t)' = Stored(t)
    BY <2>4, ConnectionAssumption DEF ReaderChecks, ReaderReads, ReaderEnds, Stored, StreamsTyped
  <2>5. QED
    BY <1>4, <2>1, <2>2, <2>3, <2>4, NextKinds DEF ProcessWrites, HandshakeEnds, ProcessExits,
       KilledProcessExits, WaitReturns, MonitorMarksClosed, CopierCopies, CopierEnds, TransmitToPipe,
       TransmitToBuffer, Transmits, TransmitFails, TransmitRefreshesOutput, CloseMarks, CloseStops,
       CloseKills, pipes, vars
<1>5. QED
  BY <1>2, <1>3, <1>4

(* A reader ends for a reason, and the reason stays. *)
LEMMA ReasonKept ==
    ASSUME StreamsTyped, EndedForAReason, [Next]_vars
    PROVE  EndedForAReason'
<1> USE DEF EndedForAReason
<1>1. CASE Connects
  BY <1>1 DEF Connects, Connect, StreamsTyped, Taken
<1>2. ASSUME NEW s \in Streams, ReaderChecks(s) \/ ReaderReads(s) \/ ReaderEnds(s) \/ ReaderStores(s)
      PROVE  EndedForAReason'
  BY <1>2 DEF ReaderChecks, ReaderReads, ReaderEnds, ReaderStores, connection, process, StreamsTyped
<1>3. ASSUME NEW s \in Streams, ProcessWrites(s)
      PROVE  EndedForAReason'
  BY <1>3 DEF ProcessWrites, connection, pipes
<1>4. CASE HandshakeEnds \/ ProcessExits \/ KilledProcessExits \/ CloseKills
  BY <1>4 DEF HandshakeEnds, ProcessExits, KilledProcessExits, CloseKills, connection, pipes
<1>5. CASE WaitReturns
  BY <1>5 DEF WaitReturns, connection, process
<1>6. CASE CloseStops
  BY <1>6 DEF CloseStops, process, pipes
<1>7. CASE UNCHANGED <<stopped, process, pipes>>
  BY <1>7 DEF process, pipes
<1>8. QED
  BY <1>1, <1>2, <1>3, <1>4, <1>5, <1>6, <1>7, NextKinds DEF MonitorMarksClosed, CopierCopies, CopierEnds,
     TransmitToPipe, TransmitToBuffer, Transmits, TransmitFails, TransmitRefreshesOutput, CloseMarks,
     connection, vars

(* Whatever the interleaving, the output is a prefix of what the process    *)
(* wrote to each stream, each chunk once and in its place, and all of it    *)
(* where a reader ended with its pipe open and the connection not closed.   *)
THEOREM OutputIsFaithful == Spec => []OutputFaithful
<1>1. ASSUME Init
      PROVE  Ranked /\ EndedForAReason
  <2>1. output = <<>> /\ DOMAIN output = {}
    BY <1>1 DEF Init
  <2>2. \A s \in Streams : Positions(s) = {} /\ Stored(s) = 0 /\ reader[s] = "none"
    BY <1>1, <2>1 DEF Init, Positions, Stored
  <2>3. QED
    BY <2>2, FS_EmptySet DEF Ranked, EndedForAReason
<1>2. Ranked /\ EndedForAReason /\ StreamsTyped /\ StreamsTyped' /\ [Next]_vars => (Ranked /\ EndedForAReason)'
  BY RankedKept, ReasonKept
<1>3. ASSUME Ranked, EndedForAReason, StreamsTyped, RestTyped
      PROVE  OutputFaithful
  <2> SUFFICES ASSUME NEW s \in Streams
               PROVE  /\ \A k \in Positions(s) :
                           output[k][2] = Cardinality({j \in Positions(s) : j <= k})
                      /\ Cardinality(Positions(s)) <= written[s]
                      /\ reader[s] = "done" /\ ~stopped /\ pipesOpen =>
                           Cardinality(Positions(s)) = written[s]
    BY DEF OutputFaithful
  <2>1. taken[s] \in Nat /\ written[s] \in Nat /\ taken[s] <= written[s]
    BY <1>3, ConnectionAssumption DEF StreamsTyped, Taken
  <2>2. Stored(s) <= written[s] /\ (reader[s] = "done" => Stored(s) = taken[s])
    BY <2>1 DEF Stored
  <2>3. reader[s] = "done" /\ ~stopped /\ pipesOpen => taken[s] = written[s]
    BY <1>3 DEF EndedForAReason
  <2>4. QED
    BY <1>3, <2>2, <2>3 DEF Ranked
<1>4. QED
  BY <1>1, <1>2, <1>3, AlwaysTyped, PTL DEF Spec

-----------------------------------------------------------------------------
(* Closed means gone *)

(* What holds until the scenario closes the connection: nobody kills the    *)
(* process, only its own end lets the monitor go on, and only the monitor   *)
(* marks the connection closed.                                             *)
Unclosed ==
    /\ kind = "none" =>
         proc = "none" /\ step = "idle" /\ closes = 0 /\ monitor = "none"
    /\ step \in {"stop", "kill"} => closes > 0
    /\ proc = "killed" => closes > 0
    /\ monitor \in {"mark", "done"} => proc = "exited"
    /\ kind # "none" /\ state = "closed" /\ closes = 0 => monitor = "done"

(* Every step keeps it: only closing, which is counted, goes another way. *)
LEMMA UnclosedKept ==
    ASSUME RestTyped, Unclosed, [Next]_vars
    PROVE  Unclosed'
<1> USE DEF Unclosed
<1>0. closes \in Nat
  BY ConnectionAssumption DEF RestTyped
<1>1. CASE Connects
  BY <1>1 DEF Connects, Connect, steps
<1>2. CASE UNCHANGED <<kind, state, proc, handshake, monitor, closes>> /\ (step' # step => kind # "none" /\ step' \in {"idle", "settle"})
  BY <1>2
<1>3. ASSUME NEW s \in Streams, ReaderChecks(s) \/ ReaderReads(s) \/ ReaderEnds(s) \/ ReaderStores(s) \/ ProcessWrites(s)
      PROVE  Unclosed'
  BY <1>2, <1>3 DEF ReaderChecks, ReaderReads, ReaderEnds, ReaderStores, ProcessWrites, connection, process, steps
<1>4. CASE HandshakeEnds \/ ProcessExits \/ KilledProcessExits
  BY <1>4 DEF HandshakeEnds, ProcessExits, KilledProcessExits, connection, steps
<1>5. CASE WaitReturns \/ MonitorMarksClosed
  BY <1>5 DEF WaitReturns, MonitorMarksClosed, connection, process, steps
<1>6. CASE CopierCopies \/ CopierEnds
  BY <1>2, <1>6 DEF CopierCopies, CopierEnds, connection, process, steps
<1>7. CASE TransmitToPipe \/ TransmitToBuffer \/ TransmitFails
  BY <1>2, <1>7 DEF TransmitToPipe, TransmitToBuffer, Transmits, TransmitFails, connection, process
<1>8. CASE TransmitRefreshesOutput
  BY <1>2, <1>8 DEF TransmitRefreshesOutput, process
<1>9. CASE CloseMarks \/ CloseStops \/ CloseKills
  BY <1>0, <1>9 DEF CloseMarks, CloseStops, CloseKills, connection, process
<1>10. CASE UNCHANGED vars
  BY <1>2, <1>10 DEF vars, connection, process, steps
<1>11. QED
  BY <1>1, <1>3, <1>4, <1>5, <1>6, <1>7, <1>8, <1>9, <1>10, NextKinds

(* A scenario that did not close the connection sees "closed" only once the *)
(* process is gone.                                                         *)
THEOREM ClosedIsGone == Spec => []ClosedMeansGone
<1>1. Init => Unclosed
  BY DEF Init, Unclosed
<1>2. RestTyped /\ Unclosed /\ [Next]_vars => Unclosed'
  BY UnclosedKept
<1>3. Unclosed => ClosedMeansGone
  BY DEF Unclosed, ClosedMeansGone
<1>4. QED
  BY <1>1, <1>2, <1>3, AlwaysTyped, PTL DEF Spec
=============================================================================
