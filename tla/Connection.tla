----------------------------- MODULE Connection -----------------------------
(***************************************************************************)
(* The Connection object of the testing DSL                                *)
(* (modules/cloud-testing-dsl/cloud_steps.go).                             *)
(*                                                                         *)
(* A step starts a child process (openssl s_client or nc) that talks to    *)
(* the service under test.  One goroutine per output stream copies what    *)
(* the process writes into a shared buffer, a monitor goroutine waits for  *)
(* the process and marks the connection closed, and, for openssl, whose    *)
(* standard input is a bytes.Buffer, os/exec runs one more goroutine that  *)
(* copies the buffer into the process.  Later steps transmit, look at the  *)
(* state and the output, and close, possibly more than once.               *)
(*                                                                         *)
(* A chunk is what one Read returns; chunk i of a stream is <<stream, i>>. *)
(***************************************************************************)
EXTENDS Naturals, Sequences, FiniteSets

CONSTANTS
    MaxChunks,  \* bound: chunks the process writes to each stream
    MaxSends,   \* bound: transmit steps
    MaxCloses   \* bound: close steps

ASSUME ConnectionAssumption ==
    MaxChunks \in Nat /\ MaxSends \in Nat /\ MaxCloses \in Nat

VARIABLES
    kind,      \* which client the step started; "none" before it succeeds
    state,     \* Connection.State
    stopped,   \* stopReader is closed
    outputBuf, \* what the readers have appended
    output,    \* Output, copied from outputBuf under the lock
    proc,      \* the child process
    handshake, \* whether the service accepted the connection the process asked for
    written,   \* chunks the process has written to each stream
    taken,     \* chunks a reader has taken from each stream
    pipesOpen, \* the parent's ends of the output pipes
    reader,    \* the goroutine of each stream
    monitor,   \* the goroutine around cmd.Wait
    stdin,     \* the parent's side of the child's standard input
    inbuf,     \* openssl: transmitted, not yet copied to the process
    received,  \* transmissions that reached the process
    sends,     \* transmissions so far
    closes,    \* close steps so far
    step       \* where the step goroutine is inside the current step

connection == <<kind, state, stopped, outputBuf, output>>
process == <<proc, handshake, written>>
pipes == <<taken, pipesOpen, reader>>
input == <<stdin, inbuf, received>>
steps == <<sends, closes, step>>
vars == <<connection, process, pipes, monitor, input, steps>>

Streams == {"stdout", "stderr"}
Chunks == Streams \X (1..MaxChunks)

TypeOK ==
    /\ kind \in {"none", "openssl", "nc"}
    /\ state \in {"open", "closed"}
    /\ stopped \in BOOLEAN
    /\ outputBuf \in Seq(Chunks)
    /\ output \in Seq(Chunks)
    /\ proc \in {"none", "running", "killed", "exited"}
    /\ handshake \in {"pending", "accepted", "refused"}
    /\ written \in [Streams -> 0..MaxChunks]
    /\ taken \in [Streams -> 0..MaxChunks]
    /\ pipesOpen \in BOOLEAN
    /\ reader \in [Streams -> {"none", "check", "read", "store", "done"}]
    /\ monitor \in {"none", "wait", "mark", "done"}
    /\ stdin \in {"none", "copying", "pipe", "eof"}
    /\ inbuf \in Seq(1..MaxSends)
    /\ received \in Seq(1..MaxSends)
    /\ sends \in 0..MaxSends
    /\ closes \in 0..MaxCloses
    /\ step \in {"idle", "settle", "stop", "kill"}

Init ==
    /\ kind = "none" /\ state = "closed" /\ stopped = FALSE
    /\ outputBuf = <<>> /\ output = <<>>
    /\ proc = "none" /\ handshake = "pending" /\ written = [s \in Streams |-> 0]
    /\ taken = [s \in Streams |-> 0]
    /\ pipesOpen = FALSE
    /\ reader = [s \in Streams |-> "none"]
    /\ monitor = "none"
    /\ stdin = "none" /\ inbuf = <<>> /\ received = <<>>
    /\ sends = 0 /\ closes = 0 /\ step = "idle"

-----------------------------------------------------------------------------
(* Connecting.  A failure before or in cmd.Start leaves no Connection.     *)

(* Mutant: the monitor goroutine is not started. *)
ConnectUnmonitored(client, streams, input0) ==
    /\ kind = "none"
    /\ kind' = client
    /\ state' = "open"
    /\ proc' = "running"
    /\ pipesOpen' = TRUE
    /\ reader' = [s \in Streams |-> IF s \in streams THEN "check" ELSE "none"]
    /\ stdin' = input0
    /\ UNCHANGED <<stopped, outputBuf, output, handshake, written, taken, monitor, inbuf, received, steps>>

Connect(client, streams, input0) ==
    /\ kind = "none"
    /\ kind' = client
    /\ state' = "open"
    /\ proc' = "running"
    /\ pipesOpen' = TRUE
    /\ reader' = [s \in Streams |-> IF s \in streams THEN "check" ELSE "none"]
    /\ monitor' = "wait"
    /\ stdin' = input0
    /\ UNCHANGED <<stopped, outputBuf, output, handshake, written, taken, inbuf, received, steps>>

(* stdout and stderr feed one buffer; standard input is a bytes.Buffer. *)
opensslClientRequest == Connect("openssl", Streams, "copying")

(* Only stdout is read; standard input is a pipe. *)
clientConnectsWithProtocol == Connect("nc", {"stdout"}, "pipe")

-----------------------------------------------------------------------------
(* The child process.                                                      *)

ProcessWrites(s) ==
    /\ proc = "running"
    /\ reader[s] # "none"
    /\ written[s] < MaxChunks
    /\ written' = [written EXCEPT ![s] = @ + 1]
    /\ UNCHANGED <<connection, proc, handshake, pipes, monitor, input, steps>>

(* The service accepts or refuses; "-connect_timeout 5" refuses a mute one. *)
HandshakeEnds ==
    /\ proc = "running"
    /\ handshake = "pending"
    /\ handshake' \in {"accepted", "refused"}
    /\ UNCHANGED <<connection, proc, written, pipes, monitor, input, steps>>

(* After a refusal, when standard input ends, when the peer hangs up, or,  *)
(* before any handshake, because the client itself failed.                 *)
ProcessExits ==
    /\ proc = "running"
    /\ proc' = "exited"
    /\ UNCHANGED <<connection, handshake, written, pipes, monitor, input, steps>>

KilledProcessExits ==
    /\ proc = "killed"
    /\ proc' = "exited"
    /\ UNCHANGED <<connection, handshake, written, pipes, monitor, input, steps>>

-----------------------------------------------------------------------------
(* startOutputReader: check stopReader, Read, append under the lock.       *)

ReaderChecks(s) ==
    /\ reader[s] = "check"
    /\ reader' = [reader EXCEPT ![s] = IF stopped THEN "done" ELSE "read"]
    /\ UNCHANGED <<connection, process, taken, pipesOpen, monitor, input, steps>>

ReaderReads(s) ==
    /\ reader[s] = "read"
    /\ pipesOpen
    /\ taken[s] < written[s]
    /\ taken' = [taken EXCEPT ![s] = @ + 1]
    /\ reader' = [reader EXCEPT ![s] = "store"]
    /\ UNCHANGED <<connection, process, pipesOpen, monitor, input, steps>>

(* Mutant: what Read left in the buffer is stored although it read nothing. *)
ReaderEndsStoring(s) ==
    /\ reader[s] = "read"
    /\ ~pipesOpen \/ (proc = "exited" /\ taken[s] = written[s])
    /\ outputBuf' = Append(outputBuf, <<s, 0>>)
    /\ output' = outputBuf'
    /\ reader' = [reader EXCEPT ![s] = "done"]
    /\ UNCHANGED <<kind, state, stopped, process, taken, pipesOpen, monitor, input, steps>>

(* EOF, or the pipe was closed under the reader. *)
ReaderEnds(s) ==
    /\ reader[s] = "read"
    /\ ~pipesOpen \/ (proc = "exited" /\ taken[s] = written[s])
    /\ reader' = [reader EXCEPT ![s] = "done"]
    /\ UNCHANGED <<connection, process, taken, pipesOpen, monitor, input, steps>>

(* Mutant: Output is the chunk just read instead of the whole buffer. *)
ReaderOverwrites(s) ==
    /\ reader[s] = "store"
    /\ outputBuf' = Append(outputBuf, <<s, taken[s]>>)
    /\ output' = << <<s, taken[s]>> >>
    /\ reader' = [reader EXCEPT ![s] = "check"]
    /\ UNCHANGED <<kind, state, stopped, process, taken, pipesOpen, monitor, input, steps>>

ReaderStores(s) ==
    /\ reader[s] = "store"
    /\ outputBuf' = Append(outputBuf, <<s, taken[s]>>)
    /\ output' = outputBuf'
    /\ reader' = [reader EXCEPT ![s] = "check"]
    /\ UNCHANGED <<kind, state, stopped, process, taken, pipesOpen, monitor, input, steps>>

-----------------------------------------------------------------------------
(* The monitor.  cmd.Wait waits for the process and for the copier of      *)
(* standard input, and closes the pipes, with or without chunks in them.   *)

(* Mutant: the monitor does not wait for the process. *)
WaitSkipped ==
    /\ monitor = "wait"
    /\ pipesOpen' = FALSE
    /\ monitor' = "mark"
    /\ UNCHANGED <<connection, process, taken, reader, input, steps>>

WaitReturns ==
    /\ monitor = "wait"
    /\ proc = "exited"
    /\ stdin # "copying"
    /\ pipesOpen' = FALSE
    /\ monitor' = "mark"
    /\ UNCHANGED <<connection, process, taken, reader, input, steps>>

MonitorMarksClosed ==
    /\ monitor = "mark"
    /\ state' = "closed"
    /\ monitor' = "done"
    /\ UNCHANGED <<kind, stopped, outputBuf, output, process, pipes, input, steps>>

-----------------------------------------------------------------------------
(* os/exec's goroutine for a standard input that is not a file: io.Copy    *)
(* until the buffer is empty or the process gone, then close the pipe.     *)

CopierCopies ==
    /\ stdin = "copying"
    /\ inbuf # <<>>
    /\ proc = "running"
    /\ received' = received \o inbuf
    /\ inbuf' = <<>>
    /\ UNCHANGED <<connection, process, pipes, monitor, stdin, steps>>

CopierEnds ==
    /\ stdin = "copying"
    /\ inbuf = <<>> \/ proc # "running"
    /\ stdin' = "eof"
    /\ UNCHANGED <<connection, process, pipes, monitor, inbuf, received, steps>>

-----------------------------------------------------------------------------
(* transmitToConnection: write, sleep, copy the buffer into Output.  A     *)
(* write to nc goes through the pipe and fails once nc is gone.  A write   *)
(* to openssl goes into the buffer, which the copier reads without a lock: *)
(* while it runs, the race may lose the write.                             *)

Transmits ==
    /\ kind # "none"
    /\ step = "idle"
    /\ sends < MaxSends
    /\ sends' = sends + 1
    /\ step' = "settle"
    /\ UNCHANGED <<connection, process, pipes, monitor, stdin, closes>>

TransmitToPipe ==
    /\ kind = "nc"
    /\ proc = "running"
    /\ received' = Append(received, sends + 1)
    /\ UNCHANGED inbuf
    /\ Transmits

TransmitToBuffer ==
    /\ kind = "openssl"
    /\ \/ inbuf' = Append(inbuf, sends + 1)
       \/ stdin = "copying" /\ UNCHANGED inbuf
    /\ UNCHANGED received
    /\ Transmits

TransmitFails ==
    /\ kind = "nc"
    /\ step = "idle"
    /\ proc # "running"
    /\ sends < MaxSends
    /\ sends' = sends + 1
    /\ UNCHANGED <<connection, process, pipes, monitor, input, closes, step>>

(* After the sleep, Output is taken from the buffer under the lock. *)
TransmitRefreshesOutput ==
    /\ step = "settle"
    /\ output' = outputBuf
    /\ step' = "idle"
    /\ UNCHANGED <<kind, state, stopped, outputBuf, process, pipes, monitor, input, sends, closes>>

-----------------------------------------------------------------------------
(* closeConnection: mark closed, stop the readers, kill the process.  A    *)
(* second close panics on the closed channel, before the kill.             *)

CloseMarks ==
    /\ kind # "none"
    /\ step = "idle"
    /\ closes < MaxCloses
    /\ closes' = closes + 1
    /\ state' = "closed"
    /\ step' = "stop"
    /\ UNCHANGED <<kind, stopped, outputBuf, output, process, pipes, monitor, input, sends>>

(* Mutant: the process is only killed on a second close. *)
CloseStopsWithoutKill ==
    /\ step = "stop"
    /\ stopped' = TRUE
    /\ step' = IF stopped THEN "kill" ELSE "idle"
    /\ UNCHANGED <<kind, state, outputBuf, output, process, pipes, monitor, input, sends, closes>>

CloseStops ==
    /\ step = "stop"
    /\ stopped' = TRUE
    /\ step' = IF stopped THEN "idle" ELSE "kill"
    /\ UNCHANGED <<kind, state, outputBuf, output, process, pipes, monitor, input, sends, closes>>

CloseKills ==
    /\ step = "kill"
    /\ proc' = IF proc = "running" THEN "killed" ELSE proc
    /\ step' = "idle"
    /\ UNCHANGED <<connection, handshake, written, pipes, monitor, input, sends, closes>>

-----------------------------------------------------------------------------
Reader(s) == ReaderChecks(s) \/ ReaderReads(s) \/ ReaderEnds(s) \/ ReaderStores(s)

Monitor == WaitReturns \/ MonitorMarksClosed

Copier == CopierCopies \/ CopierEnds

Close == CloseMarks \/ CloseStops \/ CloseKills

Transmit ==
    TransmitToPipe \/ TransmitToBuffer \/ TransmitFails \/ TransmitRefreshesOutput

Next ==
    \/ opensslClientRequest
    \/ clientConnectsWithProtocol
    \/ \E s \in Streams : ProcessWrites(s) \/ Reader(s)
    \/ HandshakeEnds
    \/ ProcessExits
    \/ KilledProcessExits
    \/ Monitor
    \/ Copier
    \/ Transmit
    \/ Close

(* Goroutines that can run do run; a killed process dies; a close step     *)
(* that has started is finished.  Nothing makes the process exit, the peer *)
(* answer or the scenario reach a close.                                   *)
Fairness ==
    /\ \A s \in Streams : WF_vars(Reader(s))
    /\ WF_vars(Monitor)
    /\ WF_vars(Copier)
    /\ WF_vars(KilledProcessExits)
    /\ WF_vars(CloseStops \/ CloseKills)

Spec == Init /\ [][Next]_vars /\ Fairness
-----------------------------------------------------------------------------
(* Properties *)

(* Where the chunks of a stream are in the output. *)
Positions(s) == {k \in DOMAIN output : output[k][1] = s}

(* Two readers share one buffer, and transmit reassigns Output: for each   *)
(* stream the output still is a prefix of what the process wrote, in the   *)
(* order it was written, with nothing skipped, repeated or invented.  Only *)
(* two things cut it short once its reader has ended: the step closed the  *)
(* connection, or cmd.Wait closed the pipes first                          *)
(* (cloud_steps.go:60-80, 269, 389-391).                                   *)
OutputFaithful ==
    \A s \in Streams :
        /\ \A k \in Positions(s) :
             output[k][2] = Cardinality({j \in Positions(s) : j <= k})
        /\ Cardinality(Positions(s)) <= written[s]
        /\ reader[s] = "done" /\ ~stopped /\ pipesOpen =>
             Cardinality(Positions(s)) = written[s]

(* Output is "all the data received from the connection so far"            *)
(* (cloud_steps.go:28): once the process has ended by itself and no reader *)
(* is at work, it is all that the process wrote.                           *)
OutputComplete ==
    /\ kind # "none" /\ state = "closed" /\ closes = 0
    /\ \A s \in Streams : reader[s] \in {"none", "done"}
    => \A s \in Streams : Cardinality(Positions(s)) = written[s]

(* A scenario that did not close the connection itself sees "closed" only  *)
(* once the process is gone, not while the service may still accept        *)
(* (cloud_steps.go:268-272; CCC-Core-CN01-AR01.feature:24).                *)
ClosedMeansGone ==
    kind # "none" /\ state = "closed" /\ closes = 0 => proc = "exited"

(* Closing leaves nothing behind: the process is gone and every goroutine  *)
(* of the connection ends, also when the first close races the process's   *)
(* own exit or a second close panics (cloud_steps.go:37-50, 64-78).        *)
CloseReleases ==
    closes > 0 ~> /\ proc = "exited"
                  /\ monitor = "done"
                  /\ \A s \in Streams : reader[s] \in {"none", "done"}

(* A process that ends by itself is noticed, and its readers end too       *)
(* (cloud_steps.go:268-274, 339-345).                                      *)
ExitNoticed ==
    proc = "exited" ~> /\ state = "closed"
                       /\ \A s \in Streams : reader[s] \in {"none", "done"}

(* The scenario "Service rejects TLS 1.2 traffic"                          *)
(* (CCC-Core-CN01-AR01.feature:20-24) takes a connection that is closed    *)
(* without having been closed by the test for a refused one: it should not *)
(* be one that the service accepted.                                       *)
ClosedMeansRefused ==
    kind = "openssl" /\ state = "closed" /\ closes = 0 => handshake # "accepted"
=============================================================================
