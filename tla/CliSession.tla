----------------------------- MODULE CliSession -----------------------------
(***************************************************************************)
(* One session of the CLI transport: a Client (transport/cli/client.go)    *)
(* in Shell or in Execute, its reader goroutine ioLoop, the connection,    *)
(* and the server's process goroutine with Stop (transport/cli/server.go). *)
(*                                                                         *)
(* A frame keeps its type, flag and sequence number, and a history field   *)
(* num: which getSequence call of the session it asks or answers.  Frames  *)
(* travel in order; a closed peer may cut off the ones not read yet.       *)
(***************************************************************************)
EXTENDS Naturals, Sequences, SequencesExt

CONSTANTS
    SeqLimit,      \* 2^16 in the code: Client.sequence is a uint16
    ChanCap,       \* capacity of commandChan and completerChan, 5 in the code
    MaxRequests    \* bound: getSequence calls of a session

ASSUME CliAssumption ==
    /\ SeqLimit \in Nat /\ SeqLimit >= 3
    /\ ChanCap \in Nat \ {0}
    /\ MaxRequests \in Nat

VARIABLES
    cpc,           \* where the goroutine of Shell or Execute is
    shell,         \* it runs Shell, not Execute
    sequence,      \* Client.sequence
    asked,         \* history: how many sequence numbers were drawn
    pending,       \* the request the goroutine waits for: its seq and num
    exit,          \* exitFlag set and exitChan closed
    ioLoop,        \* the reader goroutine: where it is and the frame it holds
    readyChan, commandChan, completerChan,
    clientOpen, serverOpen,     \* the two ends of the connection
    upstream, downstream,       \* frames in flight, to the server and to the client
    spc,           \* where the process goroutine is
    stored,        \* the connection is in ctxMap
    reply,         \* frames the current handler still writes
    failed,        \* the handler returns an error after them
    stopping,      \* Stop: "no", "closing" (listener closed), "done"
    tabs,          \* history: the completion requests sent, by num
    late,          \* history: completion requests given up after 5 s
    printed,       \* history: the request and the answer last printed together
    completed      \* history: likewise for completions, with late at that moment

clientVars == <<cpc, shell, sequence, asked, pending, exit>>
readerVars == <<ioLoop, readyChan, commandChan, completerChan>>
serverVars == <<spc, stored, reply, failed, stopping>>
cliHistory == <<tabs, late, printed, completed>>
cliVars == <<clientVars, readerVars, clientOpen, serverOpen, upstream, downstream,
             serverVars, cliHistory>>

NoFrame == [type |-> "none", flag |-> "complete", seq |-> 0, num |-> 0]
NoPair == [want |-> 0, got |-> 0]
NoCompletion == [want |-> 0, got |-> 0, late |-> 0]

CliInit ==
    /\ cpc = "start" /\ shell \in BOOLEAN
    /\ sequence = 0 /\ asked = 0
    /\ pending = [seq |-> 0, num |-> 0]
    /\ exit = FALSE
    /\ ioLoop = [pc |-> "off", frame |-> NoFrame]
    /\ readyChan = <<>> /\ commandChan = <<>> /\ completerChan = <<>>
    /\ clientOpen = FALSE /\ serverOpen = FALSE
    /\ upstream = <<>> /\ downstream = <<>>
    /\ spc = "off" /\ stored = FALSE /\ reply = <<>> /\ failed = FALSE
    /\ stopping = "no"
    /\ tabs = <<>> /\ late = 0
    /\ printed = NoPair /\ completed = NoCompletion

-----------------------------------------------------------------------------
(* The client's goroutine.                                                 *)

\* getSequence: one more, stepping over 0 when the 16 bits wrap.
NextSeq == IF (sequence + 1) % SeqLimit = 0 THEN 1 ELSE sequence + 1

\* A new request of type t, sent on the connection.
Ask(t) ==
    /\ asked < MaxRequests
    /\ asked' = asked + 1
    /\ sequence' = NextSeq
    /\ pending' = [seq |-> NextSeq, num |-> asked + 1]
    /\ upstream' = Append(upstream, [type |-> t, flag |-> "complete",
                                     seq |-> NextSeq, num |-> asked + 1])

\* Client.Close, by whoever is first.
ClientClose == exit' = TRUE /\ clientOpen' = FALSE

\* dialContext: the kernel completes the connection into the accept queue.
\* Execute asks for its command at once; Shell for the handshake.
Dial ==
    /\ cpc = "start" /\ stopping = "no"
    /\ Ask(IF shell THEN "handshake" ELSE "command")
    /\ cpc' = IF shell THEN "handshake" ELSE "wait"
    /\ clientOpen' = TRUE /\ serverOpen' = TRUE
    /\ ioLoop' = [ioLoop EXCEPT !.pc = "read"]
    /\ spc' = "queued"
    /\ UNCHANGED <<shell, exit, readyChan, commandChan, completerChan, downstream,
                   stored, reply, failed, stopping, cliHistory>>

DialFails ==
    /\ cpc = "start" /\ stopping # "no"
    /\ cpc' = "done"
    /\ UNCHANGED <<shell, sequence, asked, pending, exit, readerVars, clientOpen, serverOpen,
                   upstream, downstream, serverVars, cliHistory>>

\* Shell returns, through its deferred Close.
ShellReturns ==
    /\ cpc' = "done"
    /\ ClientClose
    /\ UNCHANGED <<shell, sequence, asked, pending, readerVars, serverOpen,
                   upstream, downstream, serverVars, cliHistory>>

\* Shell waits for readyChan or its context, and not for exitChan.
ShellReady ==
    /\ cpc = "handshake" /\ readyChan # <<>>
    /\ readyChan' = Tail(readyChan)
    /\ cpc' = "prompt"
    /\ UNCHANGED <<shell, sequence, asked, pending, exit, ioLoop, commandChan, completerChan,
                   clientOpen, serverOpen, upstream, downstream, serverVars, cliHistory>>

ShellCancelled == cpc = "handshake" /\ ShellReturns

\* The prompt ends the loop on exit, quit, an aborted line, a session already
\* closed, or a command that cannot be written.
PromptEnds == cpc = "prompt" /\ ShellReturns

PromptCommand ==
    /\ cpc = "prompt" /\ ~exit
    /\ Ask("command")
    /\ cpc' = "wait"
    /\ UNCHANGED <<shell, exit, readerVars, clientOpen, serverOpen, downstream,
                   serverVars, cliHistory>>

\* completer, called by the prompt on a tab.
TabPressed ==
    /\ cpc = "prompt" /\ ~exit
    /\ Ask("completer")
    /\ cpc' = "completing"
    /\ tabs' = Append(tabs, asked + 1)
    /\ UNCHANGED <<shell, exit, readerVars, clientOpen, serverOpen, downstream,
                   serverVars, late, printed, completed>>

\* On a connection already closed the completer's write fails: no suggestion.
TabFails ==
    /\ cpc = "prompt" /\ ~(clientOpen /\ serverOpen) /\ asked < MaxRequests
    /\ asked' = asked + 1 /\ sequence' = NextSeq
    /\ UNCHANGED <<cpc, shell, pending, exit, readerVars, clientOpen, serverOpen,
                   upstream, downstream, serverVars, cliHistory>>

\* The completer takes the next frame of completerChan, whatever its Seq.
CompleterTakes ==
    /\ cpc = "completing" /\ completerChan # <<>>
    /\ completed' = [want |-> pending.num, got |-> Head(completerChan).num, late |-> late]
    /\ completerChan' = Tail(completerChan)
    /\ cpc' = "prompt"
    /\ UNCHANGED <<shell, sequence, asked, pending, exit, ioLoop, readyChan, commandChan,
                   clientOpen, serverOpen, upstream, downstream, serverVars,
                   tabs, late, printed>>

CompleterTimesOut ==
    /\ cpc = "completing"
    /\ cpc' = "prompt"
    /\ late' = late + 1
    /\ UNCHANGED <<shell, sequence, asked, pending, exit, readerVars, clientOpen, serverOpen,
                   upstream, downstream, serverVars, tabs, printed, completed>>

\* waitResponse returns to Shell's prompt, or to Execute, which closes.
WaitReturns ==
    IF shell THEN cpc' = "prompt" /\ UNCHANGED <<exit, clientOpen>>
             ELSE cpc' = "done" /\ ClientClose

\* Mutant of Mine: waitResponse takes the next frame, as the completer does.
MineAny(f) == TRUE

\* waitResponse skips the frames of another Seq.
Mine(f) == f.seq = pending.seq

\* It prints its own frames, up to the complete one.
WaitTakes ==
    LET f == Head(commandChan) IN
    /\ cpc = "wait" /\ commandChan # <<>>
    /\ commandChan' = Tail(commandChan)
    /\ IF Mine(f)
       THEN /\ printed' = [want |-> pending.num, got |-> f.num]
            /\ IF f.flag = "complete" THEN WaitReturns
                                      ELSE UNCHANGED <<cpc, exit, clientOpen>>
       ELSE UNCHANGED <<printed, cpc, exit, clientOpen>>
    /\ UNCHANGED <<shell, sequence, asked, pending, ioLoop, readyChan, completerChan,
                   serverOpen, upstream, downstream, serverVars, tabs, late, completed>>

WaitGivesUp ==
    /\ WaitReturns
    /\ UNCHANGED <<shell, sequence, asked, pending, readerVars, serverOpen,
                   upstream, downstream, serverVars, cliHistory>>

WaitTimesOut == cpc = "wait" /\ WaitGivesUp

\* Mutant of WaitExit: waitResponse does not listen to exitChan.
WaitExitNever == FALSE

\* exitChan is closed.
WaitExit == cpc = "wait" /\ exit /\ WaitGivesUp

-----------------------------------------------------------------------------
(* ioLoop: one goroutine feeds the three channels, in arrival order.       *)

IoRead ==
    /\ ioLoop.pc = "read" /\ clientOpen /\ downstream # <<>>
    /\ ioLoop' = [pc |-> "put", frame |-> Head(downstream)]
    /\ downstream' = Tail(downstream)
    /\ UNCHANGED <<clientVars, readyChan, commandChan, completerChan, clientOpen, serverOpen,
                   upstream, serverVars, cliHistory>>

\* readFrame fails once either end is closed: ioLoop closes the session.
IoReadFails ==
    /\ ioLoop.pc = "read" /\ ~(clientOpen /\ serverOpen)
    /\ ioLoop' = [ioLoop EXCEPT !.pc = "done"]
    /\ ClientClose
    /\ UNCHANGED <<cpc, shell, sequence, asked, pending, readyChan, commandChan, completerChan,
                   serverOpen, upstream, downstream, serverVars, cliHistory>>

\* Mutant of Deliver: a frame that finds its channel full is dropped.
DeliverOrDrop(chan, cap, f) == chan' = IF Len(chan) < cap THEN Append(chan, f) ELSE chan

\* The send blocks while the channel is full.
Deliver(chan, cap, f) == Len(chan) < cap /\ chan' = Append(chan, f)

\* The frame held goes to the channel of its type.
IoPut ==
    LET f == ioLoop.frame IN
    /\ ioLoop.pc = "put"
    /\ \/ /\ f.type = "handshake" /\ Deliver(readyChan, 1, f)
          /\ UNCHANGED <<commandChan, completerChan>>
       \/ /\ f.type = "completer" /\ Deliver(completerChan, ChanCap, f)
          /\ UNCHANGED <<readyChan, commandChan>>
       \/ /\ f.type = "command" /\ Deliver(commandChan, ChanCap, f)
          /\ UNCHANGED <<readyChan, completerChan>>
    /\ ioLoop' = [pc |-> "read", frame |-> NoFrame]
    /\ UNCHANGED <<clientVars, clientOpen, serverOpen, upstream, downstream,
                   serverVars, cliHistory>>

IoExit ==
    /\ ioLoop.pc = "put" /\ exit
    /\ ioLoop' = [pc |-> "done", frame |-> NoFrame]
    /\ UNCHANGED <<clientVars, readyChan, commandChan, completerChan, clientOpen, serverOpen,
                   upstream, downstream, serverVars, cliHistory>>

-----------------------------------------------------------------------------
(* The server.                                                             *)

\* serve accepts the connection; process stores it in ctxMap a step later.
ServeAccept ==
    /\ spc = "queued" /\ stopping = "no"
    /\ spc' = "accepted"
    /\ UNCHANGED <<clientVars, readerVars, clientOpen, serverOpen, upstream, downstream,
                   stored, reply, failed, stopping, cliHistory>>

ProcessStore ==
    /\ spc = "accepted"
    /\ spc' = "read" /\ stored' = TRUE
    /\ UNCHANGED <<clientVars, readerVars, clientOpen, serverOpen, upstream, downstream,
                   reply, failed, stopping, cliHistory>>

\* What a handler may write for frame f: nothing (an empty payload makes no
\* frame), one answer in one or two chunks, or two answers; and it may fail.
\* A handshake or a list of completions fits in one chunk.
Outcomes(f) ==
    LET Answer(flags) == [i \in DOMAIN flags |-> [f EXCEPT !.flag = flags[i]]]
        written == IF f.type # "command" THEN {<<"complete">>}
                   ELSE {<<>>, <<"complete">>, <<"portion", "complete">>, <<"complete", "complete">>}
    IN  [frames : {Answer(flags) : flags \in written},
         fails : IF f.type = "command" THEN BOOLEAN ELSE {FALSE}]

\* process reads a frame; ctx.seq takes its Seq and so do the answers.
ProcessRead ==
    /\ spc = "read" /\ serverOpen /\ upstream # <<>>
    /\ \E o \in Outcomes(Head(upstream)) : reply' = o.frames /\ failed' = o.fails
    /\ upstream' = Tail(upstream)
    /\ spc' = "write"
    /\ UNCHANGED <<clientVars, readerVars, clientOpen, serverOpen, downstream,
                   stored, stopping, cliHistory>>

ProcessWrite ==
    /\ spc = "write" /\ serverOpen /\ reply # <<>>
    /\ downstream' = Append(downstream, Head(reply))
    /\ reply' = Tail(reply)
    /\ UNCHANGED <<clientVars, readerVars, clientOpen, serverOpen, upstream,
                   spc, stored, failed, stopping, cliHistory>>

ProcessAnswered ==
    /\ spc = "write" /\ reply = <<>> /\ ~failed
    /\ spc' = "read"
    /\ UNCHANGED <<clientVars, readerVars, clientOpen, serverOpen, upstream, downstream,
                   stored, reply, failed, stopping, cliHistory>>

\* The read loop ends when the handler failed, or a read or a write did: the
\* deferred function closes the connection and drops it from ctxMap.
ProcessEnds ==
    /\ \/ spc = "write" /\ failed /\ reply = <<>>
       \/ spc = "write" /\ reply # <<>> /\ ~(clientOpen /\ serverOpen)
       \/ spc = "read" /\ ~(clientOpen /\ serverOpen)
    /\ spc' = "done" /\ stored' = FALSE /\ reply' = <<>> /\ failed' = FALSE
    /\ serverOpen' = FALSE
    /\ UNCHANGED <<clientVars, readerVars, clientOpen, upstream, downstream, stopping,
                   cliHistory>>

\* Stop sets exitFlag and closes the listener, and what it had not accepted.
StopListener ==
    /\ stopping = "no"
    /\ stopping' = "closing"
    /\ IF spc = "queued" THEN spc' = "done" /\ serverOpen' = FALSE
                         ELSE UNCHANGED <<spc, serverOpen>>
    /\ UNCHANGED <<clientVars, readerVars, clientOpen, upstream, downstream,
                   stored, reply, failed, cliHistory>>

\* Then it closes every connection it finds in ctxMap.
StopRange ==
    /\ stopping = "closing"
    /\ stopping' = "done"
    /\ serverOpen' = (serverOpen /\ ~stored)
    /\ UNCHANGED <<clientVars, readerVars, clientOpen, upstream, downstream,
                   spc, stored, reply, failed, cliHistory>>

-----------------------------------------------------------------------------
ClientStep ==
    \/ Dial \/ DialFails \/ ShellReady \/ ShellCancelled \/ PromptEnds
    \/ PromptCommand \/ TabPressed \/ TabFails \/ CompleterTakes \/ CompleterTimesOut
    \/ WaitTakes \/ WaitTimesOut \/ WaitExit
IoStep == IoRead \/ IoReadFails \/ IoPut \/ IoExit
ProcessStep == ProcessStore \/ ProcessRead \/ ProcessWrite \/ ProcessAnswered \/ ProcessEnds
CliNext == ClientStep \/ IoStep \/ ServeAccept \/ ProcessStep \/ StopListener \/ StopRange

CliSpec == CliInit /\ [][CliNext]_cliVars

-----------------------------------------------------------------------------
(* Properties.                                                             *)

\* What waitResponse prints answers the command it waits for, or a command
\* whole turns of the sequence number earlier (SeqLimit - 1 numbers, as 0 is
\* skipped): late frames of a command given up are never taken for another's
\* sooner than that.
AnswerBelongs ==
    printed.want >= printed.got /\ (printed.want - printed.got) % (SeqLimit - 1) = 0

\* A completion lags by exactly the completions given up before it: the
\* completer shows its own answer until one of them has timed out, and after
\* that, for the rest of the session, the answer to an earlier line.
CompletionLag ==
    completed # NoCompletion =>
        \E i, j \in DOMAIN tabs :
            /\ tabs[i] = completed.want /\ tabs[j] = completed.got
            /\ i = j + completed.late

\* The complete answer to the pending command is on its way to the client.
Answered ==
    \E f \in Range(downstream) \cup Range(commandChan) \cup {ioLoop.frame} :
        f.type = "command" /\ f.flag = "complete" /\ f.seq = pending.seq

\* A command that was answered, or whose connection the server closed, stops
\* waiting without its timer, unless more completions than completerChan holds
\* were given up: their answers stop ioLoop in front of everything else.
WaitEnds ==
    (cpc = "wait" /\ (Answered \/ ~serverOpen) /\ late <= ChanCap) ~> (cpc # "wait")

=============================================================================
