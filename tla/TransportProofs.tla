--------------------------- MODULE TransportProofs ---------------------------
(***************************************************************************)
(* Proofs about the transports, each on its own: the CLI session, for any  *)
(* width of the sequence number, any channel capacity and any number of    *)
(* requests; the NATS broker, for any topics and any number of connection  *)
(* attempts; service discovery, for any instances, etcd members and number *)
(* of revisions; and the CLI router, for any paths and words and any       *)
(* number of registrations.                                                *)
(***************************************************************************)
EXTENDS CliSession, CliRouter, Broker, Discovery,
        FiniteSetTheorems, SequenceTheorems, WellFoundedInduction, TLAPS

-----------------------------------------------------------------------------
(* Sequence numbers.                                                       *)

\* How many requests draw numbers before the first one comes again.
Turns == SeqLimit - 1

\* The n-th request of a session draws the sequence number s.
Draws(s, n) == s \in 1..Turns /\ \E t \in Nat : n = s + t * Turns

\* Whole turns leave no remainder.
LEMMA WholeTurns ==
    ASSUME NEW m \in Nat \ {0}, NEW k \in Nat
    PROVE  (k * m) % m = 0
<1> DEFINE x == k * m
           r == x % m
           q == x \div m
<1>1. x \in Nat
  OBVIOUS
<1>. HIDE DEF x
<1>2. r \in Nat /\ q \in Nat /\ r < m /\ x = m * q + r
  BY <1>1
<1>. HIDE DEF r, q
<1>3. (k - q) * m = r
  BY <1>2 DEF x
<1>4. DEFINE d == k - q
<1>5. d \in Int /\ d * m = r
  BY <1>2, <1>3
<1>. HIDE DEF d
<1>6. CASE d >= 1
  <2>1. d * m >= m
    BY <1>5, <1>6
  <2>. QED
    BY <1>2, <1>5, <2>1
<1>7. CASE d <= -1
  <2>1. d * m <= -m
    BY <1>5, <1>7
  <2>. QED
    BY <1>2, <1>5, <2>1
<1>8. CASE d = 0
  BY <1>2, <1>5, <1>8 DEF r, x
<1>. QED
  BY <1>5, <1>6, <1>7, <1>8

\* Two requests that drew the same number are whole turns apart.
LEMMA SameNumber ==
    ASSUME NEW s, NEW a \in Nat, NEW b \in Nat, Draws(s, a), Draws(s, b), a >= b
    PROVE  (a - b) % Turns = 0
<1>1. Turns \in Nat \ {0}
  BY CliAssumption DEF Turns
<1>2. PICK t \in Nat : a = s + t * Turns
  BY DEF Draws
<1>3. PICK u \in Nat : b = s + u * Turns
  BY DEF Draws
<1>4. s \in Int
  BY <1>1 DEF Draws
<1>. DEFINE m == Turns
<1>. HIDE DEF m
<1>5. a - b = (t - u) * m /\ m \in Nat \ {0}
  BY <1>1, <1>2, <1>3, <1>4 DEF m
<1>6. t - u \in Nat
  <2>1. SUFFICES ASSUME t - u <= -1 PROVE FALSE
    BY <1>2, <1>3
  <2>2. DEFINE d == t - u
  <2>3. d \in Int /\ d <= -1 /\ d * m >= 0
    BY <1>5, <2>1
  <2>. HIDE DEF d
  <2>. QED
    BY <1>5, <2>3
<1>. QED
  BY <1>5, <1>6, WholeTurns DEF m

\* getSequence steps to the next number, over 0.
LEMMA NextDraw ==
    ASSUME asked \in Nat, (asked = 0 /\ sequence = 0) \/ Draws(sequence, asked)
    PROVE  Draws(NextSeq, asked + 1)
<1>1. Turns \in Nat \ {0, 1} /\ SeqLimit = Turns + 1
  BY CliAssumption DEF Turns
<1>2. CASE asked = 0 /\ sequence = 0
  <2>1. NextSeq = 1
    BY <1>1, <1>2 DEF NextSeq
  <2>2. asked + 1 = 1 + 0 * Turns
    BY <1>1, <1>2
  <2>. QED
    BY <1>1, <2>1, <2>2 DEF Draws
<1>3. CASE Draws(sequence, asked)
  <2>1. PICK t \in Nat : asked = sequence + t * Turns
    BY <1>3 DEF Draws
  <2>2. sequence \in 1..Turns
    BY <1>3 DEF Draws
  <2>3. CASE sequence = Turns
    <3>1. NextSeq = 1
      BY <1>1, <2>3 DEF NextSeq
    <3>2. asked + 1 = 1 + (t + 1) * Turns
      BY <1>1, <2>1, <2>3
    <3>3. t + 1 \in Nat /\ 1 \in 1..Turns
      BY <1>1
    <3>4. \E u \in Nat : asked + 1 = 1 + u * Turns
      BY <3>2, <3>3, Zenon
    <3>. QED
      BY <3>1, <3>3, <3>4, Zenon DEF Draws
  <2>4. CASE sequence # Turns
    <3>1. NextSeq = sequence + 1
      BY <1>1, <2>2, <2>4 DEF NextSeq
    <3>2. asked + 1 = NextSeq + t * Turns
      BY <1>1, <2>1, <2>2, <3>1
    <3>. QED
      BY <1>1, <2>2, <2>4, <3>1, <3>2 DEF Draws
  <2>. QED
    BY <2>3, <2>4
<1>. QED
  BY <1>2, <1>3

-----------------------------------------------------------------------------
(* Answers belong to their commands.                                       *)

\* A frame of a request that was made, with the number it drew.
Frame == [type : {"handshake", "command", "completer"}, flag : {"portion", "complete"},
          seq : Nat, num : Nat]
Sent == {f \in Frame : f.num \in 1..asked /\ Draws(f.seq, f.num)}

\* Wherever frames are, they are frames of requests made; whoever waits for a
\* command waits for the last request made.
FramesInv ==
    /\ asked \in Nat
    /\ (asked = 0 /\ sequence = 0) \/ Draws(sequence, asked)
    /\ cpc = "wait" => pending.num = asked /\ Draws(pending.seq, asked)
    /\ upstream \in Seq(Sent) /\ reply \in Seq(Sent) /\ downstream \in Seq(Sent)
    /\ commandChan \in Seq(Sent)
    /\ ioLoop.pc = "put" => ioLoop.frame \in Sent

\* More requests, and the frames stay good.
LEMMA SentGrows ==
    ASSUME asked \in Nat, asked' \in Nat, asked <= asked'
    PROVE  Sent \subseteq Sent' /\ \A q : q \in Seq(Sent) => q \in Seq(Sent')
<1>1. Sent \subseteq Sent'
  BY DEF Sent, Draws, Turns
<1>2. ASSUME NEW q, q \in Seq(Sent)
      PROVE  q \in Seq(Sent')
  BY <1>1, <1>2
<1>. QED
  BY <1>1, <1>2

\* A request adds its frame.
LEMMA AskKeeps ==
    ASSUME FramesInv, NEW t \in {"handshake", "command", "completer"}, Ask(t)
    PROVE  /\ asked' \in Nat /\ asked <= asked' /\ Draws(sequence', asked')
           /\ pending'.num = asked' /\ Draws(pending'.seq, asked')
           /\ upstream' \in Seq(Sent')
<1>1. /\ asked' = asked + 1 /\ sequence' = NextSeq
      /\ pending' = [seq |-> NextSeq, num |-> asked + 1]
      /\ upstream' = Append(upstream, [type |-> t, flag |-> "complete",
                                       seq |-> NextSeq, num |-> asked + 1])
  BY DEF Ask
<1>2. asked \in Nat /\ upstream \in Seq(Sent)
  BY DEF FramesInv
<1>3. Draws(NextSeq, asked + 1)
  BY NextDraw DEF FramesInv
<1>4. NextSeq \in Nat
  <2>1. Turns \in Nat
    BY CliAssumption DEF Turns
  <2>. QED
    BY <1>3, <2>1 DEF Draws
<1> DEFINE s == NextSeq
           f == [type |-> t, flag |-> "complete", seq |-> s, num |-> asked + 1]
<1>. HIDE DEF s
<1>5. f \in Frame /\ f.num = asked' /\ f.seq = s /\ asked' \in 1..asked'
  BY <1>1, <1>2, <1>4 DEF Frame, s
<1>6. upstream' = Append(upstream, f) /\ Draws(f.seq, f.num) /\ Draws(s, asked')
  BY <1>1, <1>3, <1>5 DEF s
<1>. HIDE DEF f
<1>7. f \in Sent'
  BY <1>5, <1>6 DEF Sent, Draws, Turns
<1>8. upstream \in Seq(Sent')
  BY <1>1, <1>2, SentGrows
<1>9. upstream' \in Seq(Sent')
  BY <1>6, <1>7, <1>8, AppendProperties
<1>. QED
  BY <1>1, <1>2, <1>6, <1>9 DEF s

\* A step that draws no number and moves good frames about.
LEMMA QuietFrames ==
    ASSUME FramesInv, UNCHANGED <<asked, sequence>>,
           cpc' = "wait" => cpc = "wait" /\ pending' = pending,
           upstream' \in Seq(Sent), reply' \in Seq(Sent), downstream' \in Seq(Sent),
           commandChan' \in Seq(Sent),
           ioLoop'.pc = "put" => ioLoop'.frame \in Sent
    PROVE  FramesInv'
<1>1. Sent' = Sent
  BY DEF Sent, Draws, Turns
<1>2. /\ Draws(sequence, asked)' <=> Draws(sequence, asked)
      /\ pending' = pending => (Draws(pending.seq, asked)' <=> Draws(pending.seq, asked))
  BY DEF Draws, Turns
<1>. QED
  BY <1>1, <1>2 DEF FramesInv

\* A step that draws a number, and sends at most its frame.
LEMMA DrawFrames ==
    ASSUME FramesInv, asked' \in Nat, asked <= asked', Draws(sequence', asked'),
           cpc' = "wait" => pending'.num = asked' /\ Draws(pending'.seq, asked'),
           upstream' \in Seq(Sent'), UNCHANGED <<reply, downstream, commandChan>>,
           ioLoop'.pc = "put" => ioLoop' = ioLoop
    PROVE  FramesInv'
<1>1. Sent \subseteq Sent' /\ \A q : q \in Seq(Sent) => q \in Seq(Sent')
  BY SentGrows DEF FramesInv
<1>2. reply' \in Seq(Sent') /\ downstream' \in Seq(Sent') /\ commandChan' \in Seq(Sent')
  BY <1>1 DEF FramesInv
<1>3. ioLoop'.pc = "put" => ioLoop'.frame \in Sent'
  BY <1>1 DEF FramesInv
<1>4. Draws(sequence, asked)' /\ (cpc' = "wait" => Draws(pending.seq, asked)')
  BY DEF Draws, Turns
<1>. QED
  BY <1>2, <1>3, <1>4 DEF FramesInv

\* What a handler writes are frames of the request it answers.
LEMMA OutcomesSent ==
    ASSUME NEW f \in Sent, NEW o \in Outcomes(f)
    PROVE  /\ o.frames \in Seq(Sent)
           /\ \A i \in 1..Len(o.frames) : o.frames[i].type = f.type /\ o.frames[i].num = f.num
           /\ f.type # "command" => Len(o.frames) = 1
<1> DEFINE Answer(flags) == [i \in DOMAIN flags |-> [f EXCEPT !.flag = flags[i]]]
           written == IF f.type # "command" THEN {<<"complete">>}
                      ELSE {<<>>, <<"complete">>, <<"portion", "complete">>, <<"complete", "complete">>}
<1>1. PICK flags \in written : o.frames = Answer(flags)
  BY Zenon DEF Outcomes
<1>2. flags \in Seq({"portion", "complete"}) /\ (f.type # "command" => Len(flags) = 1)
  <2>1. /\ flags \in {<<>>, <<"complete">>, <<"portion", "complete">>, <<"complete", "complete">>}
        /\ f.type # "command" => flags = <<"complete">>
    BY <1>1, Zenon
  <2> DEFINE S == {"portion", "complete"}
  <2>2. <<>> \in Seq(S) /\ <<"complete">> \in Seq(S) /\ Len(<<"complete">>) = 1
    OBVIOUS
  <2>3. <<"portion", "complete">> \in Seq(S) /\ <<"complete", "complete">> \in Seq(S)
    OBVIOUS
  <2>. QED
    BY <2>1, <2>2, <2>3, Zenon
<1>3. DOMAIN flags = 1..Len(flags) /\ Len(flags) \in Nat
      /\ \A i \in 1..Len(flags) : flags[i] \in {"portion", "complete"}
  BY <1>2, LenProperties
<1>. HIDE DEF written
<1>4. \A g \in {"portion", "complete"} :
         LET h == [f EXCEPT !.flag = g] IN h \in Sent /\ h.type = f.type /\ h.num = f.num
  BY DEF Sent, Frame
<1>5. Answer(flags) \in [1..Len(flags) -> Sent]
  BY <1>3, <1>4
<1>6. Answer(flags) \in Seq(Sent) /\ Len(Answer(flags)) = Len(flags)
  BY <1>3, <1>5
<1>7. \A i \in 1..Len(flags) : Answer(flags)[i].type = f.type /\ Answer(flags)[i].num = f.num
  BY <1>3, <1>4
<1>. HIDE DEF Answer
<1>. QED
  BY <1>1, <1>2, <1>6, <1>7

\* Every step keeps the frames good.
LEMMA NextFrames ==
    ASSUME FramesInv, [CliNext]_cliVars
    PROVE  FramesInv'
<1> USE DEF clientVars, readerVars, serverVars, cliHistory
<1>0. /\ upstream \in Seq(Sent) /\ reply \in Seq(Sent) /\ downstream \in Seq(Sent)
      /\ commandChan \in Seq(Sent) /\ (ioLoop.pc = "put" => ioLoop.frame \in Sent)
      /\ asked \in Nat
  BY DEF FramesInv
<1>1. CASE Dial
  <2>1. /\ Ask(IF shell THEN "handshake" ELSE "command")
        /\ UNCHANGED <<reply, downstream, commandChan>> /\ ioLoop' = [ioLoop EXCEPT !.pc = "read"]
    BY <1>1 DEF Dial
  <2>2. PICK t \in {"handshake", "command", "completer"} : Ask(t)
    BY <2>1
  <2>3. ioLoop'.pc # "put" \/ ioLoop' = ioLoop
    BY <2>1
  <2>. QED
    BY <2>1, <2>2, <2>3, AskKeeps, DrawFrames
<1>2. CASE PromptCommand
  <2>1. /\ Ask("command") /\ UNCHANGED <<reply, downstream, commandChan, ioLoop>>
    BY <1>2 DEF PromptCommand
  <2>. QED
    BY <2>1, AskKeeps, DrawFrames
<1>3. CASE TabPressed
  <2>1. /\ Ask("completer") /\ UNCHANGED <<reply, downstream, commandChan, ioLoop>>
    BY <1>3 DEF TabPressed
  <2>. QED
    BY <2>1, AskKeeps, DrawFrames
<1>4. CASE TabFails
  <2>1. /\ asked' = asked + 1 /\ sequence' = NextSeq /\ cpc' # "wait"
        /\ UNCHANGED <<upstream, reply, downstream, commandChan, ioLoop>>
    BY <1>4 DEF TabFails
  <2>2. Draws(sequence', asked')
    BY <2>1, NextDraw DEF FramesInv
  <2>3. asked' \in Nat /\ asked <= asked'
    BY <1>0, <2>1
  <2>4. upstream' \in Seq(Sent')
    BY <1>0, <2>1, <2>3, SentGrows
  <2>. QED
    BY <2>1, <2>2, <2>3, <2>4, DrawFrames
<1>5. CASE WaitTakes
  <2>1. /\ UNCHANGED <<asked, sequence, pending, upstream, reply, downstream, ioLoop>>
        /\ commandChan # <<>> /\ commandChan' = Tail(commandChan) /\ cpc = "wait"
    BY <1>5 DEF WaitTakes
  <2>2. commandChan' \in Seq(Sent)
    BY <1>0, <2>1, HeadTailProperties
  <2>. QED
    BY <1>0, <2>1, <2>2, QuietFrames
<1>6. CASE IoRead
  <2>1. /\ UNCHANGED <<asked, sequence, pending, cpc, upstream, reply, commandChan>>
        /\ downstream # <<>> /\ downstream' = Tail(downstream)
        /\ ioLoop'.frame = Head(downstream)
    BY <1>6 DEF IoRead
  <2>2. downstream' \in Seq(Sent) /\ ioLoop'.frame \in Sent
    BY <1>0, <2>1, HeadTailProperties
  <2>. QED
    BY <1>0, <2>1, <2>2, QuietFrames
<1>7. CASE IoPut
  <2>1. /\ UNCHANGED <<asked, sequence, pending, cpc, upstream, reply, downstream>>
        /\ ioLoop.pc = "put" /\ ioLoop'.pc = "read"
        /\ commandChan' = commandChan \/ commandChan' = Append(commandChan, ioLoop.frame)
    BY <1>7 DEF IoPut, Deliver
  <2>2. commandChan' \in Seq(Sent)
    BY <1>0, <2>1, AppendProperties, ZenonT(60)
  <2>. QED
    BY <1>0, <2>1, <2>2, QuietFrames
<1>8. CASE ProcessRead
  <2>1. /\ UNCHANGED <<asked, sequence, pending, cpc, commandChan, downstream, ioLoop>>
        /\ upstream # <<>> /\ upstream' = Tail(upstream)
        /\ \E o \in Outcomes(Head(upstream)) : reply' = o.frames
    BY <1>8 DEF ProcessRead
  <2>2. upstream' \in Seq(Sent) /\ Head(upstream) \in Sent
    BY <1>0, <2>1, HeadTailProperties
  <2>3. reply' \in Seq(Sent)
    BY <2>1, <2>2, OutcomesSent
  <2>. QED
    BY <1>0, <2>1, <2>2, <2>3, QuietFrames
<1>9. CASE ProcessWrite
  <2>1. /\ UNCHANGED <<asked, sequence, pending, cpc, commandChan, upstream, ioLoop>>
        /\ reply # <<>> /\ reply' = Tail(reply) /\ downstream' = Append(downstream, Head(reply))
    BY <1>9 DEF ProcessWrite
  <2>2. reply' \in Seq(Sent) /\ Head(reply) \in Sent
    BY <1>0, <2>1, HeadTailProperties
  <2>3. downstream' \in Seq(Sent)
    BY <1>0, <2>1, <2>2, AppendProperties
  <2>. QED
    BY <1>0, <2>1, <2>2, <2>3, QuietFrames
<1>10. CASE \/ DialFails \/ ShellReady \/ ShellCancelled \/ PromptEnds \/ CompleterTakes
            \/ CompleterTimesOut \/ WaitTimesOut \/ WaitExit
  <2>1. UNCHANGED <<asked, sequence, pending, upstream, reply, downstream, commandChan, ioLoop>>
    BY <1>10 DEF DialFails, ShellReady, ShellCancelled, PromptEnds, ShellReturns, CompleterTakes,
                 CompleterTimesOut, WaitTimesOut, WaitExit, WaitGivesUp
  <2>2. cpc' # "wait"
    BY <1>10 DEF DialFails, ShellReady, ShellCancelled, PromptEnds, ShellReturns, CompleterTakes,
                 CompleterTimesOut, WaitTimesOut, WaitExit, WaitGivesUp, WaitReturns
  <2>. QED
    BY <1>0, <2>1, <2>2, QuietFrames
<1>11. CASE IoReadFails \/ IoExit
  <2>1. /\ UNCHANGED <<asked, sequence, pending, cpc, upstream, reply, downstream, commandChan>>
        /\ ioLoop'.pc # "put" \/ ioLoop' = ioLoop
    <3>1. CASE IoReadFails
      BY <3>1 DEF IoReadFails
    <3>2. CASE IoExit
      BY <3>2 DEF IoExit
    <3>. QED
      BY <1>11, <3>1, <3>2
  <2>. QED
    BY <1>0, <2>1, QuietFrames
<1>12. CASE ServeAccept \/ ProcessStore \/ ProcessAnswered \/ ProcessEnds \/ StopListener \/ StopRange
  <2>1. /\ UNCHANGED <<asked, sequence, pending, cpc, upstream, downstream, commandChan, ioLoop>>
        /\ reply' = reply \/ reply' = <<>>
    BY <1>12 DEF ServeAccept, ProcessStore, ProcessAnswered, ProcessEnds, StopListener, StopRange
  <2>2. reply' \in Seq(Sent)
    BY <1>0, <2>1, EmptySeq
  <2>. QED
    BY <1>0, <2>1, <2>2, QuietFrames
<1>13. CASE UNCHANGED cliVars
  <2>1. UNCHANGED <<asked, sequence, pending, cpc, upstream, downstream, reply, commandChan, ioLoop>>
    BY <1>13 DEF cliVars
  <2>. QED
    BY <1>0, <2>1, QuietFrames
<1>. QED
  BY <1>1, <1>2, <1>3, <1>4, <1>5, <1>6, <1>7, <1>8, <1>9, <1>10, <1>11, <1>12, <1>13
     DEF CliNext, ClientStep, IoStep, ProcessStep

\* A session begins without frames.
LEMMA InitFrames == CliInit => FramesInv
BY EmptySeq DEF CliInit, FramesInv

\* What waitResponse prints answers the command it waits for, or one whole turns
\* of the sequence number earlier: for any width of the sequence number.
THEOREM AnswerTheorem == CliSpec => []AnswerBelongs
<1>1. CliInit => FramesInv /\ AnswerBelongs
  <2>. SUFFICES ASSUME CliInit PROVE FramesInv /\ AnswerBelongs
    OBVIOUS
  <2>1. FramesInv
    BY InitFrames
  <2>2. AnswerBelongs
    <3>1. printed.want = 0 /\ printed.got = 0
      BY DEF CliInit, NoPair
    <3>2. 0 % (SeqLimit - 1) = 0
      BY CliAssumption
    <3>. QED
      BY <3>1, <3>2 DEF AnswerBelongs
  <2>. QED
    BY <2>1, <2>2
<1>2. FramesInv /\ AnswerBelongs /\ [CliNext]_cliVars => FramesInv' /\ AnswerBelongs'
  <2>. SUFFICES ASSUME FramesInv, AnswerBelongs, [CliNext]_cliVars
                PROVE  FramesInv' /\ AnswerBelongs'
    OBVIOUS
  <2>1. FramesInv'
    BY NextFrames
  <2>2. CASE printed' = printed
    BY <2>1, <2>2 DEF AnswerBelongs
  <2>3. CASE WaitTakes /\ Mine(Head(commandChan))
    <3> DEFINE f == Head(commandChan)
    <3>1. /\ cpc = "wait" /\ commandChan # <<>>
          /\ printed' = [want |-> pending.num, got |-> f.num]
      BY <2>3 DEF WaitTakes
    <3>2. f \in Sent /\ f.seq = pending.seq
      BY <2>3, <3>1, HeadTailProperties DEF FramesInv, Mine
    <3>3. printed'.want = asked /\ printed'.got = f.num /\ asked \in Nat
      BY <3>1 DEF FramesInv
    <3>. HIDE DEF f
    <3>4. /\ Draws(f.seq, asked) /\ Draws(f.seq, f.num) /\ f.num \in Nat /\ asked >= f.num
      BY <3>1, <3>2, <3>3 DEF FramesInv, Sent, Frame
    <3>5. (asked - f.num) % Turns = 0
      BY <3>3, <3>4, SameNumber
    <3>. QED
      BY <2>1, <3>3, <3>4, <3>5 DEF AnswerBelongs, Turns
  <2>4. CASE ~(WaitTakes /\ Mine(Head(commandChan)))
    <3>1. ASSUME WaitTakes PROVE printed' = printed
      BY <2>4, <3>1 DEF WaitTakes
    <3>2. ASSUME CliNext, ~WaitTakes PROVE printed' = printed
      <4>1. CASE ClientStep
        BY <3>2, <4>1 DEF ClientStep, Dial, DialFails, ShellReady, ShellCancelled, PromptEnds,
             ShellReturns, PromptCommand, TabPressed, TabFails, CompleterTakes, CompleterTimesOut,
             WaitTimesOut, WaitExit, WaitGivesUp, cliHistory
      <4>2. CASE IoStep
        BY <4>2 DEF IoStep, IoRead, IoReadFails, IoPut, IoExit, cliHistory
      <4>3. CASE ServeAccept \/ ProcessStep \/ StopListener \/ StopRange
        BY <4>3 DEF ServeAccept, ProcessStep, ProcessStore, ProcessRead, ProcessWrite,
             ProcessAnswered, ProcessEnds, StopListener, StopRange, cliHistory
      <4>. QED
        BY <3>2, <4>1, <4>2, <4>3 DEF CliNext
    <3>3. ASSUME UNCHANGED cliVars PROVE printed' = printed
      BY <3>3 DEF cliVars, cliHistory
    <3>. QED
      BY <2>1, <2>2, <3>1, <3>2, <3>3
  <2>. QED
    BY <2>3, <2>4
<1>. QED
  BY <1>1, <1>2, PTL DEF CliSpec

-----------------------------------------------------------------------------
(* Completions lag by the ones given up.                                   *)

Tab(f) == f.type = "completer"

\* The line of frames P holds the completions of T after the first b, in order
\* and with no gap in front of any of them.
InLine(P, b, T) ==
    \A i \in 1..Len(P) : Tab(P[i]) =>
        \E p \in (b + 1)..Len(T) :
            /\ T[p] = P[i].num
            /\ \A r \in (b + 1)..(p - 1) :
                 \E j \in 1..(i - 1) : Tab(P[j]) /\ P[j].num = T[r]
Rising(P) ==
    \A i, j \in 1..Len(P) : (i < j /\ Tab(P[i]) /\ Tab(P[j])) => P[i].num < P[j].num

\* And it holds them all.
AllInLine(P, b, T) ==
    \A r \in (b + 1)..Len(T) : \E j \in 1..Len(P) : Tab(P[j]) /\ P[j].num = T[r]
Ascending(T) == \A i, j \in 1..Len(T) : i < j => T[i] < T[j]

\* What has been cut off behind a line does not matter to it.
LEMMA CutLine ==
    ASSUME NEW P, NEW Q, NEW b \in Nat, NEW T, Len(T) \in Nat, Len(P) \in Nat, Len(Q) \in Nat,
           Len(Q) <= Len(P), \A i \in 1..Len(Q) : Q[i] = P[i],
           InLine(P, b, T), Rising(P)
    PROVE  InLine(Q, b, T) /\ Rising(Q)
<1>1. \A i \in 1..Len(Q) : i \in 1..Len(P) /\ \A j \in 1..(i - 1) : j \in 1..Len(Q)
  OBVIOUS
<1>2. Rising(Q)
  BY <1>1 DEF Rising
<1>3. InLine(Q, b, T)
  <2>. SUFFICES ASSUME NEW i \in 1..Len(Q), Tab(Q[i])
                PROVE  \E p \in (b + 1)..Len(T) :
                         /\ T[p] = Q[i].num
                         /\ \A r \in (b + 1)..(p - 1) :
                              \E j \in 1..(i - 1) : Tab(Q[j]) /\ Q[j].num = T[r]
    BY DEF InLine
  <2>1. i \in 1..Len(P) /\ Q[i] = P[i]
    BY <1>1
  <2>2. PICK p \in (b + 1)..Len(T) :
            /\ T[p] = P[i].num
            /\ \A r \in (b + 1)..(p - 1) :
                 \E j \in 1..(i - 1) : Tab(P[j]) /\ P[j].num = T[r]
    BY <2>1 DEF InLine
  <2>3. \A j \in 1..(i - 1) : Q[j] = P[j]
    BY <1>1
  <2>. QED
    BY <2>1, <2>2, <2>3, ZenonT(60)
<1>. QED
  BY <1>2, <1>3

\* The first frame leaves the line.
LEMMA FirstLeaves ==
    ASSUME NEW P, NEW Q, NEW b \in Nat, NEW T, Len(T) \in Nat, Len(P) \in Nat \ {0},
           Len(Q) = Len(P) - 1, \A i \in 1..Len(Q) : Q[i] = P[i + 1],
           InLine(P, b, T), Rising(P), Ascending(T), \A i \in 1..Len(T) : T[i] \in Nat,
           \A i \in 1..Len(P) : P[i].num \in Nat,
           NEW c \in Nat, c = IF Tab(P[1]) THEN b + 1 ELSE b
    PROVE  /\ InLine(Q, c, T) /\ Rising(Q)
           /\ AllInLine(P, b, T) => AllInLine(Q, c, T)
           /\ Tab(P[1]) => c <= Len(T) /\ P[1].num = T[c]
<1>0. Len(Q) \in Nat
  OBVIOUS
<1>1. Rising(Q)
  <2>. SUFFICES ASSUME NEW i \in 1..Len(Q), NEW j \in 1..Len(Q), i < j, Tab(Q[i]), Tab(Q[j])
                PROVE  Q[i].num < Q[j].num
    BY DEF Rising
  <2>1. i + 1 \in 1..Len(P) /\ j + 1 \in 1..Len(P) /\ i + 1 < j + 1
    BY <1>0
  <2>. QED
    BY <2>1 DEF Rising
<1>2. ASSUME Tab(P[1])
      PROVE  c <= Len(T) /\ P[1].num = T[c]
  <2>1. 1 \in 1..Len(P)
    OBVIOUS
  <2>2. PICK p \in (b + 1)..Len(T) :
            /\ T[p] = P[1].num
            /\ \A r \in (b + 1)..(p - 1) :
                 \E j \in 1..(1 - 1) : Tab(P[j]) /\ P[j].num = T[r]
    BY <1>2, <2>1 DEF InLine
  <2>3. p = b + 1
    <3>1. SUFFICES ASSUME p # b + 1 PROVE FALSE
      OBVIOUS
    <3>2. b + 1 \in (b + 1)..(p - 1)
      BY <3>1
    <3>. QED
      BY <2>2, <3>2
  <2>. QED
    BY <1>2, <2>2, <2>3
\* A completion of T after the first c that is somewhere in P is in Q.
<1>3. ASSUME NEW r \in (c + 1)..Len(T), NEW j \in 1..Len(P), Tab(P[j]), P[j].num = T[r]
      PROVE  j - 1 \in 1..Len(Q) /\ Tab(Q[j - 1]) /\ Q[j - 1].num = T[r]
  <2>1. j # 1
    <3>1. SUFFICES ASSUME j = 1 PROVE FALSE
      OBVIOUS
    <3>2. Tab(P[1]) /\ P[1].num = T[r]
      BY <1>3, <3>1
    <3>3. T[c] = T[r] /\ c \in 1..Len(T) /\ r \in 1..Len(T) /\ c < r
      BY <1>2, <3>2
    <3>4. T[c] < T[r]
      BY <3>3, Zenon DEF Ascending
    <3>. QED
      BY <1>2, <3>2, <3>3, <3>4
  <2>2. j - 1 \in 1..Len(Q)
    BY <1>0, <2>1
  <2>3. Q[j - 1] = P[j]
    BY <2>2
  <2>. QED
    BY <1>3, <2>2, <2>3
<1>4. AllInLine(P, b, T) => AllInLine(Q, c, T)
  <2>. SUFFICES ASSUME AllInLine(P, b, T), NEW r \in (c + 1)..Len(T)
                PROVE  \E j \in 1..Len(Q) : Tab(Q[j]) /\ Q[j].num = T[r]
    BY DEF AllInLine
  <2>1. r \in (b + 1)..Len(T)
    OBVIOUS
  <2>2. PICK j \in 1..Len(P) : Tab(P[j]) /\ P[j].num = T[r]
    BY <2>1 DEF AllInLine
  <2>. QED
    BY <1>3, <2>2
<1>5. InLine(Q, c, T)
  <2>. SUFFICES ASSUME NEW i \in 1..Len(Q), Tab(Q[i])
                PROVE  \E p \in (c + 1)..Len(T) :
                         /\ T[p] = Q[i].num
                         /\ \A r \in (c + 1)..(p - 1) :
                              \E j \in 1..(i - 1) : Tab(Q[j]) /\ Q[j].num = T[r]
    BY DEF InLine
  <2>1. i + 1 \in 1..Len(P) /\ Q[i] = P[i + 1] /\ 1 \in 1..Len(P) /\ 1 < i + 1
    BY <1>0
  <2>2. PICK p \in (b + 1)..Len(T) :
            /\ T[p] = P[i + 1].num
            /\ \A r \in (b + 1)..(p - 1) :
                 \E j \in 1..((i + 1) - 1) : Tab(P[j]) /\ P[j].num = T[r]
    BY <2>1 DEF InLine
  <2>3. p \in (c + 1)..Len(T)
    <3>1. CASE Tab(P[1])
      <4>1. P[1].num < P[i + 1].num
        BY <2>1, <3>1 DEF Rising
      <4>2. T[b + 1] < T[p]
        BY <1>2, <2>2, <3>1, <4>1
      <4>3. p # b + 1
        BY <4>2, <2>1, <2>2
      <4>. QED
        BY <3>1, <4>3
    <3>2. CASE ~Tab(P[1])
      BY <3>2
    <3>. QED
      BY <3>1, <3>2
  <2>4. ASSUME NEW r \in (c + 1)..(p - 1)
        PROVE  \E j \in 1..(i - 1) : Tab(Q[j]) /\ Q[j].num = T[r]
    <3>1. r \in (b + 1)..(p - 1) /\ r \in (c + 1)..Len(T)
      BY <2>3
    <3>2. PICK j \in 1..((i + 1) - 1) : Tab(P[j]) /\ P[j].num = T[r]
      BY <2>2, <3>1
    <3>3. j \in 1..Len(P)
      BY <2>1
    <3>4. j - 1 \in 1..Len(Q) /\ Tab(Q[j - 1]) /\ Q[j - 1].num = T[r]
      BY <1>3, <3>1, <3>2, <3>3
    <3>5. j - 1 \in 1..(i - 1)
      BY <3>4
    <3>. QED
      BY <3>4, <3>5
  <2>. QED
    BY <2>1, <2>2, <2>3, <2>4
<1>. QED
  BY <1>1, <1>2, <1>4, <1>5

\* A frame joins the line at its end; T gets it if it asks for a completion.
LEMMA LastJoins ==
    ASSUME NEW P, NEW Q, NEW b \in Nat, NEW T, NEW U, Len(T) \in Nat, Len(P) \in Nat, b <= Len(T),
           Len(Q) = Len(P) + 1, \A i \in 1..Len(P) : Q[i] = P[i],
           NEW f, Q[Len(P) + 1] = f,
           Len(U) = IF Tab(f) THEN Len(T) + 1 ELSE Len(T), \A i \in 1..Len(T) : U[i] = T[i],
           Tab(f) => U[Len(T) + 1] = f.num,
           \A i \in 1..Len(P) : P[i].num < f.num,
           InLine(P, b, T), Rising(P), AllInLine(P, b, T)
    PROVE  InLine(Q, b, U) /\ Rising(Q) /\ AllInLine(Q, b, U)
<1>0. Len(Q) \in Nat /\ Len(U) \in Nat /\ Len(T) <= Len(U)
  OBVIOUS
<1>1. Rising(Q)
  <2>. SUFFICES ASSUME NEW i \in 1..Len(Q), NEW j \in 1..Len(Q), i < j, Tab(Q[i]), Tab(Q[j])
                PROVE  Q[i].num < Q[j].num
    BY DEF Rising
  <2>1. i \in 1..Len(P) /\ Q[i] = P[i]
    BY <1>0
  <2>2. CASE j \in 1..Len(P)
    BY <2>1, <2>2 DEF Rising
  <2>3. CASE j = Len(P) + 1
    BY <2>1, <2>3
  <2>. QED
    BY <1>0, <2>2, <2>3, SMTT(30)
<1>2. AllInLine(Q, b, U)
  <2>. SUFFICES ASSUME NEW r \in (b + 1)..Len(U)
                PROVE  \E j \in 1..Len(Q) : Tab(Q[j]) /\ Q[j].num = U[r]
    BY DEF AllInLine
  <2>1. CASE r <= Len(T)
    <3>1. r \in (b + 1)..Len(T) /\ r \in 1..Len(T)
      BY <1>0, <2>1
    <3>2. PICK j \in 1..Len(P) : Tab(P[j]) /\ P[j].num = T[r]
      BY <3>1 DEF AllInLine
    <3>3. j \in 1..Len(Q) /\ Q[j] = P[j] /\ U[r] = T[r]
      BY <3>1
    <3>. QED
      BY <3>2, <3>3
  <2>2. CASE r > Len(T)
    <3>1. Tab(f) /\ r = Len(T) + 1
      BY <1>0, <2>2
    <3>2. Len(P) + 1 \in 1..Len(Q)
      BY <1>0
    <3>. QED
      BY <3>1, <3>2
  <2>. QED
    BY <1>0, <2>1, <2>2
<1>3. InLine(Q, b, U)
  <2>. SUFFICES ASSUME NEW i \in 1..Len(Q), Tab(Q[i])
                PROVE  \E p \in (b + 1)..Len(U) :
                         /\ U[p] = Q[i].num
                         /\ \A r \in (b + 1)..(p - 1) :
                              \E j \in 1..(i - 1) : Tab(Q[j]) /\ Q[j].num = U[r]
    BY DEF InLine
  <2>1. CASE i \in 1..Len(P)
    <3>1. PICK p \in (b + 1)..Len(T) :
              /\ T[p] = P[i].num
              /\ \A r \in (b + 1)..(p - 1) :
                   \E j \in 1..(i - 1) : Tab(P[j]) /\ P[j].num = T[r]
      BY <2>1 DEF InLine
    <3>2. p \in (b + 1)..Len(U) /\ U[p] = T[p] /\ Q[i] = P[i]
      BY <1>0, <2>1
    <3>3. \A j \in 1..(i - 1) : Q[j] = P[j]
      BY <2>1
    <3>4. \A r \in (b + 1)..(p - 1) : U[r] = T[r]
      OBVIOUS
    <3>5. \A r \in (b + 1)..(p - 1) : \E j \in 1..(i - 1) : Tab(Q[j]) /\ Q[j].num = U[r]
      BY <3>1, <3>3, <3>4, ZenonT(60)
    <3>. QED
      BY <3>1, <3>2, <3>5
  <2>2. CASE i = Len(P) + 1
    <3>1. Tab(f) /\ Q[i] = f /\ Len(T) + 1 \in (b + 1)..Len(U) /\ U[Len(T) + 1] = f.num
      BY <1>0, <2>2
    <3>2. ASSUME NEW r \in (b + 1)..((Len(T) + 1) - 1)
          PROVE  \E j \in 1..(i - 1) : Tab(Q[j]) /\ Q[j].num = U[r]
      <4>1. r \in (b + 1)..Len(T) /\ U[r] = T[r]
        OBVIOUS
      <4>2. PICK j \in 1..Len(P) : Tab(P[j]) /\ P[j].num = T[r]
        BY <4>1 DEF AllInLine
      <4>3. j \in 1..(i - 1) /\ Q[j] = P[j]
        BY <2>2
      <4>. QED
        BY <4>1, <4>2, <4>3
    <3>. QED
      BY <3>1, <3>2
  <2>. QED
    BY <1>0, <2>1, <2>2
<1>. QED
  BY <1>1, <1>2, <1>3

\* A line nobody joins any more does not mind what is asked later.
LEMMA LineStays ==
    ASSUME NEW P, NEW b \in Nat, NEW T, NEW U, Len(T) \in Nat, Len(U) \in Nat, Len(T) <= Len(U),
           \A i \in 1..Len(T) : U[i] = T[i], InLine(P, b, T), Len(P) \in Nat
    PROVE  InLine(P, b, U)
<1>. SUFFICES ASSUME NEW i \in 1..Len(P), Tab(P[i])
              PROVE  \E p \in (b + 1)..Len(U) :
                       /\ U[p] = P[i].num
                       /\ \A r \in (b + 1)..(p - 1) :
                            \E j \in 1..(i - 1) : Tab(P[j]) /\ P[j].num = U[r]
  BY DEF InLine
<1>1. PICK p \in (b + 1)..Len(T) :
          /\ T[p] = P[i].num
          /\ \A r \in (b + 1)..(p - 1) :
               \E j \in 1..(i - 1) : Tab(P[j]) /\ P[j].num = T[r]
  BY DEF InLine
<1>2. p \in (b + 1)..Len(U) /\ U[p] = T[p] /\ \A r \in (b + 1)..(p - 1) : U[r] = T[r]
  OBVIOUS
<1>. QED
  BY <1>1, <1>2

\* The server puts k frames of answer in the place of the request n + 1: one if
\* it asks for a completion.
LEMMA AnswerReplaces ==
    ASSUME NEW P, NEW Q, NEW b \in Nat, NEW T, Len(T) \in Nat, Len(P) \in Nat,
           NEW n \in Nat, NEW k \in Nat, n + 1 <= Len(P), Len(Q) = (Len(P) - 1) + k,
           \A i \in 1..n : Q[i] = P[i],
           \A i \in (n + 2)..Len(P) : Q[(i - 1) + k] = P[i],
           \A i \in (n + 1)..(n + k) : Q[i].type = P[n + 1].type /\ Q[i].num = P[n + 1].num,
           Tab(P[n + 1]) => k = 1,
           InLine(P, b, T), Rising(P)
    PROVE  /\ InLine(Q, b, T) /\ Rising(Q)
           /\ AllInLine(P, b, T) => AllInLine(Q, b, T)
<1>0. Len(Q) \in Nat
  OBVIOUS
<1> DEFINE M(i) == IF i <= n THEN i ELSE IF i <= n + k THEN n + 1 ELSE (i + 1) - k
           N(j) == IF j <= n THEN j ELSE IF j = n + 1 THEN n + 1 ELSE (j - 1) + k
<1>1. ASSUME NEW i \in 1..Len(Q), Tab(Q[i])
      PROVE  M(i) \in 1..Len(P) /\ Tab(P[M(i)]) /\ P[M(i)].num = Q[i].num
  <2>1. CASE i <= n
    BY <1>0, <1>1, <2>1
  <2>2. CASE i > n /\ i <= n + k
    BY <1>0, <1>1, <2>2 DEF Tab
  <2>3. CASE i > n + k
    <3>1. (i + 1) - k \in (n + 2)..Len(P) /\ (((i + 1) - k) - 1) + k = i
      BY <1>0, <2>3, SMTT(30)
    <3>. QED
      BY <1>1, <2>3, <3>1, SMTT(30)
  <2>. QED
    BY <2>1, <2>2, <2>3
<1>2. ASSUME NEW j \in 1..Len(P), Tab(P[j])
      PROVE  N(j) \in 1..Len(Q) /\ Tab(Q[N(j)]) /\ Q[N(j)].num = P[j].num
  <2>1. CASE j <= n
    BY <1>0, <1>2, <2>1
  <2>2. CASE j = n + 1
    <3>1. k = 1
      BY <1>2, <2>2
    <3>. QED
      BY <1>0, <1>2, <2>2, <3>1 DEF Tab
  <2>3. CASE j > n + 1
    BY <1>0, <1>2, <2>3
  <2>. QED
    BY <2>1, <2>2, <2>3
<1>3. ASSUME NEW i \in 1..Len(Q), NEW j \in 1..Len(Q), i < j, Tab(Q[i]), Tab(Q[j])
      PROVE  M(i) < M(j)
  <2>1. CASE i > n /\ i <= n + k
    <3>1. k = 1
      BY <1>3, <2>1, SMTT(30) DEF Tab
    <3>. QED
      BY <1>3, <2>1, <3>1
  <2>2. CASE ~(i > n /\ i <= n + k)
    BY <1>3, <2>2
  <2>. QED
    BY <2>1, <2>2
<1>4. ASSUME NEW i \in 1..Len(Q), NEW j \in 1..(M(i) - 1), Tab(P[j]), Tab(Q[i])
      PROVE  j \in 1..Len(P) /\ N(j) \in 1..(i - 1)
  <2>1. M(i) \in 1..Len(P) /\ j \in 1..Len(P)
    BY <1>1, <1>4
  <2>2. N(j) \in 1..Len(Q)
    BY <1>2, <1>4, <2>1
  <2>3. CASE j = n + 1
    <3>1. k = 1
      BY <1>4, <2>3
    <3>. QED
      BY <1>4, <2>1, <2>2, <2>3, <3>1
  <2>4. CASE j # n + 1
    BY <1>4, <2>1, <2>2, <2>4
  <2>. QED
    BY <2>3, <2>4
<1>. HIDE DEF M, N
<1>5. Rising(Q)
  <2>. SUFFICES ASSUME NEW i \in 1..Len(Q), NEW j \in 1..Len(Q), i < j, Tab(Q[i]), Tab(Q[j])
                PROVE  Q[i].num < Q[j].num
    BY DEF Rising
  <2>. QED
    BY <1>1, <1>3 DEF Rising
<1>6. AllInLine(P, b, T) => AllInLine(Q, b, T)
  BY <1>2, ZenonT(60) DEF AllInLine
<1>7. InLine(Q, b, T)
  <2>. SUFFICES ASSUME NEW i \in 1..Len(Q), Tab(Q[i])
                PROVE  \E p \in (b + 1)..Len(T) :
                         /\ T[p] = Q[i].num
                         /\ \A r \in (b + 1)..(p - 1) :
                              \E j \in 1..(i - 1) : Tab(Q[j]) /\ Q[j].num = T[r]
    BY DEF InLine
  <2>1. M(i) \in 1..Len(P) /\ Tab(P[M(i)]) /\ P[M(i)].num = Q[i].num
    BY <1>1
  <2>2. PICK p \in (b + 1)..Len(T) :
            /\ T[p] = P[M(i)].num
            /\ \A r \in (b + 1)..(p - 1) :
                 \E j \in 1..(M(i) - 1) : Tab(P[j]) /\ P[j].num = T[r]
    BY <2>1 DEF InLine
  <2>3. ASSUME NEW r \in (b + 1)..(p - 1)
        PROVE  \E j \in 1..(i - 1) : Tab(Q[j]) /\ Q[j].num = T[r]
    <3>1. PICK j \in 1..(M(i) - 1) : Tab(P[j]) /\ P[j].num = T[r]
      BY <2>2
    <3>. QED
      BY <1>2, <1>4, <3>1
  <2>. QED
    BY <2>1, <2>2, <2>3
<1>. QED
  BY <1>5, <1>6, <1>7

\* The frames on their way to completerChan, the next one first: the one ioLoop
\* holds, the ones in flight, the answers being written and the requests not
\* yet read.  What the server or the reader leaves behind never arrives.
Held == IF ioLoop.pc = "put" THEN <<ioLoop.frame>> ELSE <<>>
Coming == IF spc = "done" THEN <<>> ELSE reply \o upstream
Pipe == IF ioLoop.pc = "done" THEN <<>> ELSE (Held \o downstream) \o Coming

\* How many completion requests were answered: those not given up, nor waited for.
Shown == Len(tabs) - late - (IF cpc = "completing" THEN 1 ELSE 0)
Ahead == Shown + Len(completerChan)

TabsInv ==
    /\ tabs \in Seq(Nat) /\ Ascending(tabs) /\ (\A i \in 1..Len(tabs) : tabs[i] <= asked)
    /\ late \in Nat /\ Shown \in Nat
    /\ cpc = "completing" => Len(tabs) > 0 /\ pending.num = tabs[Len(tabs)]
ChanInv ==
    /\ completerChan \in Seq(Sent)
    /\ \A i \in 1..Len(completerChan) :
          Shown + i <= Len(tabs) /\ completerChan[i].num = tabs[Shown + i]
LineInv ==
    /\ InLine(Pipe, Ahead, tabs) /\ Rising(Pipe)
    /\ (spc # "done" /\ ioLoop.pc # "done") => AllInLine(Pipe, Ahead, tabs)
ShapeInv ==
    /\ ioLoop \in [pc : {"off", "read", "put", "done"}, frame : Frame \cup {NoFrame}]
    /\ spc # "write" => reply = <<>>
    /\ cpc = "start" => ioLoop.pc = "off" /\ spc = "off"
LagInv == TabsInv /\ ChanInv /\ LineInv /\ ShapeInv /\ CompletionLag

\* The pipe holds frames of requests made.
LEMMA PipeSent ==
    ASSUME FramesInv
    PROVE  /\ Held \in Seq(Sent) /\ Coming \in Seq(Sent) /\ Held \o downstream \in Seq(Sent)
           /\ Pipe \in Seq(Sent)
<1>1. /\ upstream \in Seq(Sent) /\ reply \in Seq(Sent) /\ downstream \in Seq(Sent)
  BY DEF FramesInv
<1>2. Held \in Seq(Sent)
  <2>1. CASE ioLoop.pc = "put"
    <3>1. ioLoop.frame \in Sent
      BY <2>1 DEF FramesInv
    <3>2. <<ioLoop.frame>> \in Seq(Sent)
      BY <3>1
    <3>. QED
      BY <2>1, <3>2 DEF Held
  <2>2. CASE ioLoop.pc # "put"
    BY <2>2, EmptySeq DEF Held
  <2>. QED
    BY <2>1, <2>2
<1>3. Coming \in Seq(Sent)
  BY <1>1, ConcatProperties, EmptySeq DEF Coming
<1>4. Held \o downstream \in Seq(Sent)
  BY <1>1, <1>2, ConcatProperties
<1>5. (Held \o downstream) \o Coming \in Seq(Sent)
  BY <1>3, <1>4, ConcatProperties
<1>. QED
  BY <1>2, <1>3, <1>4, <1>5, EmptySeq DEF Pipe

\* A session begins with nothing asked and nothing on its way.
LEMMA InitLag ==
    ASSUME CliInit PROVE LagInv
<1>1. TabsInv
  <2>1. tabs = <<>> /\ late = 0 /\ cpc = "start"
    BY DEF CliInit
  <2>2. tabs \in Seq(Nat) /\ Len(tabs) = 0
    BY <2>1
  <2>. QED
    BY <2>1, <2>2 DEF TabsInv, Ascending, Shown
<1>2. ChanInv
  <2>1. completerChan = <<>>
    BY DEF CliInit
  <2>2. completerChan \in Seq(Sent) /\ Len(completerChan) = 0
    BY <2>1
  <2>. QED
    BY <2>2 DEF ChanInv
<1>3. LineInv
  <2>1. Len(Pipe) = 0
    <3>1. Held = <<>> /\ downstream = <<>> /\ Coming = <<>>
      BY DEF CliInit, Held, Coming
    <3>. QED
      BY <3>1 DEF Pipe
  <2>2. Len(tabs) = 0 /\ Ahead = 0
    BY DEF CliInit, Ahead, Shown
  <2>. QED
    BY <2>1, <2>2 DEF LineInv, InLine, Rising, AllInLine
<1>4. ShapeInv
  BY DEF CliInit, ShapeInv
<1>5. CompletionLag
  BY DEF CliInit, CompletionLag
<1>. QED
  BY <1>1, <1>2, <1>3, <1>4, <1>5 DEF LagInv

\* A frame read from the front of a queue is where it was in the line.
LEMMA FrontMoves ==
    ASSUME NEW S, NEW d \in Seq(S), d # <<>>
    PROVE  <<Head(d)>> \o Tail(d) = <<>> \o d
OBVIOUS

\* Two queues in a row have the head and the tail of the first.
LEMMA FirstQueue ==
    ASSUME NEW S, NEW s \in Seq(S), NEW t \in Seq(S), s # <<>>
    PROVE  Head(s \o t) = Head(s) /\ Tail(s \o t) = Tail(s) \o t /\ s \o t # <<>>
OBVIOUS

\* The head of the second queue may as well end the first one.
LEMMA HeadMoves ==
    ASSUME NEW S, NEW s \in Seq(S), NEW t \in Seq(S), t # <<>>
    PROVE  s \o t = Append(s, Head(t)) \o Tail(t)
OBVIOUS

\* Two queues of frames are one.
LEMMA QueuesJoin ==
    ASSUME NEW S, NEW s \in Seq(S), NEW t \in Seq(S)
    PROVE  s \o t \in Seq(S)
OBVIOUS

\* The head of a queue behind a gives way to the frames r.
LEMMA PlaceTaken ==
    ASSUME NEW S, NEW a \in Seq(S), NEW r \in Seq(S), NEW u \in Seq(S), u # <<>>,
           NEW P, P = a \o (<<>> \o u), NEW Q, Q = a \o (r \o Tail(u)),
           NEW n, n = Len(a), NEW k, k = Len(r)
    PROVE  /\ n \in Nat /\ k \in Nat /\ Len(P) \in Nat /\ n + 1 <= Len(P)
           /\ Len(Q) = (Len(P) - 1) + k
           /\ P[n + 1] = Head(u)
           /\ \A i \in 1..n : Q[i] = P[i]
           /\ \A i \in (n + 2)..Len(P) : Q[(i - 1) + k] = P[i]
           /\ \A i \in (n + 1)..(n + k) : Q[i] = r[i - n]
<1>1. P = a \o u /\ Tail(u) \in Seq(S) /\ r \o Tail(u) \in Seq(S)
  OBVIOUS
<1>2. n \in Nat /\ k \in Nat /\ Len(u) \in Nat /\ Len(u) >= 1 /\ Len(Tail(u)) = Len(u) - 1
  OBVIOUS
<1>3. PICK v \in Seq(S) : v = Tail(u)
  BY <1>1
<1>4. Len(v) = Len(u) - 1 /\ \A i \in 1..(Len(u) - 1) : v[i] = u[i + 1]
  BY <1>3
<1>w. PICK w \in Seq(S) : w = r \o v
  BY <1>1, <1>3
<1>5. /\ Len(w) = k + Len(v)
      /\ \A i \in 1..k : w[i] = r[i]
      /\ \A i \in 1..Len(v) : w[i + k] = v[i]
  BY <1>w
<1>6. Q = a \o w
  BY <1>3, <1>w
<1>7. /\ Len(Q) = n + Len(w)
      /\ \A i \in 1..n : Q[i] = a[i]
      /\ \A i \in 1..Len(w) : Q[i + n] = w[i]
  <2>0. Q \in Seq(S) /\ Len(w) \in Nat
    BY <1>6
  <2>1. Len(Q) = n + Len(w)
    <3>1. Len(a \o w) = Len(a) + Len(w)
      BY ConcatProperties, Zenon
    <3>. QED
      BY <1>6, <3>1, Zenon
  <2>2. ASSUME NEW i \in 1..n PROVE Q[i] = a[i]
    BY <1>2, <1>6, <2>1
  <2>3. ASSUME NEW i \in 1..Len(w) PROVE Q[i + n] = w[i]
    <3>1. i + n \in 1..(Len(a) + Len(w)) /\ ~(i + n <= Len(a)) /\ (i + n) - Len(a) = i
      BY <1>2, <2>0
    <3>2. \A j \in 1..(Len(a) + Len(w)) : (a \o w)[j] = IF j <= Len(a) THEN a[j] ELSE w[j - Len(a)]
      BY ConcatProperties, Zenon
    <3>3. (a \o w)[i + n] = w[(i + n) - Len(a)]
      BY <3>1, <3>2, Zenon
    <3>. QED
      BY <1>6, <3>1, <3>3, Zenon
  <2>. QED
    BY <2>1, <2>2, <2>3
<1>8. /\ Len(P) = n + Len(u)
      /\ \A i \in 1..n : P[i] = a[i]
      /\ \A i \in 1..Len(u) : P[i + n] = u[i]
  BY <1>1
<1>9. Len(P) \in Nat /\ n + 1 <= Len(P) /\ Len(Q) = (Len(P) - 1) + k
  BY <1>2, <1>4, <1>5, <1>7, <1>8
<1>10. P[n + 1] = Head(u)
  <2>1. P[1 + n] = u[1]
    BY <1>2, <1>8
  <2>2. u[1] = Head(u)
    OBVIOUS
  <2>. QED
    BY <1>2, <2>1, <2>2
<1>11. ASSUME NEW i \in (n + 2)..Len(P)
       PROVE  Q[(i - 1) + k] = P[i]
  <2>1. (i - n) - 1 \in 1..Len(v) /\ ((i - n) - 1) + k \in 1..Len(w) /\ i - n \in 1..Len(u)
    <3>1. Len(P) = n + Len(u) /\ Len(v) = Len(u) - 1 /\ Len(w) = k + Len(v)
      BY <1>4, <1>5, <1>8
    <3>. QED
      BY <1>2, <3>1
  <2>2. (((i - n) - 1) + k) + n = (i - 1) + k /\ ((i - n) - 1) + 1 = i - n /\ (i - n) + n = i
        /\ Len(v) = Len(u) - 1
    BY <1>2, <1>4
  <2>3. Q[(((i - n) - 1) + k) + n] = w[((i - n) - 1) + k]
    BY <1>7, <2>1
  <2>4. w[((i - n) - 1) + k] = v[(i - n) - 1]
    BY <1>5, <2>1
  <2>5. v[(i - n) - 1] = u[((i - n) - 1) + 1]
    BY <1>4, <2>1, <2>2
  <2>6. P[(i - n) + n] = u[i - n]
    BY <1>8, <2>1
  <2>. QED
    BY <2>2, <2>3, <2>4, <2>5, <2>6
<1>12. ASSUME NEW i \in (n + 1)..(n + k)
       PROVE  Q[i] = r[i - n]
  <2>1. i - n \in 1..k /\ i - n \in 1..Len(w) /\ (i - n) + n = i
    BY <1>2, <1>4, <1>5, SMTT(30)
  <2>. QED
    BY <1>5, <1>7, <2>1
<1>. QED
  BY <1>2, <1>7, <1>8, <1>9, <1>10, <1>11, <1>12

\* The line after a step.
LEMMA LineAfter ==
    ASSUME InLine(Pipe', Ahead', tabs'), Rising(Pipe'),
           (spc' # "done" /\ ioLoop'.pc # "done") => AllInLine(Pipe', Ahead', tabs')
    PROVE  LineInv'
BY DEF LineInv, InLine, Rising, AllInLine, Tab

\* A step that neither moves nor cuts the line.
LEMMA LineUnmoved ==
    ASSUME LagInv, Pipe' = Pipe, Ahead' = Ahead, tabs' = tabs,
           (spc' # "done" /\ ioLoop'.pc # "done") => (spc # "done" /\ ioLoop.pc # "done")
    PROVE  LineInv'
<1>1. /\ InLine(Pipe, Ahead, tabs) /\ Rising(Pipe)
      /\ (spc # "done" /\ ioLoop.pc # "done") => AllInLine(Pipe, Ahead, tabs)
  BY DEF LagInv, LineInv
<1>. QED
  BY <1>1, LineAfter

\* A step that requests no completion, and ends the wait for none.
LEMMA TabsUnmoved ==
    ASSUME LagInv, FramesInv, asked' \in Nat, asked <= asked',
           UNCHANGED <<tabs, late, completerChan, completed>>,
           cpc' = "completing" <=> cpc = "completing",
           cpc = "completing" => pending' = pending
    PROVE  Shown' = Shown /\ Ahead' = Ahead /\ TabsInv' /\ ChanInv' /\ CompletionLag'
<1>0. TabsInv /\ ChanInv /\ CompletionLag /\ asked \in Nat
  BY DEF LagInv, FramesInv
<1>1. Shown' = Shown /\ Ahead' = Ahead
  BY DEF Shown, Ahead
<1>2. TabsInv'
  <2>1. \A i \in 1..Len(tabs) : tabs[i] <= asked'
    <3>1. \A i \in 1..Len(tabs) : tabs[i] \in Nat
      BY <1>0 DEF TabsInv
    <3>. QED
      BY <1>0, <3>1 DEF TabsInv
  <2>. QED
    BY <1>0, <1>1, <2>1 DEF TabsInv, Ascending
<1>3. ChanInv'
  <2>1. completerChan' \in Seq(Sent')
    BY <1>0, SentGrows DEF ChanInv
  <2>. QED
    BY <1>0, <1>1, <2>1 DEF ChanInv
<1>4. CompletionLag'
  BY <1>0 DEF CompletionLag
<1>. QED
  BY <1>1, <1>2, <1>3, <1>4

\* Such a step, when it leaves the line alone too.
LEMMA Untouched ==
    ASSUME LagInv, FramesInv,
           UNCHANGED <<asked, tabs, late, completerChan, completed, ioLoop, downstream, upstream, reply>>,
           cpc' = "completing" <=> cpc = "completing", cpc = "completing" => pending' = pending,
           cpc' = "start" => cpc = "start" /\ spc' = spc,
           spc' = spc \/ (spc # "done" /\ spc' # "done" /\ reply = <<>>)
    PROVE  LagInv'
<1>1. asked \in Nat /\ asked' = asked
  BY DEF FramesInv
<1>2. Shown' = Shown /\ Ahead' = Ahead /\ TabsInv' /\ ChanInv' /\ CompletionLag'
  BY <1>1, TabsUnmoved
<1>3. Pipe' = Pipe
  BY DEF Pipe, Held, Coming
<1>4. LineInv'
  BY <1>2, <1>3, LineUnmoved
<1>5. ShapeInv'
  BY DEF LagInv, ShapeInv
<1>. QED
  BY <1>2, <1>4, <1>5 DEF LagInv

\* How far the answers have come: never past the requests made.
LEMMA AheadBound ==
    ASSUME TabsInv, ChanInv
    PROVE  /\ Shown \in Nat /\ Ahead \in Nat /\ Ahead <= Len(tabs) /\ Len(tabs) \in Nat
           /\ Len(completerChan) \in Nat /\ Ahead = Shown + Len(completerChan)
           /\ \A i \in 1..Len(tabs) : tabs[i] \in Nat
<1>1. /\ tabs \in Seq(Nat) /\ late \in Nat /\ Shown \in Nat /\ completerChan \in Seq(Sent)
  BY DEF TabsInv, ChanInv
<1>2. Len(tabs) \in Nat /\ Len(completerChan) \in Nat /\ \A i \in 1..Len(tabs) : tabs[i] \in Nat
  BY <1>1
<1>3. Shown <= Len(tabs)
  BY <1>1, <1>2 DEF Shown
<1>4. Shown + Len(completerChan) <= Len(tabs)
  <2>1. CASE Len(completerChan) = 0
    BY <1>1, <1>2, <1>3, <2>1
  <2>2. CASE Len(completerChan) > 0
    BY <1>2, <2>2 DEF ChanInv
  <2>. QED
    BY <1>2, <2>1, <2>2
<1>. QED
  BY <1>1, <1>2, <1>4 DEF Ahead

\* A request joins the line at its end, and a line that is cut already does not
\* grow.
LEMMA AskLine ==
    ASSUME LagInv, FramesInv, NEW t \in {"handshake", "command", "completer"}, Ask(t),
           UNCHANGED <<reply, downstream>>, Held' = Held, Ahead' = Ahead,
           tabs' = IF t = "completer" THEN Append(tabs, asked + 1) ELSE tabs,
           spc' = "done" <=> spc = "done", ioLoop'.pc = "done" <=> ioLoop.pc = "done"
    PROVE  LineInv'
<1>1. /\ InLine(Pipe, Ahead, tabs) /\ Rising(Pipe) /\ TabsInv /\ ChanInv
      /\ (spc # "done" /\ ioLoop.pc # "done") => AllInLine(Pipe, Ahead, tabs)
  BY DEF LagInv, LineInv
<1>2. /\ Ahead \in Nat /\ Ahead <= Len(tabs) /\ Len(tabs) \in Nat
  BY <1>1, AheadBound
<1>3. tabs \in Seq(Nat) /\ asked \in Nat
  BY <1>1 DEF TabsInv, FramesInv
<1>4. /\ Len(tabs') = IF t = "completer" THEN Len(tabs) + 1 ELSE Len(tabs)
      /\ \A i \in 1..Len(tabs) : tabs'[i] = tabs[i]
      /\ t = "completer" => tabs'[Len(tabs) + 1] = asked + 1
  BY <1>3
<1>5. /\ Held \in Seq(Sent) /\ Coming \in Seq(Sent) /\ Held \o downstream \in Seq(Sent)
      /\ Pipe \in Seq(Sent) /\ reply \in Seq(Sent) /\ upstream \in Seq(Sent)
  BY PipeSent DEF FramesInv
<1>6. Len(Pipe) \in Nat /\ \A i \in 1..Len(Pipe) : Pipe[i] \in Sent
  BY <1>5
<1>7. CASE spc = "done" \/ ioLoop.pc = "done"
  <2>1. Pipe' = Pipe
    BY <1>7 DEF Pipe, Coming
  <2>2. Len(tabs') \in Nat /\ Len(tabs) <= Len(tabs')
    BY <1>2, <1>4
  <2>3. InLine(Pipe, Ahead, tabs')
    BY <1>1, <1>2, <1>4, <1>6, <2>2, LineStays
  <2>. QED
    BY <1>1, <1>7, <2>1, <2>3, LineAfter
<1>8. CASE spc # "done" /\ ioLoop.pc # "done"
  <2>1. PICK f : /\ upstream' = Append(upstream, f) /\ f.num = asked + 1
                 /\ Tab(f) <=> t = "completer"
    <3> DEFINE f == [type |-> t, flag |-> "complete", seq |-> NextSeq, num |-> asked + 1]
    <3>1. upstream' = Append(upstream, f)
      BY Zenon DEF Ask
    <3>2. f.num = asked + 1 /\ (Tab(f) <=> t = "completer")
      BY DEF Tab
    <3>. HIDE DEF f
    <3>. QED
      BY <3>1, <3>2, Zenon
  <2>2. FramesInv /\ upstream' \in Seq(Sent') /\ asked' = asked + 1
    BY AskKeeps DEF Ask
  <2>3. f \in Sent' /\ reply \in Seq(Sent') /\ upstream \in Seq(Sent') /\ Held \o downstream \in Seq(Sent')
    <3>1. \A q : q \in Seq(Sent) => q \in Seq(Sent')
      BY <1>3, <2>2, SentGrows
    <3>2. reply \in Seq(Sent') /\ upstream \in Seq(Sent') /\ Held \o downstream \in Seq(Sent')
      BY <1>5, <3>1
    <3>3. f \in Sent'
      <4>1. Len(upstream) + 1 \in 1..Len(upstream') /\ upstream'[Len(upstream) + 1] = f
        BY <1>5, <2>1
      <4>. QED
        BY <2>2, <4>1
    <3>. QED
      BY <3>2, <3>3
  <2>4. Pipe = (Held \o downstream) \o (reply \o upstream)
    BY <1>8 DEF Pipe, Coming
  <2>5. Pipe' = (Held \o downstream) \o (reply \o Append(upstream, f))
    BY <1>8, <2>1 DEF Pipe, Coming
  <2>6. Pipe' = Append(Pipe, f)
    <3>1. PICK S : S = Sent'
      OBVIOUS
    <3>2. PICK a, r, u : a = Held \o downstream /\ r = reply /\ u = upstream
      OBVIOUS
    <3>3. a \in Seq(S) /\ r \in Seq(S) /\ u \in Seq(S) /\ f \in S
      BY <2>3, <3>1, <3>2, Zenon
    <3>4. a \o (r \o Append(u, f)) = Append(a \o (r \o u), f)
      BY <3>3, SMTT(30)
    <3>. QED
      BY <2>4, <2>5, <3>2, <3>4, Zenon
  <2>7. /\ Len(Pipe') = Len(Pipe) + 1 /\ Pipe'[Len(Pipe) + 1] = f
        /\ \A i \in 1..Len(Pipe) : Pipe'[i] = Pipe[i]
    BY <1>5, <2>6
  <2>8. \A i \in 1..Len(Pipe) : Pipe[i].num < f.num
    BY <1>3, <1>6, <2>1 DEF Sent
  <2>9. InLine(Pipe', Ahead, tabs') /\ Rising(Pipe') /\ AllInLine(Pipe', Ahead, tabs')
    <3>1. Len(tabs') = IF Tab(f) THEN Len(tabs) + 1 ELSE Len(tabs)
      BY <1>4, <2>1
    <3>2. Tab(f) => tabs'[Len(tabs) + 1] = f.num
      BY <1>4, <2>1
    <3>3. InLine(Pipe, Ahead, tabs) /\ Rising(Pipe) /\ AllInLine(Pipe, Ahead, tabs)
      BY <1>1, <1>8
    <3>4. PICK P, Q, b, T, U :
              P = Pipe /\ Q = Pipe' /\ b = Ahead /\ T = tabs /\ U = tabs'
      OBVIOUS
    <3>5. /\ b \in Nat /\ Len(T) \in Nat /\ Len(P) \in Nat /\ b <= Len(T)
          /\ Len(Q) = Len(P) + 1 /\ (\A i \in 1..Len(P) : Q[i] = P[i]) /\ Q[Len(P) + 1] = f
      BY <1>2, <1>6, <2>7, <3>4, Zenon
    <3>6. /\ Len(U) = (IF Tab(f) THEN Len(T) + 1 ELSE Len(T)) /\ (\A i \in 1..Len(T) : U[i] = T[i])
          /\ Tab(f) => U[Len(T) + 1] = f.num
      BY <1>4, <3>1, <3>2, <3>4, Zenon
    <3>7. /\ \A i \in 1..Len(P) : P[i].num < f.num
          /\ InLine(P, b, T) /\ Rising(P) /\ AllInLine(P, b, T)
      BY <2>8, <3>3, <3>4, Zenon
    <3>8. InLine(Q, b, U) /\ Rising(Q) /\ AllInLine(Q, b, U)
      BY <3>5, <3>6, <3>7, LastJoins
    <3>. QED
      BY <3>4, <3>8, Zenon
  <2>. QED
    BY <2>9, LineAfter
<1>. QED
  BY <1>7, <1>8

\* A request for something else than a completion.
LEMMA AskOther ==
    ASSUME LagInv, FramesInv, NEW t \in {"handshake", "command"}, Ask(t),
           UNCHANGED <<reply, downstream, tabs, late, completerChan, completed>>, Held' = Held,
           cpc \in {"start", "prompt"}, cpc' \notin {"start", "completing"},
           spc' = "done" <=> spc = "done", ioLoop'.pc = "done" <=> ioLoop.pc = "done",
           ShapeInv'
    PROVE  LagInv'
<1>1. asked' \in Nat /\ asked <= asked'
  BY AskKeeps
<1>2. Shown' = Shown /\ Ahead' = Ahead /\ TabsInv' /\ ChanInv' /\ CompletionLag'
  BY <1>1, TabsUnmoved
<1>3. LineInv'
  BY <1>2, AskLine
<1>. QED
  BY <1>2, <1>3 DEF LagInv

\* A request for a completion.
LEMMA TabLag ==
    ASSUME LagInv, FramesInv, TabPressed
    PROVE  LagInv'
<1> USE DEF clientVars, readerVars, serverVars, cliHistory
<1>0. TabsInv /\ ChanInv /\ LineInv /\ ShapeInv /\ CompletionLag /\ asked \in Nat
  BY DEF LagInv, FramesInv
<1>1. /\ cpc = "prompt" /\ cpc' = "completing" /\ Ask("completer")
      /\ tabs' = Append(tabs, asked + 1)
      /\ UNCHANGED <<ioLoop, completerChan, downstream, spc, reply, late, completed>>
  BY DEF TabPressed
<1>2. asked' = asked + 1 /\ pending'.num = asked + 1
  BY <1>1 DEF Ask
<1>3. /\ Len(tabs') = Len(tabs) + 1 /\ tabs'[Len(tabs) + 1] = asked + 1
      /\ tabs' \in Seq(Nat) /\ \A i \in 1..Len(tabs) : tabs'[i] = tabs[i]
  BY <1>0, <1>1 DEF TabsInv
<1>4. /\ Shown \in Nat /\ Ahead \in Nat /\ Ahead <= Len(tabs) /\ Len(tabs) \in Nat
      /\ Len(completerChan) \in Nat /\ \A i \in 1..Len(tabs) : tabs[i] \in Nat
  BY <1>0, AheadBound
<1>5. Shown' = Shown
  <2>1. late \in Nat
    BY <1>0 DEF TabsInv
  <2>. QED
    BY <1>1, <1>3, <1>4, <2>1 DEF Shown
<1>6. Ahead' = Ahead
  BY <1>1, <1>5 DEF Ahead
<1>7. TabsInv'
  <2>1. \A i \in 1..Len(tabs') : tabs'[i] <= asked + 1
    <3>. SUFFICES ASSUME NEW i \in 1..Len(tabs') PROVE tabs'[i] <= asked + 1
      OBVIOUS
    <3>1. CASE i \in 1..Len(tabs)
      BY <1>0, <1>3, <1>4, <3>1, SMTT(30) DEF TabsInv
    <3>2. CASE i = Len(tabs) + 1
      BY <1>0, <1>3, <3>2
    <3>. QED
      BY <1>3, <1>4, <3>1, <3>2
  <2>2. \A i, j \in 1..Len(tabs') : i < j => tabs'[i] < tabs'[j]
    <3>. SUFFICES ASSUME NEW i \in 1..Len(tabs'), NEW j \in 1..Len(tabs'), i < j
                  PROVE  tabs'[i] < tabs'[j]
      OBVIOUS
    <3>1. i \in 1..Len(tabs) /\ tabs[i] <= asked /\ tabs'[i] = tabs[i] /\ tabs[i] \in Nat
      BY <1>0, <1>3, <1>4, SMTT(30) DEF TabsInv
    <3>2. CASE j \in 1..Len(tabs)
      BY <1>0, <1>3, <3>1, <3>2 DEF TabsInv, Ascending
    <3>3. CASE j = Len(tabs) + 1
      BY <1>0, <1>3, <3>1, <3>3
    <3>. QED
      BY <1>3, <1>4, <3>2, <3>3, SMTT(30)
  <2>. QED
    BY <1>0, <1>1, <1>2, <1>3, <1>4, <1>5, <2>1, <2>2 DEF TabsInv, Ascending
<1>8. ChanInv'
  <2>1. completerChan' \in Seq(Sent')
    BY <1>0, <1>1, <1>2, SentGrows DEF ChanInv
  <2>2. \A i \in 1..Len(completerChan) :
            Shown + i <= Len(tabs) /\ completerChan[i].num = tabs[Shown + i]
    BY <1>0 DEF ChanInv
  <2>3. \A i \in 1..Len(completerChan) :
            Shown + i <= Len(tabs') /\ completerChan[i].num = tabs'[Shown + i]
    BY <1>3, <1>4, <2>2
  <2>. QED
    BY <1>1, <1>5, <2>1, <2>3 DEF ChanInv
<1>9. LineInv'
  <2>1. Held' = Held
    BY <1>1 DEF Held
  <2>. QED
    BY <1>1, <1>6, <2>1, AskLine
<1>10. ShapeInv'
  BY <1>0, <1>1 DEF ShapeInv
<1>11. CompletionLag'
  <2>1. CASE completed = NoCompletion
    BY <1>1, <2>1 DEF CompletionLag, NoCompletion
  <2>2. CASE completed # NoCompletion
    <3>1. PICK i, j \in DOMAIN tabs :
              /\ tabs[i] = completed.want /\ tabs[j] = completed.got
              /\ i = j + completed.late
      BY <1>0, <2>2 DEF CompletionLag
    <3>2. DOMAIN tabs = 1..Len(tabs) /\ DOMAIN tabs' = 1..Len(tabs')
      BY <1>0, <1>3 DEF TabsInv
    <3>3. i \in DOMAIN tabs' /\ j \in DOMAIN tabs' /\ tabs'[i] = tabs[i] /\ tabs'[j] = tabs[j]
      BY <1>3, <1>4, <3>2
    <3>. QED
      BY <1>1, <3>1, <3>3 DEF CompletionLag
  <2>. QED
    BY <2>1, <2>2
<1>. QED
  BY <1>7, <1>8, <1>9, <1>10, <1>11 DEF LagInv

\* The completer takes the answer at the head of its channel.
LEMMA TakesLag ==
    ASSUME LagInv, FramesInv, CompleterTakes
    PROVE  LagInv'
<1> USE DEF clientVars, readerVars, serverVars, cliHistory
<1>0. TabsInv /\ ChanInv /\ LineInv /\ ShapeInv /\ CompletionLag
  BY DEF LagInv
<1>1. /\ cpc = "completing" /\ cpc' = "prompt" /\ completerChan # <<>>
      /\ completed' = [want |-> pending.num, got |-> Head(completerChan).num, late |-> late]
      /\ completerChan' = Tail(completerChan)
      /\ UNCHANGED <<ioLoop, downstream, upstream, spc, reply, tabs, late, asked>>
  BY DEF CompleterTakes
<1>2. /\ Shown \in Nat /\ Ahead \in Nat /\ Ahead <= Len(tabs) /\ Len(tabs) \in Nat
      /\ Len(completerChan) \in Nat /\ Ahead = Shown + Len(completerChan)
  BY <1>0, AheadBound
<1>3. completerChan \in Seq(Sent) /\ tabs \in Seq(Nat) /\ late \in Nat
  BY <1>0 DEF ChanInv, TabsInv
<1>4. /\ Len(completerChan) >= 1 /\ Head(completerChan) = completerChan[1]
      /\ completerChan' \in Seq(Sent) /\ Len(completerChan') = Len(completerChan) - 1
      /\ \A i \in 1..Len(completerChan') : completerChan'[i] = completerChan[i + 1]
  BY <1>1, <1>3
<1>5. Shown' = Shown + 1 /\ Len(tabs) = (Shown + 1) + late
  BY <1>1, <1>2, <1>3 DEF Shown
<1>6. Ahead' = Ahead
  BY <1>2, <1>4, <1>5 DEF Ahead
<1>7. TabsInv'
  BY <1>0, <1>1, <1>2, <1>5 DEF TabsInv, Ascending
<1>8. ChanInv'
  <2>1. Sent' = Sent
    BY <1>1 DEF Sent, Draws, Turns
  <2>2. ASSUME NEW i \in 1..Len(completerChan')
        PROVE  (Shown + 1) + i <= Len(tabs) /\ completerChan'[i].num = tabs[(Shown + 1) + i]
    <3>1. i + 1 \in 1..Len(completerChan) /\ Shown + (i + 1) = (Shown + 1) + i
      BY <1>2, <1>4
    <3>2. Shown + (i + 1) <= Len(tabs) /\ completerChan[i + 1].num = tabs[Shown + (i + 1)]
      BY <1>0, <3>1 DEF ChanInv
    <3>. QED
      BY <1>4, <3>1, <3>2
  <2>. QED
    BY <1>1, <1>4, <1>5, <2>1, <2>2 DEF ChanInv
<1>9. LineInv'
  <2>1. Pipe' = Pipe
    BY <1>1 DEF Pipe, Held, Coming
  <2>. QED
    BY <1>1, <1>6, <2>1, LineUnmoved
<1>10. ShapeInv'
  BY <1>0, <1>1 DEF ShapeInv
<1>11. CompletionLag'
  <2>1. completerChan[1].num = tabs[Shown + 1] /\ Shown + 1 \in 1..Len(tabs) /\ Len(tabs) \in 1..Len(tabs)
    <3>1. 1 \in 1..Len(completerChan)
      BY <1>2, <1>4
    <3>2. Shown + 1 <= Len(tabs) /\ completerChan[1].num = tabs[Shown + 1]
      BY <1>0, <3>1 DEF ChanInv
    <3>. QED
      BY <1>2, <3>2
  <2>2. pending.num = tabs[Len(tabs)]
    BY <1>0, <1>1 DEF TabsInv
  <2>3. /\ completed'.want = tabs[Len(tabs)] /\ completed'.got = tabs[Shown + 1]
        /\ completed'.late = late
    BY <1>1, <1>4, <2>1, <2>2
  <2>4. DOMAIN tabs = 1..Len(tabs)
    BY <1>3
  <2>5. \E i, j \in DOMAIN tabs' :
            tabs'[i] = completed'.want /\ tabs'[j] = completed'.got /\ i = j + completed'.late
    BY <1>1, <1>5, <2>1, <2>3, <2>4
  <2>. QED
    BY <2>5 DEF CompletionLag
<1>. QED
  BY <1>7, <1>8, <1>9, <1>10, <1>11 DEF LagInv

\* A completion given up counts as late from then on.
LEMMA TimesOutLag ==
    ASSUME LagInv, FramesInv, CompleterTimesOut
    PROVE  LagInv'
<1> USE DEF clientVars, readerVars, serverVars, cliHistory
<1>0. TabsInv /\ ChanInv /\ LineInv /\ ShapeInv /\ CompletionLag
  BY DEF LagInv
<1>1. /\ cpc = "completing" /\ cpc' = "prompt" /\ late' = late + 1
      /\ UNCHANGED <<ioLoop, downstream, upstream, spc, reply, tabs, asked, completerChan, completed>>
  BY DEF CompleterTimesOut
<1>2. Shown \in Nat /\ Len(tabs) \in Nat /\ late \in Nat
  BY <1>0, AheadBound DEF TabsInv
<1>3. Shown' = Shown
  BY <1>1, <1>2 DEF Shown
<1>4. Ahead' = Ahead
  BY <1>1, <1>3 DEF Ahead
<1>5. TabsInv'
  BY <1>0, <1>1, <1>2, <1>3 DEF TabsInv, Ascending
<1>6. ChanInv'
  <2>1. Sent' = Sent
    BY <1>1 DEF Sent, Draws, Turns
  <2>. QED
    BY <1>0, <1>1, <1>3, <2>1 DEF ChanInv
<1>7. LineInv'
  <2>1. Pipe' = Pipe
    BY <1>1 DEF Pipe, Held, Coming
  <2>. QED
    BY <1>1, <1>4, <2>1, LineUnmoved
<1>8. ShapeInv' /\ CompletionLag'
  BY <1>0, <1>1 DEF ShapeInv, CompletionLag
<1>. QED
  BY <1>5, <1>6, <1>7, <1>8 DEF LagInv

\* The reader hands over the first frame of the line.
LEMMA PutLag ==
    ASSUME LagInv, FramesInv, IoPut
    PROVE  LagInv'
<1> USE DEF clientVars, readerVars, serverVars, cliHistory
<1>0. TabsInv /\ ChanInv /\ LineInv /\ ShapeInv /\ CompletionLag /\ asked \in Nat
  BY DEF LagInv, FramesInv
<1>1. /\ ioLoop.pc = "put" /\ ioLoop'.pc = "read"
      /\ ioLoop' = [pc |-> "read", frame |-> NoFrame]
      /\ UNCHANGED <<cpc, asked, pending, downstream, upstream, spc, reply, tabs, late, completed>>
  BY DEF IoPut
<1>2. PICK f : f = ioLoop.frame
  OBVIOUS
<1>3. f \in Sent
  BY <1>1, <1>2 DEF FramesInv
<1>4. /\ Tab(f) => completerChan' = Append(completerChan, f)
      /\ ~Tab(f) => completerChan' = completerChan
  BY <1>2 DEF IoPut, Deliver, Tab
<1>5. /\ Shown \in Nat /\ Ahead \in Nat /\ Ahead <= Len(tabs) /\ Len(tabs) \in Nat
      /\ Len(completerChan) \in Nat /\ Ahead = Shown + Len(completerChan)
      /\ \A i \in 1..Len(tabs) : tabs[i] \in Nat
  BY <1>0, AheadBound
<1>6. completerChan \in Seq(Sent) /\ downstream \in Seq(Sent) /\ Coming \in Seq(Sent) /\ Pipe \in Seq(Sent)
  BY <1>0, PipeSent DEF ChanInv, FramesInv
<1>7. Shown' = Shown
  BY <1>1 DEF Shown
<1>8. Ahead' = IF Tab(f) THEN Ahead + 1 ELSE Ahead
  <2>1. CASE Tab(f)
    <3>1. Len(completerChan') = Len(completerChan) + 1
      BY <1>3, <1>4, <1>6, <2>1
    <3>. QED
      BY <1>5, <1>7, <2>1, <3>1 DEF Ahead
  <2>2. CASE ~Tab(f)
    BY <1>4, <1>7, <2>2 DEF Ahead
  <2>. QED
    BY <2>1, <2>2
<1>9. /\ Len(Pipe) \in Nat \ {0} /\ Pipe[1] = f /\ Len(Pipe') = Len(Pipe) - 1
      /\ \A i \in 1..Len(Pipe') : Pipe'[i] = Pipe[i + 1]
  <2>1. Pipe = (<<f>> \o downstream) \o Coming
    BY <1>1, <1>2 DEF Pipe, Held
  <2>2. Pipe' = (<<>> \o downstream) \o Coming
    BY <1>1 DEF Pipe, Held, Coming
  <2>3. PICK S, d, c : S = Sent /\ d = downstream /\ c = Coming
    OBVIOUS
  <2>4. d \in Seq(S) /\ c \in Seq(S) /\ f \in S
    BY <1>3, <1>6, <2>3, Zenon
  <2>5. PICK P, Q : P = Pipe /\ Q = Pipe'
    OBVIOUS
  <2>6. P = (<<f>> \o d) \o c /\ Q = (<<>> \o d) \o c
    BY <2>1, <2>2, <2>3, <2>5, Zenon
  <2>7. Len(P) \in Nat \ {0} /\ P[1] = f /\ Len(Q) = Len(P) - 1 /\ \A i \in 1..Len(Q) : Q[i] = P[i + 1]
    BY <2>4, <2>6
  <2>. QED
    BY <2>5, <2>7, Zenon
<1>10. /\ InLine(Pipe', Ahead', tabs) /\ Rising(Pipe')
       /\ AllInLine(Pipe, Ahead, tabs) => AllInLine(Pipe', Ahead', tabs)
       /\ Tab(f) => Ahead + 1 <= Len(tabs) /\ f.num = tabs[Ahead + 1]
  <2>1. \A i \in 1..Len(Pipe) : Pipe[i].num \in Nat
    BY <1>6 DEF Sent, Frame
  <2>2. InLine(Pipe, Ahead, tabs) /\ Rising(Pipe) /\ Ascending(tabs)
    BY <1>0 DEF LineInv, TabsInv
  <2>3. PICK P, Q, b, T, c : P = Pipe /\ Q = Pipe' /\ b = Ahead /\ T = tabs /\ c = Ahead'
    OBVIOUS
  <2>4. /\ b \in Nat /\ Len(T) \in Nat /\ Len(P) \in Nat \ {0}
        /\ Len(Q) = Len(P) - 1 /\ (\A i \in 1..Len(Q) : Q[i] = P[i + 1])
        /\ (\A i \in 1..Len(T) : T[i] \in Nat) /\ (\A i \in 1..Len(P) : P[i].num \in Nat)
    BY <1>5, <1>9, <2>1, <2>3, Zenon
  <2>5. InLine(P, b, T) /\ Rising(P) /\ Ascending(T) /\ P[1] = f
    BY <1>9, <2>2, <2>3, Zenon
  <2>6. c \in Nat /\ c = IF Tab(P[1]) THEN b + 1 ELSE b
    BY <1>5, <1>8, <2>3, <2>5
  <2>7. /\ InLine(Q, c, T) /\ Rising(Q)
        /\ AllInLine(P, b, T) => AllInLine(Q, c, T)
        /\ Tab(P[1]) => c <= Len(T) /\ P[1].num = T[c]
    <3>1. b \in Nat /\ Len(T) \in Nat /\ Len(P) \in Nat \ {0} /\ c \in Nat
      BY <2>4, <2>6
    <3>2. /\ Len(Q) = Len(P) - 1 /\ (\A i \in 1..Len(Q) : Q[i] = P[i + 1])
          /\ (\A i \in 1..Len(T) : T[i] \in Nat) /\ (\A i \in 1..Len(P) : P[i].num \in Nat)
      BY <2>4
    <3>3. InLine(P, b, T) /\ Rising(P) /\ Ascending(T) /\ c = IF Tab(P[1]) THEN b + 1 ELSE b
      BY <2>5, <2>6
    <3>4. Rising(Q)
      BY <3>1, <3>2, <3>3, FirstLeaves, Zenon
    <3>5. InLine(Q, c, T)
      BY <3>1, <3>2, <3>3, FirstLeaves, Zenon
    <3>6. AllInLine(P, b, T) => AllInLine(Q, c, T)
      BY <3>1, <3>2, <3>3, FirstLeaves, Zenon
    <3>7. ASSUME Tab(P[1]) PROVE c <= Len(T) /\ P[1].num = T[c]
      <4>1. c = b + 1 /\ 1 \in 1..Len(P)
        BY <3>1, <3>3, <3>7
      <4>2. PICK p \in (b + 1)..Len(T) :
                /\ T[p] = P[1].num
                /\ \A r \in (b + 1)..(p - 1) :
                     \E j \in 1..(1 - 1) : Tab(P[j]) /\ P[j].num = T[r]
        BY <3>3, <3>7, <4>1 DEF InLine
      <4>3. p = b + 1
        BY <3>1, <4>2
      <4>. QED
        BY <3>1, <4>1, <4>2, <4>3
    <3>. QED
      BY <3>4, <3>5, <3>6, <3>7
  <2>8. Tab(f) => c = Ahead + 1
    BY <1>8, <2>3
  <2>. QED
    BY <2>3, <2>5, <2>7, <2>8, Zenon
<1>11. LineInv'
  <2>1. ioLoop.pc # "done" /\ spc' = spc /\ tabs' = tabs
    BY <1>1
  <2>. QED
    BY <1>0, <1>10, <2>1, LineAfter DEF LineInv
<1>12. TabsInv'
  BY <1>0, <1>1, <1>7 DEF TabsInv, Ascending
<1>13. ChanInv'
  <2>1. Sent' = Sent
    BY <1>1 DEF Sent, Draws, Turns
  <2>2. CASE ~Tab(f)
    BY <1>0, <1>1, <1>4, <1>7, <2>1, <2>2 DEF ChanInv
  <2>3. CASE Tab(f)
    <3>1. /\ completerChan' \in Seq(Sent) /\ Len(completerChan') = Len(completerChan) + 1
          /\ completerChan'[Len(completerChan) + 1] = f
          /\ \A i \in 1..Len(completerChan) : completerChan'[i] = completerChan[i]
      <4>1. completerChan' = Append(completerChan, f) /\ completerChan \in Seq(Sent) /\ f \in Sent
        BY <1>3, <1>4, <1>6, <2>3
      <4>. QED
        BY <4>1, AppendProperties
    <3>2. ASSUME NEW i \in 1..Len(completerChan')
          PROVE  Shown + i <= Len(tabs) /\ completerChan'[i].num = tabs[Shown + i]
      <4>1. CASE i \in 1..Len(completerChan)
        BY <1>0, <3>1, <4>1 DEF ChanInv
      <4>2. CASE i = Len(completerChan) + 1
        <5>1. Shown + i = Ahead + 1
          BY <1>5, <4>2
        <5>. QED
          BY <1>10, <2>3, <3>1, <4>2, <5>1
      <4>. QED
        BY <1>5, <3>1, <4>1, <4>2
    <3>. QED
      BY <1>1, <1>7, <2>1, <3>1, <3>2 DEF ChanInv
  <2>. QED
    BY <2>2, <2>3
<1>14. ShapeInv' /\ CompletionLag'
  BY <1>0, <1>1 DEF ShapeInv, CompletionLag
<1>. QED
  BY <1>11, <1>12, <1>13, <1>14 DEF LagInv

\* The reader takes a frame from the connection.
LEMMA ReadLag ==
    ASSUME LagInv, FramesInv, IoRead
    PROVE  LagInv'
<1> USE DEF clientVars, readerVars, serverVars, cliHistory
<1>0. TabsInv /\ ChanInv /\ LineInv /\ ShapeInv /\ asked \in Nat /\ downstream \in Seq(Sent)
  BY DEF LagInv, FramesInv
<1>1. /\ ioLoop.pc = "read" /\ downstream # <<>> /\ downstream' = Tail(downstream)
      /\ ioLoop' = [pc |-> "put", frame |-> Head(downstream)]
      /\ UNCHANGED <<cpc, asked, pending, upstream, spc, reply, tabs, late, completerChan, completed>>
  BY DEF IoRead
<1>2. Shown' = Shown /\ Ahead' = Ahead /\ TabsInv' /\ ChanInv' /\ CompletionLag'
  BY <1>0, <1>1, TabsUnmoved
<1>3. Pipe' = Pipe
  <2>1. Held = <<>> /\ Held' = <<Head(downstream)>> /\ Coming' = Coming
    BY <1>1 DEF Held, Coming
  <2>2. <<Head(downstream)>> \o Tail(downstream) = <<>> \o downstream
    BY <1>0, <1>1, FrontMoves
  <2>3. Pipe = (Held \o downstream) \o Coming /\ Pipe' = (Held' \o downstream') \o Coming'
    BY <1>1 DEF Pipe
  <2>. QED
    BY <1>1, <2>1, <2>2, <2>3, Zenon
<1>4. LineInv'
  BY <1>1, <1>2, <1>3, LineUnmoved
<1>5. ShapeInv'
  <2>1. Head(downstream) \in Frame
    <3>1. Head(downstream) \in Sent
      BY <1>0, <1>1
    <3>. QED
      BY <3>1 DEF Sent
  <2>. QED
    BY <1>0, <1>1, <2>1 DEF ShapeInv
<1>. QED
  BY <1>2, <1>4, <1>5 DEF LagInv

\* The reader ends, and nothing arrives any more.
LEMMA ReaderEnds ==
    ASSUME LagInv, FramesInv, IoReadFails \/ IoExit
    PROVE  LagInv'
<1> USE DEF clientVars, readerVars, serverVars, cliHistory
<1>0. TabsInv /\ ChanInv /\ LineInv /\ ShapeInv /\ asked \in Nat
  BY DEF LagInv, FramesInv
<1>1. /\ ioLoop.pc \in {"read", "put"}
      /\ ioLoop' = [ioLoop EXCEPT !.pc = "done"] \/ ioLoop' = [pc |-> "done", frame |-> NoFrame]
      /\ UNCHANGED <<cpc, asked, pending, spc, reply, tabs, late, completerChan, completed>>
  BY DEF IoReadFails, IoExit
<1>2. Shown' = Shown /\ Ahead' = Ahead /\ TabsInv' /\ ChanInv' /\ CompletionLag'
  BY <1>0, <1>1, TabsUnmoved
<1>3. ShapeInv' /\ ioLoop'.pc = "done"
  BY <1>0, <1>1 DEF ShapeInv
<1>4. Pipe' = <<>>
  BY <1>3 DEF Pipe
<1>5. LineInv'
  <2>1. Len(Pipe') = 0
    BY <1>4
  <2>2. InLine(Pipe', Ahead', tabs') /\ Rising(Pipe')
    BY <2>1 DEF InLine, Rising
  <2>. QED
    BY <1>3, <2>2, LineAfter
<1>. QED
  BY <1>2, <1>3, <1>5 DEF LagInv

\* The server ends, and what it has not written is cut off.
LEMMA ServerEnds ==
    ASSUME LagInv, FramesInv, UNCHANGED <<clientVars, ioLoop, completerChan, downstream, cliHistory>>,
           cpc # "start", spc # "done", spc' = "done", reply' = <<>>
    PROVE  LagInv'
<1> USE DEF clientVars, readerVars, serverVars, cliHistory
<1>0. TabsInv /\ ChanInv /\ LineInv /\ ShapeInv /\ asked \in Nat
  BY DEF LagInv, FramesInv
<1>1. Shown' = Shown /\ Ahead' = Ahead /\ TabsInv' /\ ChanInv' /\ CompletionLag'
  BY <1>0, TabsUnmoved
<1>2. ShapeInv'
  BY <1>0 DEF ShapeInv
<1>3. LineInv'
  <2>1. CASE ioLoop.pc = "done"
    <3>1. Pipe' = Pipe
      BY <2>1 DEF Pipe
    <3>. QED
      BY <1>1, <3>1, LineUnmoved
  <2>2. CASE ioLoop.pc # "done"
    <3>1. Pipe = (Held \o downstream) \o Coming /\ Pipe' = (Held \o downstream) \o <<>>
      BY <2>2 DEF Pipe, Held, Coming
    <3>2. PICK S, a, c, P, Q : S = Sent /\ a = Held \o downstream /\ c = Coming /\ P = Pipe /\ Q = Pipe'
      OBVIOUS
    <3>3. a \in Seq(S) /\ c \in Seq(S) /\ P = a \o c /\ Q = a \o <<>>
      BY <3>1, <3>2, PipeSent, Zenon
    <3>4. Len(P) \in Nat /\ Len(Q) \in Nat /\ Len(Q) <= Len(P) /\ \A i \in 1..Len(Q) : Q[i] = P[i]
      BY <3>3
    <3>5. InLine(P, Ahead, tabs) /\ Rising(P) /\ Ahead \in Nat /\ Len(tabs) \in Nat
      BY <1>0, <3>2, AheadBound DEF LineInv
    <3>6. InLine(Q, Ahead, tabs) /\ Rising(Q)
      BY <3>4, <3>5, CutLine
    <3>7. InLine(Pipe', Ahead', tabs') /\ Rising(Pipe')
      BY <1>1, <3>2, <3>6
    <3>. QED
      BY <3>7, LineAfter
  <2>. QED
    BY <2>1, <2>2
<1>. QED
  BY <1>1, <1>2, <1>3 DEF LagInv

\* The server reads a request, and its answers take its place.
LEMMA RequestLag ==
    ASSUME LagInv, FramesInv, ProcessRead
    PROVE  LagInv'
<1> USE DEF clientVars, readerVars, serverVars, cliHistory
<1>0. TabsInv /\ ChanInv /\ LineInv /\ ShapeInv /\ asked \in Nat /\ upstream \in Seq(Sent)
  BY DEF LagInv, FramesInv
<1>1. /\ spc = "read" /\ spc' = "write" /\ upstream # <<>> /\ upstream' = Tail(upstream)
      /\ UNCHANGED <<cpc, asked, pending, ioLoop, downstream, tabs, late, completerChan, completed>>
  BY DEF ProcessRead
<1>2. PICK o \in Outcomes(Head(upstream)) : reply' = o.frames
  BY DEF ProcessRead
<1>3. Head(upstream) \in Sent
  BY <1>0, <1>1
<1>4. /\ reply' \in Seq(Sent)
      /\ \A i \in 1..Len(reply') : reply'[i].type = Head(upstream).type /\ reply'[i].num = Head(upstream).num
      /\ Head(upstream).type # "command" => Len(reply') = 1
  <2>1. PICK h : h = Head(upstream)
    OBVIOUS
  <2>2. h \in Sent /\ o \in Outcomes(h)
    BY <1>2, <1>3, <2>1
  <2>3. /\ o.frames \in Seq(Sent)
        /\ \A i \in 1..Len(o.frames) : o.frames[i].type = h.type /\ o.frames[i].num = h.num
        /\ h.type # "command" => Len(o.frames) = 1
    BY <2>2, OutcomesSent
  <2>. QED
    BY <1>2, <2>1, <2>3
<1>5. Shown' = Shown /\ Ahead' = Ahead /\ TabsInv' /\ ChanInv' /\ CompletionLag'
  BY <1>0, <1>1, TabsUnmoved
<1>6. ShapeInv'
  BY <1>0, <1>1 DEF ShapeInv
<1>7. CASE ioLoop.pc = "done"
  <2>1. Pipe' = Pipe
    BY <1>1, <1>7 DEF Pipe
  <2>2. LineInv'
    BY <1>1, <1>5, <1>7, <2>1, LineUnmoved
  <2>. QED
    BY <1>5, <1>6, <2>2 DEF LagInv
<1>8. CASE ioLoop.pc # "done"
  <2>1. Pipe = (Held \o downstream) \o (<<>> \o upstream)
    <3>1. reply = <<>>
      BY <1>0, <1>1 DEF ShapeInv
    <3>. QED
      BY <1>1, <1>8, <3>1 DEF Pipe, Coming
  <2>2. Pipe' = (Held \o downstream) \o (reply' \o Tail(upstream))
    BY <1>1, <1>8 DEF Pipe, Held, Coming
  <2>3. PICK S, a, r, u, P, Q : /\ S = Sent /\ a = Held \o downstream /\ r = reply' /\ u = upstream
                                /\ P = Pipe /\ Q = Pipe'
    OBVIOUS
  <2>4. /\ a \in Seq(S) /\ r \in Seq(S) /\ u \in Seq(S) /\ u # <<>>
        /\ P = a \o (<<>> \o u) /\ Q = a \o (r \o Tail(u))
    BY <1>0, <1>1, <1>4, <2>1, <2>2, <2>3, PipeSent, Zenon
  <2>5. PICK n, k, h : n = Len(a) /\ k = Len(r) /\ h = Head(u)
    OBVIOUS
  <2>6. /\ n \in Nat /\ k \in Nat /\ Len(P) \in Nat /\ n + 1 <= Len(P)
        /\ Len(Q) = (Len(P) - 1) + k
        /\ P[n + 1] = h
        /\ \A i \in 1..n : Q[i] = P[i]
        /\ \A i \in (n + 2)..Len(P) : Q[(i - 1) + k] = P[i]
        /\ \A i \in (n + 1)..(n + k) : Q[i] = r[i - n]
    BY <2>4, <2>5, PlaceTaken, SMTT(30)
  <2>7. (\A i \in 1..k : r[i].type = h.type /\ r[i].num = h.num) /\ (h.type # "command" => k = 1)
    BY <1>4, <2>3, <2>5, Zenon
  <2>8. \A i \in (n + 1)..(n + k) : Q[i].type = P[n + 1].type /\ Q[i].num = P[n + 1].num
    <3>. SUFFICES ASSUME NEW i \in (n + 1)..(n + k)
                  PROVE  Q[i].type = h.type /\ Q[i].num = h.num
      BY <2>6
    <3>1. i - n \in 1..k
      <4>1. n \in Nat /\ k \in Nat
        BY <2>6
      <4>. QED
        BY <4>1
    <3>2. Q[i] = r[i - n]
      BY <2>6, Zenon
    <3>. QED
      BY <2>7, <3>1, <3>2, Zenon
  <2>9. Tab(P[n + 1]) => k = 1
    BY <2>6, <2>7 DEF Tab
  <2>10. /\ InLine(P, Ahead, tabs) /\ Rising(P) /\ Ahead \in Nat /\ Len(tabs) \in Nat
         /\ AllInLine(P, Ahead, tabs)
    BY <1>0, <1>1, <1>8, <2>3, AheadBound DEF LineInv
  <2>11. PICK b, T : b = Ahead /\ T = tabs
    OBVIOUS
  <2>12. InLine(P, b, T) /\ Rising(P) /\ b \in Nat /\ Len(T) \in Nat /\ AllInLine(P, b, T)
    BY <2>10, <2>11, Zenon
  <2>13. InLine(Q, b, T) /\ Rising(Q) /\ (AllInLine(P, b, T) => AllInLine(Q, b, T))
    BY <2>6, <2>8, <2>9, <2>12, AnswerReplaces
  <2>14. InLine(Pipe', Ahead', tabs') /\ Rising(Pipe') /\ AllInLine(Pipe', Ahead', tabs')
    BY <1>1, <1>5, <2>3, <2>11, <2>12, <2>13
  <2>15. LineInv'
    BY <2>14, LineAfter
  <2>. QED
    BY <1>5, <1>6, <2>15 DEF LagInv
<1>. QED
  BY <1>7, <1>8

\* The server writes a frame of its answer.
LEMMA WriteLag ==
    ASSUME LagInv, FramesInv, ProcessWrite
    PROVE  LagInv'
<1> USE DEF clientVars, readerVars, serverVars, cliHistory
<1>0. TabsInv /\ ChanInv /\ LineInv /\ ShapeInv /\ asked \in Nat /\ FramesInv
  BY DEF LagInv, FramesInv
<1>1. /\ spc = "write" /\ spc' = "write" /\ reply # <<>> /\ reply' = Tail(reply)
      /\ downstream' = Append(downstream, Head(reply))
      /\ UNCHANGED <<cpc, asked, pending, ioLoop, upstream, tabs, late, completerChan, completed>>
  BY DEF ProcessWrite
<1>2. Shown' = Shown /\ Ahead' = Ahead /\ TabsInv' /\ ChanInv' /\ CompletionLag'
  BY <1>0, <1>1, TabsUnmoved
<1>3. ShapeInv'
  BY <1>0, <1>1 DEF ShapeInv
<1>4. Pipe' = Pipe
  <2>1. CASE ioLoop.pc = "done"
    BY <1>1, <2>1 DEF Pipe
  <2>2. CASE ioLoop.pc # "done"
    <3>1. Pipe = (Held \o downstream) \o (reply \o upstream)
      BY <1>1, <2>2 DEF Pipe, Coming
    <3>2. Pipe' = (Held \o Append(downstream, Head(reply))) \o (Tail(reply) \o upstream)
      BY <1>1, <2>2 DEF Pipe, Held, Coming
    <3>3. PICK S, a, d, r, u : S = Sent /\ a = Held /\ d = downstream /\ r = reply /\ u = upstream
      OBVIOUS
    <3>4. a \in Seq(S) /\ d \in Seq(S) /\ r \in Seq(S) /\ u \in Seq(S) /\ r # <<>>
      BY <1>0, <1>1, <3>3, PipeSent DEF FramesInv
    <3>5. Head(r) \in S
      BY <3>4
    <3>6. a \o Append(d, Head(r)) = Append(a \o d, Head(r))
      BY <3>4, <3>5
    <3>7. Head(r \o u) = Head(r) /\ Tail(r \o u) = Tail(r) \o u /\ r \o u # <<>>
      BY <3>4, FirstQueue, Zenon
    <3>8. a \o d \in Seq(S) /\ r \o u \in Seq(S)
      BY <3>4, QueuesJoin, Zenon
    <3>9. (a \o d) \o (r \o u) = Append(a \o d, Head(r \o u)) \o Tail(r \o u)
      BY <3>7, <3>8, HeadMoves, Zenon
    <3>. QED
      BY <3>1, <3>2, <3>3, <3>6, <3>7, <3>9, Zenon
  <2>. QED
    BY <2>1, <2>2
<1>5. LineInv'
  BY <1>1, <1>2, <1>4, LineUnmoved
<1>. QED
  BY <1>2, <1>3, <1>5 DEF LagInv

\* Every step keeps the line, the channel and the history in step.
LEMMA NextLag ==
    ASSUME LagInv, FramesInv, [CliNext]_cliVars
    PROVE  LagInv'
<1> USE DEF clientVars, readerVars, serverVars, cliHistory
<1>0. ShapeInv /\ TabsInv /\ asked \in Nat
  BY DEF LagInv, FramesInv
<1>1. CASE Dial
  <2>1. /\ Ask(IF shell THEN "handshake" ELSE "command")
        /\ cpc = "start" /\ cpc' = IF shell THEN "handshake" ELSE "wait"
        /\ ioLoop' = [ioLoop EXCEPT !.pc = "read"] /\ spc' = "queued"
        /\ UNCHANGED <<reply, downstream, tabs, late, completerChan, completed>>
    BY <1>1 DEF Dial
  <2>2. ioLoop.pc = "off" /\ spc = "off" /\ reply = <<>>
    BY <1>0, <2>1 DEF ShapeInv
  <2>3. PICK t \in {"handshake", "command"} : Ask(t)
    BY <2>1
  <2>4. cpc' \notin {"start", "completing"} /\ ioLoop'.pc = "read"
    BY <1>0, <2>1 DEF ShapeInv
  <2>5. ShapeInv'
    BY <1>0, <2>1, <2>2, <2>4 DEF ShapeInv
  <2>6. Held' = Held
    BY <2>2, <2>4 DEF Held
  <2>. QED
    BY <2>1, <2>2, <2>3, <2>4, <2>5, <2>6, AskOther
<1>2. CASE PromptCommand
  <2>1. /\ Ask("command") /\ cpc = "prompt" /\ cpc' = "wait"
        /\ UNCHANGED <<ioLoop, spc, reply, downstream, tabs, late, completerChan, completed>>
    BY <1>2 DEF PromptCommand
  <2>2. ShapeInv' /\ Held' = Held
    BY <1>0, <2>1 DEF ShapeInv, Held
  <2>. QED
    BY <2>1, <2>2, AskOther
<1>3. CASE TabPressed
  BY <1>3, TabLag
<1>4. CASE TabFails
  <2>1. /\ asked' = asked + 1 /\ cpc = "prompt" /\ cpc' = cpc
        /\ UNCHANGED <<ioLoop, spc, reply, downstream, upstream, tabs, late, completerChan, completed>>
    BY <1>4 DEF TabFails
  <2>2. Shown' = Shown /\ Ahead' = Ahead /\ TabsInv' /\ ChanInv' /\ CompletionLag'
    BY <1>0, <2>1, TabsUnmoved
  <2>3. Pipe' = Pipe
    BY <2>1 DEF Pipe, Held, Coming
  <2>4. LineInv'
    BY <2>1, <2>2, <2>3, LineUnmoved
  <2>5. ShapeInv'
    BY <1>0, <2>1 DEF ShapeInv
  <2>. QED
    BY <2>2, <2>4, <2>5 DEF LagInv
<1>5. CASE CompleterTakes
  BY <1>5, TakesLag
<1>6. CASE CompleterTimesOut
  BY <1>6, TimesOutLag
<1>7. CASE IoRead
  BY <1>7, ReadLag
<1>8. CASE IoReadFails \/ IoExit
  BY <1>8, ReaderEnds
<1>9. CASE IoPut
  BY <1>9, PutLag
<1>10. CASE ProcessRead
  BY <1>10, RequestLag
<1>11. CASE ProcessWrite
  BY <1>11, WriteLag
<1>12. CASE ProcessEnds
  <2>1. /\ spc \in {"write", "read"} /\ spc' = "done" /\ reply' = <<>>
        /\ UNCHANGED <<clientVars, ioLoop, completerChan, downstream, cliHistory>>
    BY <1>12 DEF ProcessEnds
  <2>2. cpc # "start"
    BY <1>0, <2>1 DEF ShapeInv
  <2>. QED
    BY <2>1, <2>2, ServerEnds
<1>13. CASE StopListener
  <2>1. /\ reply' = reply /\ UNCHANGED <<clientVars, ioLoop, completerChan, downstream, upstream, cliHistory>>
        /\ (spc = "queued" /\ spc' = "done") \/ spc' = spc
    BY <1>13 DEF StopListener
  <2>2. CASE spc = "queued" /\ spc' = "done"
    <3>1. cpc # "start" /\ reply = <<>>
      BY <1>0, <2>2 DEF ShapeInv
    <3>. QED
      BY <2>1, <2>2, <3>1, ServerEnds
  <2>3. CASE spc' = spc
    BY <1>0, <2>1, <2>3, Untouched
  <2>. QED
    BY <2>1, <2>2, <2>3
<1>14. CASE WaitTakes \/ WaitTimesOut \/ WaitExit
  <2>1. /\ cpc = "wait" /\ cpc' \in {"wait", "prompt", "done"}
        /\ UNCHANGED <<asked, tabs, late, completerChan, completed, ioLoop, downstream, upstream, spc, reply>>
    BY <1>14 DEF WaitTakes, WaitTimesOut, WaitExit, WaitGivesUp, WaitReturns
  <2>. QED
    BY <1>0, <2>1, Untouched
<1>15. CASE DialFails \/ ShellReady \/ ShellCancelled \/ PromptEnds
  <2>1. /\ cpc \in {"start", "handshake", "prompt"} /\ cpc' \in {"prompt", "done"}
        /\ UNCHANGED <<asked, tabs, late, completerChan, completed, ioLoop, downstream, upstream, spc, reply>>
    BY <1>15 DEF DialFails, ShellReady, ShellCancelled, PromptEnds, ShellReturns
  <2>. QED
    BY <1>0, <2>1, Untouched
<1>16. CASE ServeAccept \/ ProcessStore \/ ProcessAnswered
  <2>1. /\ spc \in {"queued", "accepted", "write"} /\ spc' \in {"accepted", "read"} /\ reply' = reply
        /\ spc = "write" => reply = <<>>
        /\ UNCHANGED <<clientVars, asked, tabs, late, completerChan, completed, ioLoop, downstream, upstream>>
    BY <1>16 DEF ServeAccept, ProcessStore, ProcessAnswered
  <2>2. cpc # "start" /\ reply = <<>>
    BY <1>0, <2>1 DEF ShapeInv
  <2>. QED
    BY <1>0, <2>1, <2>2, Untouched
<1>17. CASE StopRange \/ UNCHANGED cliVars
  <2>1. UNCHANGED <<clientVars, tabs, late, completerChan, completed, ioLoop, downstream, upstream, spc, reply>>
    BY <1>17 DEF StopRange, cliVars
  <2>. QED
    BY <1>0, <2>1, Untouched
<1>. QED
  BY <1>1, <1>2, <1>3, <1>4, <1>5, <1>6, <1>7, <1>8, <1>9, <1>10, <1>11, <1>12, <1>13, <1>14,
     <1>15, <1>16, <1>17, Zenon DEF CliNext, ClientStep, IoStep, ProcessStep

\* Claim: in every session, whatever is slow, given up or cut off, a completion
\* lags by exactly the completions given up before it: the completer takes the
\* next frame of completerChan without looking at its Seq.
THEOREM CompletionTheorem == CliSpec => []CompletionLag
<1>1. CliInit => FramesInv /\ LagInv
  BY InitFrames, InitLag
<1>2. FramesInv /\ LagInv /\ [CliNext]_cliVars => (FramesInv /\ LagInv)'
  BY NextFrames, NextLag
<1>3. LagInv => CompletionLag
  BY DEF LagInv
<1>. QED
  BY <1>1, <1>2, <1>3, PTL DEF CliSpec

-----------------------------------------------------------------------------
(* The NATS broker.                                                        *)

\* What Connect, Subscribe and Destroy keep: the only connection the library
\* can have open is the one the broker points at, and every subscription is
\* on it.  Destroying a connected broker pins conn, so that Init refuses to
\* dial again; only a broker destroyed before Init can still open one.
ConnInv ==
    /\ conn \in Nat /\ dialled \in Nat
    /\ open \subseteq {conn} \ {0}
    /\ \A s \in subs : s.conn = conn /\ conn \in open
    /\ closed => subs = {}
    /\ closed /\ ~destroyedEmpty => conn # 0 /\ open = {}

\* ConnInv gives the property: at most one open connection, and none, nor a
\* subscription, after Destroy on a connected broker.
LEMMA ConnInvReleases == ConnInv => DestroyReleases
<1>1. SUFFICES ASSUME ConnInv PROVE DestroyReleases
      OBVIOUS
<1>2. IsFiniteSet({conn}) /\ Cardinality({conn}) = 1
      BY FS_Singleton
<1>3. open \subseteq {conn}
      BY <1>1 DEF ConnInv
<1>4. Cardinality(open) <= 1
      BY <1>2, <1>3, FS_Subset
<1>5. closed => subs = {} /\ (open # {} => destroyedEmpty)
      BY <1>1 DEF ConnInv
<1>6. QED
      BY <1>4, <1>5 DEF DestroyReleases

\* Init dials only when conn is 0, so the new connection replaces nothing that
\* is open, whether the broker was destroyed before or not.
LEMMA ConnectKeeps == ConnInv /\ Connect => ConnInv'
<1>1. SUFFICES ASSUME ConnInv, Connect PROVE ConnInv'
      OBVIOUS
<1>2. open = {} /\ subs = {} /\ (closed => destroyedEmpty)
      BY <1>1 DEF ConnInv, Connect
<1>3. open' \subseteq {conn'} \ {0} /\ conn' \in Nat /\ dialled' \in Nat
      BY <1>1, <1>2 DEF ConnInv, Connect
<1>4. UNCHANGED <<closed, subs, destroyedEmpty>>
      BY <1>1 DEF Connect
<1>5. QED
      BY <1>1, <1>2, <1>3, <1>4 DEF ConnInv

\* Destroy closes the one connection and, with it, every subscription.
LEMMA DestroyKeeps == ConnInv /\ Destroy => ConnInv'
<1>1. SUFFICES ASSUME ConnInv, Destroy PROVE ConnInv'
      OBVIOUS
<1>2. open' = {}
      BY <1>1 DEF ConnInv, Destroy
<1>3. subs' = {}
      BY <1>1 DEF ConnInv, Destroy
<1>4. closed' = TRUE /\ destroyedEmpty' = (conn = 0) /\ UNCHANGED <<conn, dialled>>
      BY <1>1 DEF Destroy
<1>5. QED
      BY <1>1, <1>2, <1>3, <1>4 DEF ConnInv

\* Every operation of the broker keeps ConnInv.
LEMMA NextConnInv == ConnInv /\ [BrokerNext]_brokerVars => ConnInv'
<1>1. SUFFICES ASSUME ConnInv, [BrokerNext]_brokerVars PROVE ConnInv'
      OBVIOUS
<1>2. CASE Connect
      BY <1>1, <1>2, ConnectKeeps
<1>3. CASE Destroy
      BY <1>1, <1>3, DestroyKeeps
<1>4. CASE \E t \in Topics : Subscribe(t)
      BY <1>1, <1>4 DEF ConnInv, Subscribe, Usable
<1>5. CASE \E s \in subs : Unsubscribe(s)
      BY <1>1, <1>5 DEF ConnInv, Unsubscribe
<1>6. CASE UNCHANGED brokerVars
      BY <1>1, <1>6 DEF ConnInv, brokerVars
<1>7. QED
      BY <1>1, <1>2, <1>3, <1>4, <1>5, <1>6 DEF BrokerNext

\* Init, Publish, Subscribe and Destroy in any order leave at most one open
\* connection, and a broker destroyed while connected neither holds one nor
\* delivers to a subscription: for any topics and any number of dials.
THEOREM DestroyTheorem == BrokerSpec => []DestroyReleases
<1>1. BrokerInit => ConnInv
      BY DEF BrokerInit, ConnInv
<1>2. ConnInv /\ [BrokerNext]_brokerVars => ConnInv'
      BY NextConnInv
<1>3. ConnInv => DestroyReleases
      BY ConnInvReleases
<1>4. QED
      BY <1>1, <1>2, <1>3, PTL DEF BrokerSpec

-----------------------------------------------------------------------------
(* Service discovery.                                                      *)

\* The members and the watch have seen revisions of the log.
DiscoveryType ==
    /\ log \in Seq(SUBSET Instances) /\ Len(log) > 0
    /\ applied \in [Members -> 1..Len(log)]
    /\ watchOf \in Members
    /\ seen \in 1..Len(log)
    /\ missed \in BOOLEAN /\ setupFlag \in BOOLEAN

\* A longer log has the old revisions.
LEMMA Committed ==
    ASSUME DiscoveryType, NEW s \in SUBSET Instances, Commit(s)
    PROVE  /\ log' \in Seq(SUBSET Instances) /\ Len(log') = Len(log) + 1
           /\ \A k \in 1..Len(log) : log'[k] = log[k]
<1>1. log' = Append(log, s) /\ log \in Seq(SUBSET Instances)
      BY DEF Commit, DiscoveryType
<1>2. PICK S : S = SUBSET Instances
      OBVIOUS
<1>3. log \in Seq(S) /\ s \in S
      BY <1>1, <1>2
<1>4. log' \in Seq(S) /\ Len(log') = Len(log) + 1 /\ \A k \in 1..Len(log) : log'[k] = log[k]
      BY <1>1, <1>3
<1>. QED  BY <1>2, <1>4

\* A commit touches nothing of the resolver.
LEMMA CommitKeeps ==
    ASSUME DiscoveryType /\ AddressesFresh, NEW s \in SUBSET Instances, Commit(s)
    PROVE  (DiscoveryType /\ AddressesFresh)'
<1>1. /\ log' \in Seq(SUBSET Instances) /\ Len(log') = Len(log) + 1
      /\ \A k \in 1..Len(log) : log'[k] = log[k]
      BY Committed
<1>2. UNCHANGED <<applied, watchOf, seen, setupFlag, loop, addrs, missed>>
      BY DEF Commit, resolverVars
<1>3. Len(log) \in Nat
      BY DEF DiscoveryType
<1>4. DiscoveryType'
      BY <1>1, <1>2, <1>3 DEF DiscoveryType
<1>5. \A k : AddrsOf(log[k])' = AddrsOf(log'[k])
      BY DEF AddrsOf
<1>6. \A k \in 1..Len(log) : k \in 1..Len(log') /\ log[k]' = log[k] /\ AddrsOf(log[k])' = AddrsOf(log[k])
      BY <1>1, <1>3 DEF AddrsOf
<1>7. \A k \in seen..Len(log) : k \in 1..Len(log) /\ k \in (seen..Len(log))'
      BY <1>1, <1>2, <1>3 DEF DiscoveryType
<1>8. AddressesFresh'
      BY <1>2, <1>6, <1>7, Zenon DEF AddressesFresh
<1>. QED  BY <1>4, <1>8

\* A read of the registry gives the client one revision.
LEMMA ReadKeeps ==
    ASSUME DiscoveryType /\ AddressesFresh, NEW m \in Members, GetService(m)
    PROVE  (DiscoveryType /\ AddressesFresh)'
<1>1. UNCHANGED <<log, applied, watchOf, seen, setupFlag>> /\ missed' = (applied[m] < seen)
      BY DEF GetService, etcdVars
<1>2. DiscoveryType'
      BY <1>1 DEF DiscoveryType
<1>3. PICK r : r = applied[m]
      OBVIOUS
<1>4. r \in 1..Len(log) /\ Len(log) \in Nat /\ seen \in 1..Len(log)
      BY <1>3 DEF DiscoveryType
<1>5. addrs' = IF log[r] = {} THEN addrs ELSE AddrsOf(log[r])
      BY <1>3, Zenon DEF GetService, Published
<1>6. \A k : AddrsOf(log[k])' = AddrsOf(log[k]) /\ log[k]' = log[k]
      BY <1>1, Zenon DEF AddrsOf
<1>7. (addrs = {} \/ \E k \in 1..Len(log) : addrs = AddrsOf(log[k]))'
      BY <1>1, <1>4, <1>5, <1>6, Zenon DEF AddressesFresh
<1>8. ~missed' => r \in seen..Len(log)
  <2>1. ~missed' => ~(r < seen)
        BY <1>1, <1>3, Zenon
  <2>. QED  BY <1>4, <2>1
<1>9. ~missed' => (\E k \in seen..Len(log) : log[k] = {} \/ addrs = AddrsOf(log[k]))'
      BY <1>1, <1>5, <1>6, <1>8, Zenon
<1>. QED  BY <1>2, <1>7, <1>9, Zenon DEF AddressesFresh

\* Any other step leaves the addresses and the log alone, and the revision
\* seen too unless a read follows.
LEMMA OthersKeep ==
    ASSUME DiscoveryType /\ AddressesFresh, UNCHANGED <<log, addrs>>, DiscoveryType',
           loop' = "get" \/ missed' \/ (loop # "get" /\ UNCHANGED <<seen, setupFlag, missed>>)
    PROVE  AddressesFresh'
<1>1. \A k : AddrsOf(log[k])' = AddrsOf(log[k]) /\ log[k]' = log[k]
      BY DEF AddrsOf
<1>2. CASE loop' = "get" \/ missed'
  <2>1. log' = log /\ addrs' = addrs
        OBVIOUS
  <2>. QED  BY <1>1, <1>2, <2>1, Zenon DEF AddressesFresh
<1>3. CASE loop # "get" /\ UNCHANGED <<seen, setupFlag, missed>>
  <2>1. log' = log /\ addrs' = addrs /\ loop # "get" /\ seen' = seen /\ setupFlag' = setupFlag /\ missed' = missed
        BY <1>3
  <2>. QED  BY <1>1, <2>1, Zenon DEF AddressesFresh
<1>. QED  BY <1>2, <1>3

\* Every step keeps the addresses fresh.
LEMMA NextFresh ==
    DiscoveryType /\ AddressesFresh /\ [DiscoveryNext]_discoveryVars => (DiscoveryType /\ AddressesFresh)'
<1>. SUFFICES ASSUME DiscoveryType, AddressesFresh, [DiscoveryNext]_discoveryVars
              PROVE  (DiscoveryType /\ AddressesFresh)'
     OBVIOUS
<1>. USE DEF etcdVars, resolverVars
<1>1. CASE LoopCheck
      BY <1>1, OthersKeep DEF LoopCheck, DiscoveryType
<1>2. CASE NextFirst
      BY <1>2, OthersKeep DEF NextFirst, DiscoveryType
<1>3. CASE NextEvent
  <2>1. applied[watchOf] \in 1..Len(log) /\ Len(log) \in Nat /\ seen \in 1..Len(log)
        BY DEF DiscoveryType
  <2>2. seen' \in 1..Len(log)
        BY <1>3, <2>1 DEF NextEvent
  <2>3. DiscoveryType'
        BY <1>3, <2>2 DEF NextEvent, DiscoveryType
  <2>. QED  BY <1>3, <2>3, OthersKeep DEF NextEvent
<1>4. CASE NextProgress
      BY <1>4, OthersKeep DEF NextProgress, DiscoveryType
<1>5. CASE NextFails
      BY <1>5, OthersKeep DEF NextFails, DiscoveryType
<1>6. CASE \E m \in Members : GetService(m)
      BY <1>6, ReadKeeps
<1>7. CASE GetFails
      BY <1>7, OthersKeep DEF GetFails, DiscoveryType
<1>8. CASE \E i \in Instances : InstanceRegisters(i) \/ InstanceLeaves(i)
  <2>1. PICK i \in Instances : InstanceRegisters(i) \/ InstanceLeaves(i)
        BY <1>8
  <2>2. Last(log) \in SUBSET Instances
        BY DEF DiscoveryType, Last
  <2>3. PICK s \in SUBSET Instances : Commit(s)
        BY <2>1, <2>2 DEF InstanceRegisters, InstanceLeaves
  <2>. QED  BY <2>3, CommitKeeps
<1>9. CASE \E m \in Members : Apply(m)
  <2>1. PICK m \in Members : Apply(m)
        BY <1>9
  <2>2. DiscoveryType'
        BY <2>1 DEF Apply, DiscoveryType
  <2>3. AddressesFresh'
    <3>1. UNCHANGED <<log, addrs, seen, setupFlag, missed, loop>>
          BY <2>1 DEF Apply
    <3>2. \A k : AddrsOf(log[k])' = AddrsOf(log[k]) /\ log[k]' = log[k]
          BY <3>1, Zenon DEF AddrsOf
    <3>. QED  BY <3>1, <3>2, Zenon DEF AddressesFresh
  <2>. QED  BY <2>2, <2>3
<1>10. ASSUME UNCHANGED <<log, applied, watchOf, addrs, seen, setupFlag, missed, loop>>
       PROVE  (DiscoveryType /\ AddressesFresh)'
  <2>1. DiscoveryType'
        BY <1>10 DEF DiscoveryType
  <2>2. \A k : AddrsOf(log[k])' = AddrsOf(log[k]) /\ log[k]' = log[k]
        BY <1>10, Zenon DEF AddrsOf
  <2>3. AddressesFresh'
        BY <1>10, <2>2, Zenon DEF AddressesFresh
  <2>. QED  BY <2>1, <2>3
<1>11. CASE WatchBreaks \/ ResolverClose \/ WatcherStop \/ UNCHANGED discoveryVars
      BY <1>10, <1>11 DEF WatchBreaks, ResolverClose, WatcherStop, discoveryVars
<1>. QED  BY <1>1, <1>2, <1>3, <1>4, <1>5, <1>6, <1>7, <1>8, <1>9, <1>11 DEF DiscoveryNext, LoopStep

\* Whatever members answer the reads, and however the registry changes
\* meanwhile, the client has one revision, no older than the last event read:
\* for any instances, members and number of revisions.
THEOREM FreshTheorem == DiscoverySpec => []AddressesFresh
<1>1. DiscoveryInit => DiscoveryType /\ AddressesFresh
  <2>. SUFFICES ASSUME DiscoveryInit PROVE DiscoveryType /\ AddressesFresh
       OBVIOUS
  <2>1. PICK s \in SUBSET Instances : log = <<s>>
        BY DEF DiscoveryInit
  <2>2. log \in Seq(SUBSET Instances) /\ Len(log) = 1
        BY <2>1
  <2>3. DiscoveryType
    <3>1. applied = [m \in Members |-> 1] /\ watchOf \in Members /\ seen = 1
          BY DEF DiscoveryInit
    <3>2. missed \in BOOLEAN /\ setupFlag \in BOOLEAN
          BY Zenon DEF DiscoveryInit
    <3>3. applied \in [Members -> 1..Len(log)] /\ seen \in 1..Len(log) /\ Len(log) > 0
          BY <2>2, <3>1
    <3>. QED  BY <2>2, <3>1, <3>2, <3>3, Zenon DEF DiscoveryType
  <2>4. AddressesFresh
        BY Zenon DEF DiscoveryInit, AddressesFresh
  <2>. QED  BY <2>3, <2>4
<1>. QED  BY <1>1, NextFresh, PTL DEF DiscoverySpec

-----------------------------------------------------------------------------
(* Prefixes of sequences.                                                  *)

\* A prefix of a sequence.
LEMMA Cut ==
    ASSUME NEW S, NEW s \in Seq(S), NEW n \in 0..Len(s)
    PROVE  /\ SubSeq(s, 1, n) \in Seq(S)
           /\ Len(SubSeq(s, 1, n)) = n
           /\ \A i \in 1..n : SubSeq(s, 1, n)[i] = s[i]
OBVIOUS

\* Sequences with the same elements are the same.
LEMMA SeqsEqual ==
    ASSUME NEW S, NEW T, NEW s \in Seq(S), NEW t \in Seq(T), Len(s) = Len(t),
           \A i \in 1..Len(s) : s[i] = t[i]
    PROVE  s = t
OBVIOUS

\* The whole of a sequence is its longest prefix,
LEMMA CutAll ==
    ASSUME NEW S, NEW s \in Seq(S)
    PROVE  SubSeq(s, 1, Len(s)) = s
<1>1. PICK a : a = SubSeq(s, 1, Len(s))
      OBVIOUS
<1>2. a \in Seq(S) /\ Len(a) = Len(s) /\ \A i \in 1..Len(s) : a[i] = s[i]
      BY <1>1, Cut
<1>3. a = s
      BY <1>2, SeqsEqual
<1>. QED  BY <1>1, <1>3

\* and nothing its shortest.
LEMMA CutNone ==
    ASSUME NEW S, NEW s \in Seq(S)
    PROVE  SubSeq(s, 1, 0) = <<>>
OBVIOUS

\* A prefix of a prefix is a prefix.
LEMMA CutTwice ==
    ASSUME NEW S, NEW s \in Seq(S), NEW n \in 0..Len(s), NEW m \in 0..n
    PROVE  SubSeq(SubSeq(s, 1, n), 1, m) = SubSeq(s, 1, m)
<1>1. PICK a : a = SubSeq(s, 1, n)
      OBVIOUS
<1>2. a \in Seq(S) /\ Len(a) = n /\ \A i \in 1..n : a[i] = s[i]
      BY <1>1, Cut
<1>3. PICK b : b = SubSeq(a, 1, m)
      OBVIOUS
<1>4. b \in Seq(S) /\ Len(b) = m /\ \A i \in 1..m : b[i] = a[i]
      BY <1>2, <1>3, Cut
<1>5. PICK c : c = SubSeq(s, 1, m)
      OBVIOUS
<1>6. c \in Seq(S) /\ Len(c) = m /\ \A i \in 1..m : c[i] = s[i]
      BY <1>5, Cut
<1>7. b = c
      BY <1>2, <1>4, <1>6, SeqsEqual
<1>. QED  BY <1>1, <1>3, <1>5, <1>7

\* One more element at the end leaves the prefixes alone.
LEMMA CutAppend ==
    ASSUME NEW S, NEW s \in Seq(S), NEW x \in S, NEW m \in 0..Len(s)
    PROVE  SubSeq(Append(s, x), 1, m) = SubSeq(s, 1, m)
<1>1. PICK a : a = Append(s, x)
      OBVIOUS
<1>2. a \in Seq(S) /\ Len(a) = Len(s) + 1 /\ \A i \in 1..Len(s) : a[i] = s[i]
      BY <1>1
<1>3. PICK b : b = SubSeq(a, 1, m)
      OBVIOUS
<1>4. b \in Seq(S) /\ Len(b) = m /\ \A i \in 1..m : b[i] = a[i]
      BY <1>2, <1>3, Cut
<1>5. PICK c : c = SubSeq(s, 1, m)
      OBVIOUS
<1>6. c \in Seq(S) /\ Len(c) = m /\ \A i \in 1..m : c[i] = s[i]
      BY <1>5, Cut
<1>7. b = c
      BY <1>2, <1>4, <1>6, SeqsEqual
<1>. QED  BY <1>1, <1>3, <1>5, <1>7

\* A set of positions has a smallest one.
LEMMA LeastPosition ==
    ASSUME NEW T, T \subseteq Nat, T # {}
    PROVE  Min(T) \in T
<1>1. PICK x \in T : \A y \in T : ~(<<y, x>> \in OpToRel(<, Nat))
      BY NatLessThanWellFounded, WFMin
<1>2. \A y \in T : <<y, x>> \in OpToRel(<, Nat) <=> y < x
      BY DEF OpToRel
<1>3. \A y \in T : ~(y < x)
      BY <1>1, <1>2, Zenon
<1>4. \A y \in T : x <= y
      BY <1>3
<1>. QED  BY <1>4, Zenon DEF Min

-----------------------------------------------------------------------------
(* The CLI router's tree.                                                  *)

\* The names of nodes.
RouteNames == STRING \cup {"app"}

\* The names of a path are names, and no more than its segments.
LEMMA NamesTyped ==
    ASSUME NEW path \in Seq(STRING)
    PROVE  NamesIn(path) \in Seq(RouteNames) /\ Len(NamesIn(path)) \in 0..Len(path)
<1>. DEFINE I == {i \in 1..Len(path) : path[i] \in RouteParams}
            cut == IF I # {} THEN Min(I) ELSE 0
            n == IF cut = 0 THEN Len(path) ELSE cut - 1
<1>1. I # {} => Min(I) \in I
  <2>1. I \subseteq Nat
        OBVIOUS
  <2>. HIDE DEF I
  <2>. QED  BY <2>1, LeastPosition
<1>2. cut \in 0..Len(path)
      BY <1>1
<1>3. n \in 0..Len(path)
  <2>. HIDE DEF cut
  <2>. QED  BY <1>2
<1>4. NamesIn(path) = [i \in 1..n |-> NameOf(path[i])]
      BY Zenon DEF NamesIn, SelectInSeq
<1>. HIDE DEF n
<1>5. \A i \in 1..n : NameOf(path[i]) \in RouteNames
      BY <1>3 DEF NameOf, RouteNames
<1>. QED  BY <1>3, <1>4, <1>5

\* How far words lead: as far as all prefixes are nodes, and the next is not.
LEMMA DepthIs ==
    ASSUME NEW S, NEW words \in Seq(S), NEW d \in 0..Len(words),
           \A j \in 0..d : SubSeq(words, 1, j) \in DOMAIN nodes,
           d = Len(words) \/ SubSeq(words, 1, d + 1) \notin DOMAIN nodes
    PROVE  Depth(words) = d
<1>. DEFINE R == {k \in 0..Len(words) : \A j \in 0..k : SubSeq(words, 1, j) \in DOMAIN nodes}
<1>1. d \in R
      OBVIOUS
<1>2. ASSUME NEW k \in R
      PROVE  d >= k
  <2>1. k \in 0..Len(words) /\ \A j \in 0..k : SubSeq(words, 1, j) \in DOMAIN nodes
        OBVIOUS
  <2>2. ASSUME k > d
        PROVE  FALSE
    <3>1. d + 1 \in 0..k /\ d # Len(words)
          BY <2>1, <2>2
    <3>. QED  BY <2>1, <3>1
  <2>. QED  BY <2>1, <2>2
<1>3. R \subseteq Nat
      OBVIOUS
<1>. HIDE DEF R
<1>4. PICK m : m = Max(R)
      OBVIOUS
<1>5. m \in R /\ \A y \in R : m >= y
      BY <1>1, <1>2, <1>4, Zenon DEF Max
<1>6. m = d
      BY <1>1, <1>2, <1>3, <1>5
<1>. QED  BY <1>4, <1>6 DEF Depth, R

\* The tree holds every prefix of its nodes; a node without a command has no
\* parameters, but for the root; and an accepted registration is at its node.
TreeOK ==
    /\ <<>> \in DOMAIN nodes
    /\ \A q \in DOMAIN nodes : q \in Seq(RouteNames)
    /\ \A q \in DOMAIN nodes : \A k \in 0..Len(q) : SubSeq(q, 1, k) \in DOMAIN nodes
    /\ \A q \in DOMAIN nodes : q # <<>> /\ nodes[q].command = 0 => nodes[q].params = <<>>
Placed ==
    \A k \in 1..Len(routes) :
        LET p == NamesIn(routes[k].path) IN
        routes[k].ok /\ p # <<>> =>
            p \in DOMAIN nodes /\ nodes[p].command = k /\ nodes[p].params = ParamsIn(routes[k].path)
RouterInv == routes \in Seq([path : RoutePaths, ok : BOOLEAN]) /\ TreeOK /\ Placed

\* What Handle makes of a path: the nodes at some first names of it are added,
\* and the one at its last name is all that changes.
HandleMakes(path, command, result, J) ==
    LET names == NamesIn(path)
        passed == {SubSeq(names, 1, k) : k \in J}
    IN
    /\ \A k \in J : \A j \in 1..k : j \in J
    /\ DOMAIN result.tree = DOMAIN nodes \cup passed
    /\ ~result.ok => \A q \in DOMAIN result.tree :
          result.tree[q] = IF q \in DOMAIN nodes THEN nodes[q] ELSE NewNode
    /\ result.ok =>
          /\ names \in DOMAIN result.tree
          /\ names # <<>> /\ names \in DOMAIN nodes => nodes[names].command = 0
          /\ result.tree[names].command = command
          /\ names # <<>> => result.tree[names].params = ParamsIn(path)
          /\ \A q \in DOMAIN result.tree : q # names =>
                result.tree[q] = IF q \in DOMAIN nodes THEN nodes[q] ELSE NewNode

\* Handle does so, whether it accepts the path or not.
LEMMA HandleEffect ==
    ASSUME TreeOK, NEW path \in RoutePaths, NEW command \in Nat \ {0},
           NEW result, result = Handle(path, command)
    PROVE  \E J \in SUBSET (1..Len(NamesIn(path))) : HandleMakes(path, command, result, J)
<1>. DEFINE names == NamesIn(path)
            At(k) == SubSeq(names, 1, k)
            refusing == {k \in 1..Len(names) : At(k) \in DOMAIN nodes /\ Refuses(nodes[At(k)])}
            J == {j \in 1..Len(names) : \A r \in refusing : j <= r}
            passed == {At(k) : k \in J}
            grown == [q \in DOMAIN nodes \cup passed |-> IF q \in DOMAIN nodes THEN nodes[q] ELSE NewNode]
            done == [grown EXCEPT ![names].command = command, ![names].params = @ \o ParamsIn(path)]
            Kept(q) == IF q \in DOMAIN nodes THEN nodes[q] ELSE NewNode
<1>1. path \in Seq(STRING)
      BY RouterAssumption
<1>2. names \in Seq(RouteNames) /\ Len(names) \in 0..Len(path)
      BY <1>1, NamesTyped
<1>3. result = [ok |-> refusing = {}, tree |-> IF refusing # {} THEN grown ELSE done]
      BY DEF Handle
<1>. HIDE DEF names
<1>4. result.ok <=> refusing = {}
  <2>. HIDE DEF refusing, grown, done
  <2>1. result.ok = (refusing = {})
        BY <1>3
  <2>. QED  BY <2>1
<1>5. /\ refusing # {} => result.tree = grown
      /\ refusing = {} => result.tree = done
  <2>. HIDE DEF refusing, grown, done
  <2>. QED  BY <1>3
<1>6. J \in SUBSET (1..Len(names)) /\ \A k \in J : \A j \in 1..k : j \in J
  <2>1. \A r \in refusing : r \in Nat
        BY <1>2
  <2>. HIDE DEF refusing
  <2>. QED  BY <1>2, <2>1
<1>7. refusing = {} => names = <<>> \/ (names \in passed /\ (names \in DOMAIN nodes => nodes[names].command = 0))
  <2>1. SUFFICES ASSUME refusing = {}, names # <<>>
                 PROVE  names \in passed /\ (names \in DOMAIN nodes => nodes[names].command = 0)
        OBVIOUS
  <2>2. Len(names) \in 1..Len(names) /\ At(Len(names)) = names
        BY <1>2, <2>1, CutAll
  <2>3. Len(names) \in J
        BY <2>1, <2>2
  <2>4. Len(names) \notin refusing
        BY <2>1
  <2>. QED  BY <2>2, <2>3, <2>4 DEF Refuses
<1>8. ASSUME refusing = {}
      PROVE  /\ names \in DOMAIN grown
             /\ names # <<>> => grown[names].params = <<>>
  <2>1. names \in DOMAIN nodes \cup passed
        BY <1>7, <1>8 DEF TreeOK
  <2>. HIDE DEF passed
  <2>. QED  BY <1>7, <1>8, <2>1 DEF TreeOK, NewNode
<1>. HIDE DEF refusing, J
<1>9. DOMAIN grown = DOMAIN nodes \cup passed
      OBVIOUS
<1>10. ASSUME refusing # {}
      PROVE  /\ ~result.ok /\ DOMAIN result.tree = DOMAIN nodes \cup passed
             /\ \A q \in DOMAIN result.tree : result.tree[q] = Kept(q)
      BY <1>4, <1>5, <1>9, <1>10
<1>11. ASSUME refusing = {}
      PROVE  /\ result.ok /\ DOMAIN result.tree = DOMAIN nodes \cup passed
             /\ names \in DOMAIN result.tree
             /\ names # <<>> /\ names \in DOMAIN nodes => nodes[names].command = 0
             /\ result.tree[names].command = command
             /\ names # <<>> => result.tree[names].params = ParamsIn(path)
             /\ \A q \in DOMAIN result.tree : q # names => result.tree[q] = Kept(q)
  <2>. HIDE DEF passed
  <2>1. DOMAIN done = DOMAIN nodes \cup passed /\ names \in DOMAIN done
        BY <1>8, <1>9, <1>11
  <2>2. \A q \in DOMAIN done : q # names => done[q] = Kept(q)
        BY <2>1
  <2>3. done[names].command = command /\ done[names].params = grown[names].params \o ParamsIn(path)
        BY <2>1
  <2>4. names # <<>> => done[names].params = ParamsIn(path)
    <3>1. ParamsIn(path) \in Seq(STRING)
          BY <1>1, <1>2 DEF ParamsIn, names
    <3>2. \A a \in Seq(STRING) : <<>> \o a = a
          OBVIOUS
    <3>. QED  BY <1>8, <1>11, <2>3, <3>1, <3>2, Zenon
  <2>. HIDE DEF done
  <2>. QED  BY <1>4, <1>5, <1>7, <1>11, <2>1, <2>2, <2>3, <2>4
<1>. QED  BY <1>6, <1>10, <1>11, Zenon DEF HandleMakes, names

\* A registration, accepted or refused, keeps the invariant.
LEMMA RegisterKeeps ==
    ASSUME RouterInv, NEW path \in RoutePaths, Register(path)
    PROVE  RouterInv'
<1>. DEFINE names == NamesIn(path)
<1>1. PICK result : result = Handle(path, Len(routes) + 1)
      OBVIOUS
<1>2. nodes' = result.tree /\ routes' = Append(routes, [path |-> path, ok |-> result.ok])
      BY <1>1 DEF Register
<1>3. TreeOK /\ Placed /\ routes \in Seq([path : RoutePaths, ok : BOOLEAN])
      BY DEF RouterInv
<1>4. Len(routes) + 1 \in Nat \ {0}
      BY <1>3
<1>5. PICK J \in SUBSET (1..Len(names)) : HandleMakes(path, Len(routes) + 1, result, J)
      BY <1>1, <1>3, <1>4, HandleEffect
<1>6. names \in Seq(RouteNames) /\ Len(names) \in Nat
  <2>1. path \in Seq(STRING)
        BY RouterAssumption
  <2>. QED  BY <2>1, NamesTyped
<1>. HIDE DEF names
<1>. DEFINE passed == {SubSeq(names, 1, k) : k \in J}
<1>7. DOMAIN nodes' = DOMAIN nodes \cup passed /\ \A k \in J : \A j \in 1..k : j \in J
      BY <1>2, <1>5, Zenon DEF HandleMakes, names
<1>8. \A q \in DOMAIN nodes' : (q = names /\ result.ok) \/
                               nodes'[q] = IF q \in DOMAIN nodes THEN nodes[q] ELSE NewNode
      BY <1>2, <1>5, Zenon DEF HandleMakes, names
<1>9. result.ok =>
         /\ names \in DOMAIN nodes'
         /\ names # <<>> /\ names \in DOMAIN nodes => nodes[names].command = 0
         /\ nodes'[names].command = Len(routes) + 1
         /\ names # <<>> => nodes'[names].params = ParamsIn(path)
      BY <1>2, <1>5, Zenon DEF HandleMakes, names
<1>10. \A q \in passed : q \in Seq(RouteNames) /\ q # <<>>
  <2>1. \A k \in J : k \in 1..Len(names)
        OBVIOUS
  <2>2. ASSUME NEW k \in 1..Len(names)
        PROVE  SubSeq(names, 1, k) \in Seq(RouteNames) /\ SubSeq(names, 1, k) # <<>>
    <3>1. k \in 0..Len(names)
          OBVIOUS
    <3>2. PICK a : a = SubSeq(names, 1, k)
          OBVIOUS
    <3>3. a \in Seq(RouteNames) /\ Len(a) = k
          BY <1>6, <3>1, <3>2, Cut
    <3>. QED  BY <3>2, <3>3
  <2>. QED  BY <2>1, <2>2
<1>11. \A q \in passed : \A j \in 0..Len(q) : SubSeq(q, 1, j) \in DOMAIN nodes \cup passed
  <2>1. SUFFICES ASSUME NEW k \in J, NEW q, q = SubSeq(names, 1, k), NEW j \in 0..Len(q)
                 PROVE  SubSeq(q, 1, j) \in DOMAIN nodes \cup passed
        OBVIOUS
  <2>2. k \in 1..Len(names) /\ k \in 0..Len(names)
        OBVIOUS
  <2>3. q \in Seq(RouteNames) /\ Len(q) = k
        BY <1>6, <2>1, <2>2, Cut
  <2>4. SubSeq(q, 1, j) = SubSeq(names, 1, j)
        BY <1>6, <2>1, <2>2, <2>3, CutTwice
  <2>5. CASE j = 0
    <3>1. SubSeq(q, 1, j) = <<>>
          BY <2>3, <2>5, CutNone
    <3>. QED  BY <1>3, <3>1 DEF TreeOK
  <2>6. CASE j # 0
    <3>1. j \in 1..k
          BY <2>3, <2>6
    <3>2. j \in J
          BY <1>7, <3>1
    <3>. QED  BY <2>4, <3>2
  <2>. QED  BY <2>5, <2>6
<1>. HIDE DEF passed
<1>12. TreeOK'
  <2>1. <<>> \in DOMAIN nodes'
        BY <1>3, <1>7 DEF TreeOK
  <2>2. \A q \in DOMAIN nodes' : q \in Seq(RouteNames)
        BY <1>3, <1>7, <1>10 DEF TreeOK
  <2>3. \A q \in DOMAIN nodes' : \A k \in 0..Len(q) : SubSeq(q, 1, k) \in DOMAIN nodes'
        BY <1>3, <1>7, <1>11, Zenon DEF TreeOK
  <2>4. ASSUME NEW q \in DOMAIN nodes', q # <<>>, nodes'[q].command = 0
        PROVE  nodes'[q].params = <<>>
    <3>1. ~(q = names /\ result.ok)
          BY <1>4, <1>9, <2>4
    <3>2. nodes'[q] = IF q \in DOMAIN nodes THEN nodes[q] ELSE NewNode
          BY <1>8, <3>1
    <3>. QED  BY <1>3, <2>4, <3>2 DEF TreeOK, NewNode
  <2>. QED  BY <2>1, <2>2, <2>3, <2>4 DEF TreeOK
<1>13. routes' \in Seq([path : RoutePaths, ok : BOOLEAN])
  <2>1. result.ok \in BOOLEAN
        BY <1>1, Zenon DEF Handle
  <2>2. PICK r : r = [path |-> path, ok |-> result.ok]
        OBVIOUS
  <2>3. r \in [path : RoutePaths, ok : BOOLEAN]
        BY <2>1, <2>2, Zenon
  <2>. QED  BY <1>2, <1>3, <2>2, <2>3
<1>14. /\ Len(routes') = Len(routes) + 1
       /\ \A k \in 1..Len(routes) : routes'[k] = routes[k]
       /\ routes'[Len(routes) + 1] = [path |-> path, ok |-> result.ok]
      BY <1>2, <1>3
<1>15. Placed'
  <2>1. ASSUME NEW k \in 1..Len(routes'), routes'[k].ok, NamesIn(routes'[k].path) # <<>>
        PROVE  LET p == NamesIn(routes'[k].path) IN
               p \in DOMAIN nodes' /\ nodes'[p].command = k /\ nodes'[p].params = ParamsIn(routes'[k].path)
    <3>1. CASE k \in 1..Len(routes)
      <4>1. PICK p : p = NamesIn(routes[k].path)
            OBVIOUS
      <4>2. routes'[k] = routes[k]
            BY <1>14, <3>1
      <4>3. p # <<>> /\ p \in DOMAIN nodes /\ nodes[p].command = k /\ nodes[p].params = ParamsIn(routes[k].path)
            BY <1>3, <2>1, <3>1, <4>1, <4>2, Zenon DEF Placed
      <4>4. ~(p = names /\ result.ok)
            BY <1>9, <3>1, <4>3
      <4>5. nodes'[p] = nodes[p] /\ p \in DOMAIN nodes'
            BY <1>7, <1>8, <4>3, <4>4
      <4>. QED  BY <4>1, <4>2, <4>3, <4>5
    <3>2. CASE k = Len(routes) + 1
      <4>1. routes'[k] = [path |-> path, ok |-> result.ok]
            BY <1>14, <3>2
      <4>2. PICK r : r = routes'[k]
            OBVIOUS
      <4>3. r.path = path
            BY <4>1, <4>2
      <4>4. r.ok = result.ok
            BY <4>1, <4>2
      <4>5. result.ok
            BY <2>1, <4>2, <4>4, Zenon
      <4>6. NamesIn(routes'[k].path) = names /\ ParamsIn(routes'[k].path) = ParamsIn(path)
            BY <4>2, <4>3 DEF names
      <4>. QED  BY <1>9, <2>1, <3>2, <4>5, <4>6, Zenon
    <3>. QED  BY <1>3, <1>14, <3>1, <3>2
  <2>. QED  BY <2>1, Zenon DEF Placed
<1>. QED  BY <1>12, <1>13, <1>15 DEF RouterInv

\* Lookup and Completer at a node of the tree.
LEMMA AtNode ==
    ASSUME TreeOK, NEW p \in DOMAIN nodes
    PROVE  /\ p \in Seq(RouteNames)
           /\ Depth(p) = Len(p)
           /\ Lookup(p) = [command |-> nodes[p].command, args |-> <<>>]
           /\ Completer(p) = Children(p)
<1>1. p \in Seq(RouteNames) /\ \A k \in 0..Len(p) : SubSeq(p, 1, k) \in DOMAIN nodes
      BY DEF TreeOK
<1>2. Depth(p) = Len(p)
  <2>1. Len(p) \in 0..Len(p)
        BY <1>1
  <2>. QED  BY <1>1, <2>1, DepthIs
<1>3. SubSeq(p, 1, Len(p)) = p /\ SubSeq(p, Len(p) + 1, Len(p)) = <<>>
      BY <1>1, CutAll
<1>4. Lookup(p) = [command |-> nodes[p].command, args |-> <<>>]
      BY <1>2, <1>3 DEF Lookup
<1>5. ~(Len(p) < Len(p))
      BY <1>1
<1>6. Completer(p) = Children(p)
      BY <1>2, <1>3, <1>5, Zenon DEF Completer
<1>. QED  BY <1>1, <1>2, <1>4, <1>6

\* One word past a node, where there is no child for it.
LEMMA PastNode ==
    ASSUME TreeOK, NEW p \in DOMAIN nodes, NEW word, Append(p, word) \notin DOMAIN nodes
    PROVE  /\ Lookup(Append(p, word)) = [command |-> nodes[p].command, args |-> <<word>>]
           /\ Completer(Append(p, word)) = {q \in Children(p) : <<Last(q), word>> \in StartsWith}
<1>. DEFINE T == RouteNames \cup {word}
<1>1. p \in Seq(RouteNames) /\ \A k \in 0..Len(p) : SubSeq(p, 1, k) \in DOMAIN nodes
      BY DEF TreeOK
<1>2. p \in Seq(T) /\ word \in T
      BY <1>1
<1>. HIDE DEF T
<1>3. PICK a : a = Append(p, word)
      OBVIOUS
<1>4. a \in Seq(T) /\ Len(a) = Len(p) + 1 /\ a[Len(p) + 1] = word
      BY <1>2, <1>3
<1>5. \A k \in 0..Len(p) : SubSeq(a, 1, k) = SubSeq(p, 1, k)
      BY <1>2, <1>3, CutAppend
<1>6. SubSeq(a, 1, Len(p)) = p /\ SubSeq(a, 1, Len(p) + 1) = a
  <2>1. Len(p) \in 0..Len(p)
        BY <1>2
  <2>. QED  BY <1>2, <1>4, <1>5, <2>1, CutAll
<1>7. Depth(a) = Len(p)
  <2>1. Len(p) \in 0..Len(a)
        BY <1>2, <1>4
  <2>2. \A k \in 0..Len(p) : SubSeq(a, 1, k) \in DOMAIN nodes
        BY <1>1, <1>5
  <2>3. SubSeq(a, 1, Len(p) + 1) \notin DOMAIN nodes
        BY <1>3, <1>6
  <2>. QED  BY <1>4, <2>1, <2>2, <2>3, DepthIs
<1>8. SubSeq(a, Len(p) + 1, Len(a)) = <<word>>
  <2>1. ASSUME NEW n \in 1..Len(a), NEW c, c = SubSeq(a, n, n)
        PROVE  c \in Seq(T) /\ Len(c) = 1 /\ c[1] = a[n]
        BY <1>4, <2>1
  <2>2. PICK n, c : n = Len(p) + 1 /\ c = SubSeq(a, n, n)
        OBVIOUS
  <2>3. c \in Seq(T) /\ Len(c) = 1 /\ c[1] = word
        BY <1>2, <1>4, <2>1, <2>2
  <2>4. c = <<word>>
        BY <2>3
  <2>. QED  BY <1>4, <2>2, <2>4
<1>9. Lookup(a) = [command |-> nodes[p].command, args |-> <<word>>]
      BY <1>6, <1>7, <1>8 DEF Lookup
<1>10. Len(p) < Len(a)
      BY <1>2, <1>4
<1>11. Completer(a) = {q \in Children(p) : <<Last(q), word>> \in StartsWith}
      BY <1>4, <1>6, <1>7, <1>10, Zenon DEF Completer
<1>. QED  BY <1>3, <1>9, <1>11

\* What the invariant says of the tree is what answers.
LEMMA RoutesFollow == RouterInv => RoutesAnswer
<1>. SUFFICES ASSUME RouterInv, NEW k \in 1..Len(routes), routes[k].ok, NEW p, p = NamesIn(routes[k].path), p # <<>>
              PROVE  /\ \A word \in Words :
                           Lookup(Append(p, word)) =
                              IF Append(p, word) \in DOMAIN nodes
                              THEN [command |-> nodes[Append(p, word)].command, args |-> <<>>]
                              ELSE [command |-> k, args |-> <<word>>]
                     /\ Lookup(p) = [command |-> k, args |-> <<>>]
                     /\ nodes[p].params = ParamsIn(routes[k].path)
                     /\ p \in Completer(Front(p))
                     /\ \A word \in Words : <<Last(p), word>> \in StartsWith =>
                           p \in Completer(Append(Front(p), word)) \/ Append(Front(p), word) \in DOMAIN nodes
     BY Zenon DEF RoutesAnswer
<1>1. TreeOK /\ p \in DOMAIN nodes /\ nodes[p].command = k /\ nodes[p].params = ParamsIn(routes[k].path)
      BY Zenon DEF RouterInv, Placed
<1>2. p \in Seq(RouteNames) /\ \A j \in 0..Len(p) : SubSeq(p, 1, j) \in DOMAIN nodes
      BY <1>1 DEF TreeOK
<1>3. ASSUME NEW word \in Words
      PROVE  Lookup(Append(p, word)) =
                IF Append(p, word) \in DOMAIN nodes
                THEN [command |-> nodes[Append(p, word)].command, args |-> <<>>]
                ELSE [command |-> k, args |-> <<word>>]
  <2>1. CASE Append(p, word) \in DOMAIN nodes
        BY <1>1, <2>1, AtNode
  <2>2. CASE Append(p, word) \notin DOMAIN nodes
        BY <1>1, <2>2, PastNode
  <2>. QED  BY <2>1, <2>2
<1>4. Lookup(p) = [command |-> k, args |-> <<>>]
      BY <1>1, AtNode
<1>5. PICK f : f = Front(p)
      OBVIOUS
<1>6. f \in DOMAIN nodes /\ Len(f) + 1 = Len(p)
  <2>1. Len(p) - 1 \in 0..Len(p)
        BY <1>2
  <2>2. f = SubSeq(p, 1, Len(p) - 1)
        BY <1>5 DEF Front
  <2>. QED  BY <1>2, <2>1, <2>2, Cut
<1>7. p \in Children(f)
      BY <1>1, <1>5, <1>6 DEF Children
<1>8. p \in Completer(f)
      BY <1>1, <1>6, <1>7, AtNode
<1>9. ASSUME NEW word \in Words, <<Last(p), word>> \in StartsWith, Append(f, word) \notin DOMAIN nodes
      PROVE  p \in Completer(Append(f, word))
      BY <1>1, <1>6, <1>7, <1>9, PastNode
<1>. QED  BY <1>1, <1>3, <1>4, <1>5, <1>8, <1>9

\* In whatever order commands are registered, an accepted one keeps answering
\* (Router.Handle, Lookup, Completer), for any paths, words and number of them.
THEOREM RouterTheorem == RouterSpec => []RoutesAnswer
<1>1. RouterInit => RouterInv
  <2>. SUFFICES ASSUME RouterInit
                PROVE  RouterInv
       OBVIOUS
  <2>1. PICK h : h = HelpPath
        OBVIOUS
  <2>2. h = <<"help">> /\ Len(h) = 1 /\ h[1] = "help" /\ h # <<>> /\ h \in Seq(STRING) /\ h \in RoutePaths
        BY <2>1, RouterAssumption DEF HelpPath
  <2>3. DOMAIN nodes = {<<>>, h} /\ routes = <<[path |-> h, ok |-> TRUE]>>
        BY <2>1, Zenon DEF RouterInit
  <2>4. nodes[h] = [NewNode EXCEPT !.command = 1]
        BY <2>1, <2>2, Zenon DEF RouterInit
  <2>5. nodes[h].command = 1 /\ nodes[h].params = <<>>
        BY <2>4 DEF NewNode
  <2>6. NamesIn(h) = h
    <3>1. {i \in 1..Len(h) : h[i] \in RouteParams} = {}
          BY <2>2, RouterAssumption
    <3>2. NamesIn(h) = [i \in 1..Len(h) |-> NameOf(h[i])]
          BY <3>1, Zenon DEF NamesIn, SelectInSeq
    <3>3. NameOf(h[1]) = "help"
          BY <2>2 DEF NameOf
    <3>. QED  BY <2>2, <3>2, <3>3
  <2>7. ParamsIn(h) = <<>>
        BY <2>2, <2>6 DEF ParamsIn
  <2>8. TreeOK
    <3>1. \A q \in DOMAIN nodes : q \in Seq(RouteNames)
      <4>1. "help" \in RouteNames
        <5>1. h[1] \in STRING
              BY <2>2
        <5>. QED  BY <2>2, <5>1, Zenon DEF RouteNames
      <4>2. <<>> \in Seq(RouteNames) /\ <<"help">> \in Seq(RouteNames)
            BY <4>1
      <4>. QED  BY <2>2, <2>3, <4>1, <4>2, Zenon
    <3>2. \A q \in DOMAIN nodes : \A k \in 0..Len(q) : SubSeq(q, 1, k) \in DOMAIN nodes
      <4>1. SubSeq(<<>>, 1, 0) = <<>> /\ Len(<<>>) = 0 /\ 0..0 = {0} /\ 0..1 = {0, 1}
            OBVIOUS
      <4>2. SubSeq(h, 1, 0) = <<>> /\ SubSeq(h, 1, 1) = h
        <5>1. SubSeq(h, 1, 0) = [i \in 1..0 |-> h[i]] /\ SubSeq(h, 1, 1) = [i \in 1..1 |-> h[i]]
              BY <2>2 DEF SubSeq
        <5>2. [i \in 1..0 |-> h[i]] = <<>>
              OBVIOUS
        <5>3. [i \in 1..1 |-> h[i]] = h
              BY <2>2
        <5>. QED  BY <5>1, <5>2, <5>3, Zenon
      <4>. QED  BY <2>2, <2>3, <4>1, <4>2, Zenon
    <3>. QED  BY <2>3, <2>5, <3>1, <3>2, Zenon DEF TreeOK
  <2>9. Placed
    <3>1. Len(routes) = 1 /\ 1..1 = {1} /\ routes[1].path = h
          BY <2>3
    <3>. QED  BY <2>3, <2>5, <2>6, <2>7, <3>1, Zenon DEF Placed
  <2>10. routes \in Seq([path : RoutePaths, ok : BOOLEAN])
        BY <2>2, <2>3
  <2>. QED  BY <2>8, <2>9, <2>10, Zenon DEF RouterInv
<1>2. RouterInv /\ [RouterNext]_routerVars => RouterInv'
  <2>. SUFFICES ASSUME RouterInv, [RouterNext]_routerVars
                PROVE  RouterInv'
       OBVIOUS
  <2>1. CASE RouterNext
        BY <2>1, RegisterKeeps DEF RouterNext
  <2>2. CASE UNCHANGED routerVars
        BY <2>2, Zenon DEF routerVars, RouterInv, TreeOK, Placed
  <2>. QED  BY <2>1, <2>2
<1>. QED  BY <1>1, <1>2, RoutesFollow, PTL DEF RouterSpec

===============================================================================
